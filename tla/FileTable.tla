------------------------------ MODULE FileTable ------------------------------
(***************************************************************************)
(* Open files: the file table of crates/fs/src/file.rs, the descriptors of *)
(* crates/syscall/src/sysfile.rs, and the pages of pipes                   *)
(* (crates/fs/src/pipe.rs, crates/mm/src/kalloc.rs) behind them.           *)
(*                                                                         *)
(* No handler here sleeps, so each is one step.  A handler is the          *)
(* composition of the functions it calls, each of which takes the tables   *)
(* and returns them.                                                       *)
(***************************************************************************)
EXTENDS Naturals, Sequences, FiniteSets, FiniteSetsExt, Functions

CONSTANTS Procs,   \* process slots
          INITPROC,
          NFILE, NOFILE,
          Pages    \* pages kalloc has for pipes

Files == 1..NFILE
Fds   == 0..(NOFILE - 1)
NULL  == 0

FileConstants == /\ IsFiniteSet(Procs) /\ INITPROC \in Procs
                 /\ NFILE \in Nat /\ NOFILE \in Nat
                 /\ Pages \subseteq Nat \ {NULL} /\ IsFiniteSet(Pages)

VARIABLES t,         \* the tables: see Tables
          alive,     \* slots with a process
          panicked

vars == <<t, alive, panicked>>

Tables == [ref_ : [Files -> Nat], ftype : [Files -> {"None", "Pipe"}],
           pipe : [Files -> Pages \cup {NULL}], writable : [Files -> BOOLEAN],
           ofile : [Procs -> [Fds -> Files \cup {NULL}]],
           readopen : [Pages -> BOOLEAN], writeopen : [Pages -> BOOLEAN],
           freelist : Seq(Pages)]

TypeOK == t \in Tables /\ alive \in SUBSET Procs /\ panicked \in BOOLEAN

-----------------------------------------------------------------------------
\* filealloc: the first free entry, or NULL.
Free(s)      == {f \in Files : s.ref_[f] = 0}
NextFile(s)  == IF Free(s) = {} THEN NULL ELSE Min(Free(s))
Filealloc(s) == IF NextFile(s) = NULL THEN s ELSE [s EXCEPT !.ref_[NextFile(s)] = 1]

\* The panics of filedup and fileclose on an entry that nobody references are
\* unreachable by RefsMatch.
Filedup(s, f) == [s EXCEPT !.ref_[f] = @ + 1]

Kfree(s, g) == [s EXCEPT !.freelist = <<g>> \o @]

\* pipeclose: the page is freed once both ends are closed.
Pipeclose(s, g, w) ==
  LET u == IF w THEN [s EXCEPT !.writeopen[g] = FALSE] ELSE [s EXCEPT !.readopen[g] = FALSE]
  IN IF ~u.readopen[g] /\ ~u.writeopen[g] THEN Kfree(u, g) ELSE u

\* fileclose: the last reference clears the entry and closes the pipe's end.
Fileclose(s, f) ==
  LET u == [s EXCEPT !.ref_[f] = @ - 1]
      c == [u EXCEPT !.ftype[f] = "None", !.pipe[f] = NULL]
  IN IF u.ref_[f] > 0 THEN u
     ELSE IF s.ftype[f] = "Pipe" THEN Pipeclose(c, s.pipe[f], s.writable[f])
     ELSE c

\* fdalloc: the first free descriptor, or none.
FreeFds(s, p)    == {d \in Fds : s.ofile[p][d] = NULL}
Fdalloc(s, p, f) == IF FreeFds(s, p) = {} THEN s ELSE [s EXCEPT !.ofile[p][Min(FreeFds(s, p))] = f]

\* pipealloc: two entries and a page; cleanup() closes what it got.
Wire(s, f, w, g) == [s EXCEPT !.ftype[f] = "Pipe", !.writable[f] = w, !.pipe[f] = g]

\* Variant: pipealloc keeps the first entry when there is no second.
PipeallocLeaks(s) ==
  LET f0 == NextFile(s)
      s0 == Filealloc(s)
      f1 == NextFile(s0)
      s1 == Filealloc(s0)
      g  == Head(s.freelist)
      s2 == [s1 EXCEPT !.freelist = Tail(@), !.readopen[g] = TRUE, !.writeopen[g] = TRUE]
  IN IF f0 = NULL \/ f1 = NULL THEN [ok |-> FALSE, s |-> s0]
     ELSE [ok |-> TRUE, s |-> Wire(Wire(s2, f0, FALSE, g), f1, TRUE, g), rf |-> f0, wf |-> f1]

Pipealloc(s) ==
  LET f0 == NextFile(s)
      s0 == Filealloc(s)
      f1 == NextFile(s0)
      s1 == Filealloc(s0)
      g  == Head(s.freelist)
      s2 == [s1 EXCEPT !.freelist = Tail(@), !.readopen[g] = TRUE, !.writeopen[g] = TRUE]
  IN IF f0 = NULL THEN [ok |-> FALSE, s |-> s]
     ELSE IF f1 = NULL THEN [ok |-> FALSE, s |-> Fileclose(s0, f0)]
     ELSE [ok |-> TRUE, s |-> Wire(Wire(s2, f0, FALSE, g), f1, TRUE, g), rf |-> f0, wf |-> f1]

\* sys_pipe: the pipe, then two descriptors; undone when there are not two.
PipeCall(s, p) ==
  LET r  == Pipealloc(s)
      u0 == Fdalloc(r.s, p, r.rf)
      d0 == Min(FreeFds(r.s, p))
      u1 == Fdalloc(u0, p, r.wf)
  IN IF ~r.ok THEN r.s
     ELSE IF FreeFds(r.s, p) = {} THEN Fileclose(Fileclose(r.s, r.rf), r.wf)
     ELSE IF FreeFds(u0, p) = {} THEN Fileclose(Fileclose([u0 EXCEPT !.ofile[p][d0] = NULL], r.rf), r.wf)
     ELSE u1

-----------------------------------------------------------------------------
Panic == panicked' = TRUE /\ UNCHANGED <<t, alive>>

\* kalloc panics when it has no page.
SysPipe(p) ==
  /\ ~panicked /\ p \in alive
  /\ IF Cardinality(Free(t)) >= 2 /\ t.freelist = <<>>
     THEN Panic
     ELSE t' = PipeCall(t, p) /\ UNCHANGED <<alive, panicked>>

SysDup(p, d) ==
  /\ ~panicked /\ p \in alive /\ t.ofile[p][d] # NULL
  /\ t' = IF FreeFds(t, p) = {} THEN t ELSE Filedup(Fdalloc(t, p, t.ofile[p][d]), t.ofile[p][d])
  /\ UNCHANGED <<alive, panicked>>

SysClose(p, d) ==
  /\ ~panicked /\ p \in alive /\ t.ofile[p][d] # NULL
  /\ t' = Fileclose([t EXCEPT !.ofile[p][d] = NULL], t.ofile[p][d])
  /\ UNCHANGED <<alive, panicked>>

\* The loop of fork over the descriptors: the child gets each of the parent's.
DupFd(s, p, q, d) ==
  IF s.ofile[p][d] = NULL THEN s
  ELSE [Filedup(s, s.ofile[p][d]) EXCEPT !.ofile[q][d] = s.ofile[p][d]]

ForkFiles(s, p, q) ==
  LET after[n \in 0..NOFILE] == IF n = 0 THEN s ELSE DupFd(after[n - 1], p, q, n - 1)
  IN after[NOFILE]

Fork(p, q) ==
  /\ ~panicked /\ p \in alive /\ q \notin alive
  /\ t' = ForkFiles(t, p, q)
  /\ alive' = alive \cup {q}
  /\ UNCHANGED panicked

\* The loop of exit, which closes every descriptor.
CloseFd(s, p, d) ==
  IF s.ofile[p][d] = NULL THEN s
  ELSE [Fileclose(s, s.ofile[p][d]) EXCEPT !.ofile[p][d] = NULL]

ExitFiles(s, p) ==
  LET after[n \in 0..NOFILE] == IF n = 0 THEN s ELSE CloseFd(after[n - 1], p, n - 1)
  IN after[NOFILE]

Exit(p) ==
  /\ ~panicked /\ p \in alive
  /\ \/ p = INITPROC /\ Panic
     \/ /\ p # INITPROC
        /\ t' = ExitFiles(t, p)
        /\ alive' = alive \ {p}
        /\ UNCHANGED panicked

\* panic!() stops the kernel for good.
Halted == panicked /\ UNCHANGED vars

-----------------------------------------------------------------------------
\* kinit frees every page once; the order is of no concern here.
Kinit == CHOOSE l \in [1..Cardinality(Pages) -> Pages] : IsInjective(l)

Init == /\ t = [ref_ |-> [f \in Files |-> 0], ftype |-> [f \in Files |-> "None"],
                pipe |-> [f \in Files |-> NULL], writable |-> [f \in Files |-> FALSE],
                ofile |-> [p \in Procs |-> [d \in Fds |-> NULL]],
                readopen |-> [g \in Pages |-> FALSE], writeopen |-> [g \in Pages |-> FALSE],
                freelist |-> Kinit]
        /\ alive = {INITPROC}
        /\ panicked = FALSE

Next == \/ \E p \in Procs : \/ SysPipe(p) \/ Exit(p)
                            \/ \E d \in Fds : SysDup(p, d) \/ SysClose(p, d)
                            \/ \E q \in Procs : Fork(p, q)
        \/ Halted

Spec == Init /\ [][Next]_vars

-----------------------------------------------------------------------------
\* The reference count of a file is the number of descriptors of all processes
\* that name it: no failed pipe() leaks a reference and no exit() drops one twice.
RefsMatch ==
  \A f \in Files : t.ref_[f] = Cardinality({x \in Procs \X Fds : t.ofile[x[1]][x[2]] = f})

\* A pipe's end is open exactly as long as some file refers to it.
EndsMatch ==
  \A g \in Pages : /\ t.readopen[g] <=> \E f \in Files : t.ref_[f] > 0 /\ t.pipe[f] = g /\ ~t.writable[f]
                   /\ t.writeopen[g] <=> \E f \in Files : t.ref_[f] > 0 /\ t.pipe[f] = g /\ t.writable[f]

\* Every page is in use by a pipe or on the free list, once: pipes leak no page
\* and free none twice.
PagesConserved ==
  \A g \in Pages : Cardinality({i \in 1..Len(t.freelist) : t.freelist[i] = g})
                     = IF t.readopen[g] \/ t.writeopen[g] THEN 0 ELSE 1

\* References, ends of pipes and pages are counted rightly.
FilesAgree == RefsMatch /\ EndsMatch /\ PagesConserved
=============================================================================
