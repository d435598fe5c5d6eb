# A TLA+ model of the Rust port of xv6-64

This directory models the system under `src/` in TLA+: the kernel, the image
`mkfs` builds, the user library's heap, the shell's parser and `grep`. TLC checks
small instances of every module. TLAPS proves the main properties of the log, the
buffer cache, file writes, open files, the process table, pipes, interrupt
masking, the assembly stubs, the terminal, user memory and the user's heap for
every value of their constants.

## 1. The system

| part | source | state | operations |
|---|---|---|---|
| write-ahead log | `crates/fs/src/log.rs` | header (memory and disk), log slots, `outstanding`, `committing` | `begin_op`, `log_write`, `end_op`, `commit`, `initlog` |
| buffer cache, sleep locks | `crates/fs/src/bio.rs`, `crates/sync/src/sleeplock.rs` | buffers, their flags and locks, the LRU list | `get`, `read`, `write`, `release_buf` |
| IDE driver | `crates/drivers/src/ide.rs` | the request queue | `iderw`, `ideintr` |
| inodes, blocks, names | `crates/fs/src/fs.rs` | inode cache, free map, directories | `iget` ... `iput`, `balloc`, `bmap`, `itrunc`, `writei`, `dirlink`, `namex` |
| disk image | `mkfs/src/main.rs` | the first contents of the disk | `ialloc`, `iappend` |
| files and descriptors | `crates/fs/src/file.rs`, `crates/syscall/src/sysfile.rs` | file table, `ofile` | `filealloc`, `filedup`, `fileclose`, `filewrite`, `sys_pipe`, `sys_dup`, `sys_close` |
| pipes | `crates/fs/src/pipe.rs` | ring, counters, open ends | `pipewrite`, `piperead`, `pipeclose` |
| processes | `crates/proc/src/proc.rs` | process table | `fork`, `exit`, `wait`, `kill`, `sleep_proc`, `wakeup`, `scheduler` |
| spinlocks, interrupts | `kernel/src/glue.rs`, `crates/arch/src/traps.rs` | `CLI_DEPTH`, `INT_ENABLED`, `FL_IF` | `pushcli`, `popcli`, `sched`, gates |
| assembly | `crates/arch/src/asm/*.S` | stacks, registers | `alltraps`, `trapret`, `syscall_entry`, `swtch` |
| memory | `crates/mm/src/kalloc.rs`, `crates/arch/src/vm.rs`, `crates/proc/src/exec.rs` | free list, page tables, `sz` | `kalloc`, `allocuvm`, `deallocuvm`, `copyuvm`, `growproc`, `exec` |
| keyboard, console | `crates/drivers/src/kbd.rs`, `crates/console/src/lib.rs` | modifiers, input ring, screen | `kbdgetc`, `consoleintr`, `cgaputc`, `consolewrite` |
| user library | `crates/ulib/src` | heap | `malloc`, `free`, `morecore` |
| shell, programs | `user/src/sh.rs`, `user/src/grep.rs` | the line, the buffer | `parsecmd`, `grep`, `match_pattern` |

How they interact: a program makes system calls through the assembly stubs; a
call on a file goes through the file table to a pipe or an inode; inodes go
through the log to the buffer cache and the IDE queue; everything that waits
sleeps in the process table, and interrupts wake it.

### What is special about this port

* **One CPU, no preemption.** `acquire` masks interrupts and sets a flag, it
  never spins (`kernel/src/glue.rs:30`); `cpunum()` is 0; `trap()` never
  yields. What runs between two calls of `sched()` is therefore atomic with
  respect to other processes. `ProcTable`, `FileTable`, `FileSys` and `Vm` use
  that grain. `Log` splits a commit at every disk write, `Pipe` makes every
  byte a step under the lock, and `BufferCache` makes every critical section a
  step: these allow at least the interleavings of the code.
* **`Spinlock<T>` of `crates/sync` does nothing**, so the IDE driver is
  protected by interrupt masking alone; `Interrupts` looks at it.
* **The kernel is a debug build** (`Makefile:92`), so additions are checked and
  an overflow is a panic.
* **`kalloc` panics** when memory is exhausted, so the recovery branches for a
  null page are dead code and are not modelled.
* **There is no `open`**: no system call creates a file on an inode, a
  directory or a link. `fs.rs` has the operations for it; `FileSys` models them
  with callers (`Begin`, `Create`, `Unlink`) that use them as the interface
  asks, and marks those callers external. `init` calls `open` and `mknod` for its
  descriptors (`init.rs:10-15`), and both fail: no program has a console.
* **The library's system calls do not arrive.** `ulib` raises `int 0x40`
  (`ulib/src/lib.rs:19-74`), every gate has privilege level 0
  (`traps.rs:122-124`), and `trap()` has no case for vector 64. Only the
  `syscall` instruction reaches the kernel, so no program linked with `ulib` gets
  through its first call. The models of system calls start at the handlers
  (`sys_pipe`, `fork`, ...) and say what those do when a call arrives.
* **`switchuvm` is a stub** (`vm.rs:200-207`): it neither loads the page table of
  the process nor sets `rsp0`. `Vm` says what the page tables hold, not that the
  CPU uses them. A trap taken in user mode has no kernel stack to go to and
  resets the machine, which is the action `Reset` of `Switch`; `Switch` follows
  system calls, and interrupts that come upon the kernel, as though the page
  table were loaded.
* **Device interrupts stay masked.** `ioapicinit` masks every line
  (`ioapic.rs:79-82`), and `ioapicenable`, which would unmask one, has no caller
  (`ide.rs:41` is commented out). `BufferCache` and `Terminal` model the handlers
  `ideintr` and `kbdintr` as though their interrupts came; that a disk request is
  ever answered is not claimed.
* **`my_cpu()` reads a pointer that nobody stores.** `Interrupts` shows what
  that means for the check in `sched()`; the other modules assume it passes.

### Behaviours that are hard to test

Crashes between two disk writes, also during recovery; operations admitted
while others fill the log; a wakeup racing the decision to sleep; a buffer or
an inode recycled under a sleeper; a close or kill while somebody sleeps in a
pipe; exit racing wait; resources that run out half-way through a call;
counters at their limit; one word too many on a stack. PROJECT.json lists them
as hazards, each with its line and properties.

## 2. Modules

| module | models | abstract specification or reference |
|---|---|---|
| `Log` | `log.rs` with crash and recovery | `AtomicDisk` |
| `BufferCache` | `bio.rs`, `ide.rs`, sleep locks | `BlockStore` |
| `FileWrite` | `filewrite`, `writei`, `bmap`, `balloc` on top of `Log` | |
| `Mkfs`, `FileSys` | the image; `fs.rs` on it | |
| `FileTable` | files, descriptors, pages of pipes | |
| `Pipe` | one pipe, many processes | `Fifo` |
| `ProcTable` | `proc.rs` | |
| `Interrupts` | `pushcli`/`popcli` across context switches | |
| `Switch` | the assembly stubs and the stacks | |
| `Vm` | pages, address spaces, fork, sbrk, exec | |
| `Terminal` | keyboard, line editor, screen | the keys held; the line typed |
| `Malloc` | `malloc` and `free` of `ulib` | a tiling of the heap |
| `Parser` | the parser of `sh` | a grammar |
| `Grep` | `grep` with its buffer | matching by definition |
| `LogProofs` | proofs about `Log` | |
| `FileWriteProofs` | proofs about `FileWrite` | |
| `BufferCacheProofs` | proofs about `BufferCache` | |
| `FileTableProofs` | proofs about `FileTable` | |
| `KernelProofs` | proofs about `Interrupts` and `Switch` | |
| `PipeProofs` | proofs about `Pipe` and `Terminal` | |
| `ProcessProofs` | proofs about `ProcTable` and `Malloc` | |
| `VmProofs` | proofs about `Vm` | |
| `MC*` | sets, views and orders for TLC; `MCKernel` and `MCLibrary` check several modules in one run, one at a time | |

An action stands for a whole handler, or for the part of it between two points
where another process, an interrupt or a crash can intervene. Names follow the
source (`BeginOp` is `begin_op`, `Wakeup1` is `wakeup1`). The lines each
definition stands for are in PROJECT.json under `map`.

Definitions whose comment begins with "Variant" are wrong versions of the
definition after them. No specification uses them; each breaks one property and
shows that the property depends on the code.

**Log.** Disk: `disk`, `slots`, `head`. Memory: pinned buffers `cache`/`dirty`,
the header `lh`, `outstanding`, `committing`. Every `bio::write` is a step and
`Crash` may fall between any two. The refinement maps the durable contents of
`AtomicDisk` to what recovery would make of the disk (`Recovered`).

**BufferCache.** `refs` and `lock` are who points to and who has locked a
buffer. `IDE_LOCK` locks nothing, so `iderw` is three steps (`Link`, `Check`,
`Sleep`), and `IdeIntr` may come between any two; no other process can, because
none of the steps gives up the CPU. A process holds at most two buffers (`Nests`), as
the nesting in the log, `bmap` and `itrunc` allows. Any read or write may fail; the
history variable `failed` names the buffers that then differ from the disk, and
`missed` the processes whose `iderw` an interrupt came upon.

**FileWrite.** Each process appends to its own file; `Bmap` returns the blocks
allocated and the `log_write`s made; `balloc` panics when no block is free.
Contents are left out, and what is asked for fits on the disk and in the file
(`Fits`). So three things are not in the model: overwriting, which allocates
nothing; the -1 of `writei` (`fs.rs:483-488`); and the paths of `filewrite` that it
leads to, `r < 0` and "short filewrite" (`file.rs:268-273`). None of them modifies
more blocks than the appends do.

**FileSys.** A process runs a list of calls; a call that makes others puts them
in its place, and a step ends where the code can give up the CPU (`bio::read`,
`acquiresleep`). A directory block is a list of entries, a file is measured in
entries, and contents of ordinary files are left out. `Mkfs` computes the disk it
starts on.

**FileTable.** Handlers are compositions of functions on the tables, in the
order in which the code calls them. The loops of `fork` and `exit` over the
descriptors are recursive functions of the descriptor number. `Kinit` is the
free list in some order, which no property depends on.

**Pipe.** `lock` is the process inside. A byte is a step. Overflow of the
checked additions is the action `WriteTraps`.

**ProcTable.** `at` is where a process continues, `cur` whom the CPU runs,
`scan`/`skipped`/`halted` the loop of `scheduler()`. `DEV` stands for every
channel that is not a process. `yield_proc` is defined and has no caller in the
kernel today; the model allows it.

**Interrupts.** `Script` lists the acquire, release and sched calls of each
kernel path in order; a step is one call.

**Switch.** A stack is a sequence of words, each of which says which register of
whom it holds. An entry pushes and an exit pops what the assembly does, in its
order; the Rust structures `trapframe` and `Context` are laid over the words. The
vectors are those of interrupts, 32 to 255, which come upon code of the kernel; an
interrupt or a fault of a program is `Reset`.

**Vm.** An address space maps page numbers to pages, and numbers below zero, one
for each table that `walkpgdir` makes on its way, to the pages of the tables.
`fork` and `growproc` are one step. `exec` sleeps over every read, so it is a step
for the root table, one for each segment and one for the rest; `img` is what it
has built so far and `args` whose argument registers are in the trapframe.
Shrinking to exactly 0 frees the pages and keeps `sz`; the history variable `low`
says where the mapped pages begin after that. `Widened` is the i32/i64 mismatch between `sys_sbrk` and `growproc`.

**Terminal.** `port` and `half` are the bytes of a key on their way; `term` is
the state of `kbd.rs` and of the console. `consolewrite` takes no lock: `out` is the
character a program is in the middle of writing, and a key or another character
that falls into the middle makes the cursor any number, from where on the screen
is `torn` and not followed. `last` and `mixed` are history: which modifiers are
down, and whether a program wrote into the line being edited.

**Malloc.** A step is one turn of the loop in `malloc` or in `free`. `heap` holds
`freep`, the headers (`next`, `size`) and the end of the heap. `live`, the blocks
the client has, and `list`, those put into the free list, are history: `malloc`
and `free` decide by the headers alone. `Clean` clears headers nobody reads any
more, so that states do not differ by them. The client frees a block it has, or
asks for a number of bytes in `Bytes`.

**Parser, Grep.** The algorithms as functions, next to a definition of what they
should compute. `grep` reads from a pipe, any number of bytes at a time; `lost` are
the places of the bytes it drops when its buffer holds no newline.

## 3. What is checked

Runs that pass:

| run | module | states | shows |
|---|---|---|---|
| `log` | `Log` | 168,040 | operations become durable in groups, atomically, with two crashes anywhere (`ImplementsAtomicDisk`, `QuiescentDurable`); no panic for operations within `SafeOps` (`NoPanic`); `NoLostWakeup`, `SleeperWoken` |
| `bcache` | `MCBufferCache` | 357,458 | a block is one variable with one owner, except where the disk failed (`ImplementsStore`, `OneCopy`, `RefCounted`); a process sleeps for a lock that is held or a request that is queued, unless an interrupt came upon its `iderw` (`NoLostWakeup`) |
| `pipe` | `Pipe` | 166,894 | the ring is a bounded queue (`ImplementsFifo`); `WakeupNotMissed`, `NoUseAfterFree`; 0 means end of file (`ZeroMeansEof`); closing an end releases the other (`CloseReleases`) |
| `proc` | `ProcTable` | 46,334 | no orphans (`ParentAlive`), no missed exit (`WaiterNotMissed`), `DeadStayDead`; runnable processes run (`RunnableRuns`), zombies are reaped (`OrphanReaped`) |
| `fs` | `MCFileSys` | 311,914 | one owner for every block (`BlocksOwnedOnce`), `CacheCoherent`, nothing is left behind on any error path (`NothingLeaks`), `NoConsistencyPanic` |
| `library` | `MCLibrary` | 1,781,592 | `HeapSound` (`Malloc`), `ParseExact` (`Parser`), `GrepExact` (`Grep`), `ModifiersExact`, `EditShown`, `CommittedKept` (`Terminal`) |
| `kernel` | `MCKernel` | 456,662 | what a chunk can modify (`ChunkBound`); interrupts are masked under locks (`Masking`); stacks and frames (`RegistersRestored`, `FrameIsUser`); counts and pages of files (`FilesAgree`); one owner for every page, also while `exec` builds, and a map that follows `sz` (`MemoryAgree`); the process table with four slots (`FamilyKept`) |

Runs that end in a violation of something the repository says (the findings of
PROJECT.json):

| run | the repository says | the code |
|---|---|---|
| `filewrite_two` | chunks "avoid exceeding log transaction size" (`file.rs:253`) | a chunk modifies up to 17 blocks, `begin_op` reserves 10: two writers reach the panic of `log_write` |
| `intr_iderw` | "we won't miss any wakeup" (`proc.rs:506`) | `sleep` called from `iderw` releases a lock that was never counted, and may unmask interrupts before `sched` |
| `switch_forkret` | "Field order MUST match the push/pop order in `swtch.S`" (`proch.rs:38`) | `Context` has one register less than `swtch` pops, so a new process does not pass through `forkret` |
| `fs_names` | "Compare directory entry names" (`fs.rs:518`) | `namecmp` stops at the end of the name looked up, so "a" finds "ab" |
| `vm_exec` | a failed exec returns -1 "without changing the current process" (`exec.rs:59`) | the argument registers are written before the last step that can fail (`exec.rs:183`) |

### Other disagreements

These were met while modelling. The property that states what the repository
says is kept in the module; TLC finds it violated on the instance named here, but
no run is kept for it. The instances of `ProcTable` and `Pipe` differ from
`proc.cfg` and `pipe.cfg` as said.

| property | the repository says | the code | instance |
|---|---|---|---|
| `Log!NoPanic` | `begin_op` "may block if the log is close to full" (`log.rs:157`) | the header takes one of the `LOGSIZE` blocks, so three full operations panic | 3 processes, 6 blocks, `LOGSIZE = NLog = 6`, `MAXOPBLOCKS = OpBlocks = 2`, one value, no crash |
| `ProcTable!BornAlive` | `kill` kills "the process with the given pid" (`proc.rs:554`) | `kill(0)` marks a free slot; `killed` is not reset by `allocproc` | `KillPids = {0, 2}` |
| `ProcTable!KilledDies` | the same, and `usertests.rs:373-380` | `trap()` does not look at `killed` (a TODO, `traps.rs:192`) | `KillPids = {2, 3}` |
| `Pipe!BlocksIfEmpty` | `piperead` "blocks if pipe is empty" (`pipe.rs:187`) | a writer killed in a full pipe returns without waking the readers | `UINTMAX = 100` |
| `Pipe!WriteNeedsReader` | -1 "if read end closed" (`pipe.rs:163`) | tested only when the pipe is full | `UINTMAX = 100` |
| `Pipe!CountersWrap` | "total, wrapping" (`pipe.rs:42`) | checked additions panic | `UINTMAX = 7`, `MaxBytes = 20` |
| `Interrupts!SchedEnters` | "must hold only ptable.lock" (`proc.rs:429`) | the check reads `my_cpu().ncli`, which nobody maintains | `intr_iderw.cfg` without `iderw` |

Seen while reading, with no property of their own:

* A shrink to exactly 0 frees the pages, but `growproc` takes `deallocuvm`'s 0 for a
  failure and keeps `sz` (`proc.rs:235`); the next `fork` panics with "copyuvm: pte
  should exist" (`vm.rs:437`). `Vm` models both, and `MemoryAgree` says what is
  mapped after it. `usertests` is "expecting failed sbrk()s" (`usertests.rs:1398`),
  where `kalloc` panics (`kalloc.rs:132`); and `sys_sbrk` passes an i32 where an i64
  is read (`sysproc.rs:74`), so a negative argument may be
  read as a large one (`Widened`).
* `B_VALID` means "has been read from disk" (`buf.rs:14`) and is also set after a
  failed read (`ide.rs:105`); `ImplementsStore` excepts the blocks concerned.
* `consoleread` polls the UART, though its comment says "read from the console
  input buffer." (`glue.rs:139`); nobody advances `INPUT.r`, and
  `uartearlyinit` and `ioapicenable` have no caller. A read from the console
  returns 0, which `gets` takes for the end of file, and the shell exits
  (`sh.rs:163`).
* `sys_sleep` passes a null lock (`sysproc.rs:97`); `sys_exec` leaves an
  argument vector of `MAXARG` entries without a terminator (`sysfile.rs:187`);
  `NEXTPID` overflows in the end (`proc.rs:151`).
* `sh` opens the target of `>>` without appending. `grep` drops what is in its
  buffer when that holds no newline, also when only a read from a pipe was short,
  and so sees the end of such a line only; `GrepExact` says which part.
* `hlt` in the scheduler may follow an interrupt that made a process runnable;
  the next tick ends the wait (`proc.rs:419`).
* `kill` of init makes its `wait` return -1 at once, and since nothing takes the
  CPU from it, it starves every other process. Neither `proc` nor `kernel`
  kills init; the proofs cover it.

### Bounds

* `log`: two operations are admitted together while the log is empty, and the
  second waits for space once the first has logged a block, so both reasons to
  sleep occur. Operations within `SafeOps` cannot fill the log of this instance
  before the committer runs, so for `NoPanic` it shows the admission rule, and the
  theorem the rest. More processes are covered by the proofs.
* `bcache`: two processes and two buffers for three blocks, so recycling is
  frequent and `get` finds no buffer.
* `pipe`: `PIPESIZE` is 2 with calls of 0, 1 and 3 bytes, so calls wrap and block;
  `UINTMAX` is 4, so that the limit of the counters is reached.
* `proc`: three slots, because liveness is costly. `kernel` has four, the least
  for which a process exits that is not a child of init and leaves a zombie.
* `fs`: ten blocks, three inodes, three cache slots, one direct
  block: every resource runs out, and the root directory and one file reach
  into their indirect blocks. Four calls in all (`MaxCalls`).
* `library`: heaps of 12 units; all lines of up to 5 characters, and two longer
  ones (`MCDrafts`); patterns of up to 3 characters on files of up to 5; a
  screen of 2 by 2 with an input ring of 3, so that both are full after a few
  keys.
* `kernel`: for `FileWrite` the real `LOGSIZE`, `MAXOPBLOCKS` and `NDIRECT`, with
  blocks of 2 bytes; a chunk is then 26 bytes, and requests of 1, 27 and 54
  bytes take one, two and three chunks and start inside a block or at its edge.
  For `FileTable` four files, two descriptors and two pages: `pipe()` fails at
  every stage. For `Vm` two slots, 18 pages of 2 bytes and tables of 2 entries: memory
  runs out in every call, a second table is needed, images of one and of two
  segments are loaded, and a shrink by 4 reaches exactly 0. For `Switch` two
  processes, a frame of a system call and one of an interrupt on it, and two vectors.

Counters are bounded by `MaxCrashes`, `MaxPid`, `MaxBytes`, `MaxCalls` and
`MaxNest`.

`PageView` in `MCKernel` identifies states that differ by a renaming of pages. It
is sound because no action or property distinguishes pages while each has one
use, and `PagesConserved` itself is part of the view. `ProgressView` in
`MCFileWrite` is used only to find a violation. Symmetry is used only for safety,
in `fs` and `bcache`.

Deadlock is not checked in `pipe` and `library`, where the input of the bound may
be used up and the processes stop, and in `bcache`, where two processes may wait for
each other's buffer (nothing in `bio.rs` orders the requests of its callers) or for
a wakeup that came too early.

### Fairness

* `Log`: steps of a commit and of recovery, and the end of an operation: the
  scheduler is round-robin and the disk answers. Nothing obliges a process to
  start or to write.
* `Pipe`: strong fairness, because a process inside the pipe excludes others.
* `ProcTable`: the scheduler's own steps; interrupts; that a process on the CPU
  eventually leaves it or exits; that init keeps calling `wait`. **The third is
  an assumption about programs:** nothing in `trap()` takes the CPU away, so
  `RunnableRuns` does not hold for a program that computes for ever.

## 4. What is proved

TLAPS proves these for every value of the constants that satisfies the named
assumptions. "Run" is the run that checks the same property on an instance.

| theorem | states | run |
|---|---|---|
| `LogProofs!TypeCorrect` | the header never outgrows its array, `outstanding` is never negative | |
| `LogProofs!SleepersAreWoken` | `NoLostWakeup` | `log` |
| `LogProofs!LogNeverPanics` | `NoPanic`, under `SafeOps` | `log` |
| `LogProofs!LogImplementsAtomicDisk` | `Log` implements `AtomicDisk` | `log` |
| `LogProofs!QuietMeansDurable` | `QuiescentDurable` | `log` |
| `FileWriteProofs!ChunkFitsItsBound` | `ChunkBound` | `kernel` |
| `FileWriteProofs!BallocNeverPanics` | while requests fit on the disk, `balloc` finds the blocks the next iteration of `writei` needs | |
| `FileWriteProofs!WritesUseTheLog` | `FileWrite` implements `Log` | |
| `BufferCacheProofs!OneBufferPerBlock` | `OneCopy` | `bcache` |
| `BufferCacheProofs!CountIsUsers` | `RefCounted` | `bcache` |
| `BufferCacheProofs!SleepersAreWoken` | `NoLostWakeup` | `bcache` |
| `BufferCacheProofs!CacheImplementsStore` | `BufferCache` implements `BlockStore` | `bcache` |
| `FileTableProofs!FilesCounted` | `FilesAgree` | `kernel` |
| `ProcessProofs!ProcTypeCorrect` | the types of the process table | |
| `ProcessProofs!ProcessTree` | `PidsUnique` and `ParentAlive` | `proc`, `kernel` |
| `ProcessProofs!NoMissedExit` | `WaiterNotMissed` | `proc`, `kernel` |
| `ProcessProofs!FamilyIsKept` | `FamilyKept`, the two rows above together | `kernel` |
| `ProcessProofs!CpuRunsOne` | `OneRunning` | |
| `ProcessProofs!DeadStaysDead` | `DeadStayDead` | `proc` |
| `ProcessProofs!HeapIsSound` | `HeapSound` | `library` |
| `PipeProofs!PageOutlivesUsers` | `NoUseAfterFree` | `pipe` |
| `PipeProofs!SleepersHaveReason` | `WakeupNotMissed` | `pipe` |
| `PipeProofs!ZeroIsEof` | `ZeroMeansEof` | `pipe` |
| `PipeProofs!RingIsFifo` | `Pipe` implements `Fifo` | `pipe` |
| `PipeProofs!ModifiersNeverStick` | `ModifiersExact` | `library` |
| `PipeProofs!LineIsOnScreen` | `EditShown` | `library` |
| `PipeProofs!HandedOverStays` | `CommittedKept` | `library` |
| `KernelProofs!HandlersStayOut` | `Masking`, on all paths but `iderw` | `kernel` |
| `KernelProofs!RegistersAreRestored` | `RegistersRestored` | `kernel` |
| `KernelProofs!FrameIsTheUsers` | `FrameIsUser` | `kernel` |
| `VmProofs!MemoryAgrees` | `MemoryAgree` | `kernel` |
| `VmProofs!GrowthNeverRemaps` | the panic "remap" of `mappages` is out of reach | |

The run `kernel` checks `FilesAgree`, `FamilyKept`, `RegistersRestored`,
`FrameIsUser` and `MemoryAgree` through instances: `MCKernel` says that each of
them, as its module defines it, holds in the part of the run that is about that
module.

The arguments:

* **Log.** The inductive invariant says that `outstanding` counts the processes
  inside an operation, that a committer is alone, and that loop indices stay
  inside the log. `LogNeverPanics` adds a set of credits, the reserved blocks
  not yet used: log length plus credits never exceeds `LOGSIZE`. It assumes
  `SafeOps`: an operation leaves two of its `MAXOPBLOCKS` unused when
  `NLog = LOGSIZE`. Without it the panic is reachable: the first row of "Other
  disagreements". The refinement needs `DurInv` besides: no block is twice in the
  header; up to the write of the header the header on the disk is empty, from it
  to the clearing it equals the one in memory; how many slots and home blocks
  are written follows from where the committer or recovery is; the pinned
  buffers are the blocks of the header. So what recovery would make of the disk
  changes in one step, the write of the header.
* **File writes.** After `k` iterations of `writei` at most `k` blocks of data are
  logged, and either the chunk is written or the rest of it starts a block and
  is shorter than the room left; so there are at most `Room + 1`, the extra one
  for a start inside a block. Every block in use is a slot of some file, and a
  file has at most `Quota` blocks and an indirect one, so counting slots shows
  that a block is free. `FileConstants` includes `LOGSIZE >= 4`, without which
  the unsigned chunk size of `filewrite` wraps around. By `WritesUseTheLog`
  durability and wakeups, proved of `Log`, hold of files being written.
  `LogNeverPanics` does not carry over: a chunk may exceed `SafeOps`, which is
  what `filewrite_two` shows.
* **Buffer cache.** The invariant says that the pointers of a process are the
  buffers it has locked and the one it is about to lock or has just unlocked;
  every queued request belongs to the one process that is inside `iderw` or asleep
  for it; a valid, clean buffer that is not in `failed` equals its block on the
  disk. For the wakeups it says besides that a process which has linked its request
  finds it in the queue, or was interrupted (`WakeInv`).
* **Open files.** Inside a handler the counts do not agree: `filealloc` has
  counted a reference that no descriptor holds yet, and `sys_close` clears the
  descriptor before `fileclose` counts down. `Sound(s, e)` therefore says that the
  count of a file is the number of its descriptors plus `e`, the references the
  handler has in hand, that an end of a pipe is open for exactly one file, and
  that the other pages are on the free list once. A lemma for each function says
  how it changes `e`; a call starts and ends with none in hand, which is the
  inductive invariant `FInv`. The loops of `fork` and `exit` go by induction over
  the descriptor number.
* **Process table.** The invariant adds that init never exits or dies, that
  nobody is its own parent, and that a process asleep in `wait` sleeps on itself.
  `OneRunning` is what the other conjuncts need to know that a step of a process
  is a step of a RUNNING one.
* **Pipe.** Whoever is inside, also asleep, has its end open; the counters are
  at most one ring apart; a sleeper's reason to sleep holds unless somebody of
  the other kind is inside and has not yet called wakeup; a reader that has
  nothing yet saw a byte or the end of file. `WakeupNotMissed` excepts readers
  once somebody was killed (`BlocksIfEmpty` above).
* **Interrupts.** The nesting count and `ptable.lock` are a function of where
  the running thread is on its path (`Depth`, `InPtable`), and every thread that
  does not run is at a place where it holds `ptable.lock` alone, which the
  scheduler has taken over. A lemma per path shows that each of its operations
  moves these as it should. The theorem assumes `Matched`: no path is `iderw`,
  whose release without an acquire is the finding `intr_iderw`.
* **Stacks.** `SwInv` reads every kernel stack from the bottom: 22 words for each
  entry, the first with the state of the program, those above with what the
  interrupted code of the kernel must find again. A process off the CPU has one
  frame, of a system call, and on it the eight words that `swtch` takes off, written by
  `swtch` or by `allocproc`; the scheduler's own eight words are on its stack
  while a process runs. That the exits pop what the entries push, in the reverse
  order, is proved from the tables of registers. `want` is what the program has
  to find, so after a system call `rcx` and `r11` are what `sysretq` makes of them.
* **Terminal.** The modifiers are exact once the bytes under way are read, and an
  escape never outlives its key. Until the screen is torn everything from the
  cursor on is blank, and the line is on the screen unless a program has written
  into it. The geometry of the screen (rows times columns) is a lemma of its own.
* **User memory.** A page has one use within its process and belongs to one
  process or the free list, the image that an `exec` is building included; an
  unused slot has no page; what is mapped of a live process, and of an image, is
  exactly `Span(low, sz)`, so `allocuvm` finds its range empty. A lemma (`Trade`) covers every step that trades pages of one
  process with the free list: each leaf has to show only what becomes of that
  process. `VmConstants` includes that there is memory for the first process.
* **User heap.** The invariant `MallocInv` is `HeapSound` for the free list, the
  blocks in use and the one that `free` has in hand, and says besides that the
  loop under way is at a block of the list and that before the first `malloc`
  there is nothing. Lemmas about sets of blocks say what joining two, cutting
  one and growing the heap do to the tiling, and what linking and unlinking do to
  the circle; another shows that the place where the loop of `free` stops is the
  right one, also at the end of the list and when both neighbours are joined.
  That the loops end is liveness, and not claimed.

The assumptions are the named `ASSUME`s of the modules, which TLC evaluates in
the runs, and some that the theorems state: `SafeOps` and `Matched`, which the
instances of `log` and `kernel` satisfy, and `VmConstants`, `SwitchConstants` and
`FileConstants` of `FileTable`, which `kernel` evaluates (`PartsConstants`).

Only model-checked:

* liveness (`SleeperWoken`, `CloseReleases`, `OrphanReaped`, `RunnableRuns`), and
  anything with ENABLED, which the prover does not handle;
* `ParseExact` and `GrepExact`: `Parser` and `Grep` are built from recursive
  operators, and what those compute for every input needs an induction over data
  that the provers cannot do;
* `BlocksOwnedOnce`, `CacheCoherent`, `NothingLeaks` and `NoConsistencyPanic` of
  `FileSys`: a process carries the list of calls it has still to make, and an
  inductive invariant has to say of every such list what the calls in it rely
  on. No proof yet.

## 5. Not modelled, and why

* Port I/O, register programming, interrupt controllers, segment and MSR set-up:
  below the level of the models.
* Parsing of multiprocessor tables and ELF headers, fetching of system call
  arguments: input formats without concurrent state.
* Boot: straight-line code, on one CPU with interrupts off; its results are the
  initial states.
* Contents of user memory and of ordinary files: only which page or block belongs
  to whom.
* The order in which `kalloc` hands out pages, except for pipes.
* `init`, the shell's `runcmd`, `cat`, `wc` and the other programs and tests: their
  system calls do not arrive, and `init` has no console to give them (section 1).
  `sh`'s parser and `grep` are modelled as algorithms, `malloc` and `free` with an
  `sbrk` that succeeds or fails.

## 6. Plan

1. Proofs: `BlocksOwnedOnce` of `FileSys`.
2. Composition of `Log` over `BufferCache`: pinned buffers against `NBUF`.
3. The programs over the system calls, once the calls arrive and `open` exists.
