-------------------------------- MODULE Log --------------------------------
(***************************************************************************)
(* The write-ahead log of crates/fs/src/log.rs: group commit of concurrent *)
(* file-system operations, and recovery after a crash.                     *)
(*                                                                         *)
(* The disk is the home blocks, the log slots and the log header; every    *)
(* bio::write is one step, so a crash may fall between any two of them.    *)
(* The buffer cache is reduced to what the log relies on: a block whose    *)
(* buffer is B_DIRTY stays in the cache, a clean one may be evicted at any *)
(* moment and is read again from the disk (see Current).                   *)
(***************************************************************************)
EXTENDS Naturals, Sequences, FiniteSets

CONSTANTS Procs,        \* processes that execute file-system operations
          Blocks,       \* home block numbers
          Data,         \* block contents
          LOGSIZE,      \* param: capacity of the header's block array
          MAXOPBLOCKS,  \* param: blocks begin_op reserves for an operation
          NLog,         \* superblock nlog: the header block and the log slots
          OpBlocks,     \* distinct blocks one operation really modifies
          MaxCrashes    \* bound on the number of crashes

ASSUME LogConstants == /\ LOGSIZE \in Nat \ {0}
                       /\ MAXOPBLOCKS \in Nat \ {0} /\ MAXOPBLOCKS <= LOGSIZE
                       /\ NLog \in Nat \ {0}
                       /\ OpBlocks \in Nat
                       /\ MaxCrashes \in Nat
                       /\ IsFiniteSet(Procs)
                       /\ IsFiniteSet(Blocks)

VARIABLES
  disk,         \* home blocks on the disk
  slots,        \* log slots on the disk (blocks start+1, start+2, ...)
  head,         \* log header on the disk: the first n entries of block[]
  cache,        \* contents of the B_DIRTY buffers
  dirty,        \* blocks whose buffer is B_DIRTY
  lh,           \* log.lh: the first n entries of block[]
  outstanding,  \* log.outstanding
  committing,   \* log.committing
  pc,           \* where each process is
  wrote,        \* blocks the current operation of a process has modified
  tail,         \* loop index of write_log and install_trans
  phase,        \* where the boot-time recovery is, "run" once it is over
  panicked,     \* a panic!() stopped the kernel
  crashes       \* number of crashes so far

durables == <<disk, slots, head>>
memory   == <<cache, dirty, lh, outstanding, committing>>
control  == <<pc, wrote, tail, phase, panicked, crashes>>
vars     == <<disk, slots, head, cache, dirty, lh, outstanding, committing,
              pc, wrote, tail, phase, panicked, crashes>>

\* begin_op's loop, asleep in it, inside an operation, and the steps of commit().
CommitSteps == {"write_log", "write_head", "install", "clear", "done"}
Pcs    == {"idle", "begin", "asleep", "op"} \cup CommitSteps
Phases == {"run", "read_head", "install", "clear"}

TypeOK == /\ disk \in [Blocks -> Data]
          /\ slots \in [1..LOGSIZE -> Data]
          /\ head \in Seq(Blocks) /\ Len(head) <= LOGSIZE
          /\ cache \in [Blocks -> Data]
          /\ dirty \in SUBSET Blocks
          /\ lh \in Seq(Blocks) /\ Len(lh) <= LOGSIZE
          /\ outstanding \in Nat
          /\ committing \in BOOLEAN
          /\ pc \in [Procs -> Pcs]
          /\ wrote \in [Procs -> SUBSET Blocks]
          /\ tail \in 0..LOGSIZE
          /\ phase \in Phases
          /\ panicked \in BOOLEAN
          /\ crashes \in 0..MaxCrashes

-----------------------------------------------------------------------------
\* What bio::read returns for block b: the pinned buffer, else the disk.
Current(b) == IF b \in dirty THEN cache[b] ELSE disk[b]

Logged(b, h) == \E i \in 1..Len(h) : h[i] = b

\* log_write finds no room left in the log.
TooBig == Len(lh) >= LOGSIZE \/ Len(lh) + 1 >= NLog

\* Variant: begin_op forgets to wait for a commit under way.
NoRoomIgnoresCommit == Len(lh) + (outstanding + 1) * MAXOPBLOCKS > LOGSIZE

NoRoom == committing \/ Len(lh) + (outstanding + 1) * MAXOPBLOCKS > LOGSIZE

Running == phase = "run" /\ ~panicked

Goto(p, l) == pc' = [pc EXCEPT ![p] = l]

\* Variant: the wakeup is missing.
WakeupMissing(f) == f

\* wakeup(&log): every sleeper goes back to the loop of begin_op.
Wakeup(f) == [p \in Procs |-> IF f[p] = "asleep" THEN "begin" ELSE f[p]]

Panic == panicked' = TRUE /\ UNCHANGED <<durables, memory, pc, wrote, tail, phase, crashes>>

-----------------------------------------------------------------------------
\* begin_op: the system call enters, sleeps while there is no room, or is admitted.
BeginOp(p) ==
  /\ Running /\ pc[p] \in {"idle", "begin"}
  /\ \/ /\ NoRoom
        /\ Goto(p, "asleep")
        /\ UNCHANGED <<outstanding, wrote>>
     \/ /\ ~NoRoom
        /\ outstanding' = outstanding + 1
        /\ wrote' = [wrote EXCEPT ![p] = {}]
        /\ Goto(p, "op")
  /\ UNCHANGED <<durables, cache, dirty, lh, committing, tail, phase, panicked, crashes>>

\* The operation modifies a block it holds locked and calls log_write.
LogWrite(p, b, d) ==
  /\ Running /\ pc[p] = "op"
  /\ b \in wrote[p] \/ Cardinality(wrote[p]) < OpBlocks
  /\ IF TooBig \/ outstanding < 1
       THEN Panic
       ELSE /\ lh' = IF Logged(b, lh) THEN lh ELSE Append(lh, b)
            /\ cache' = [cache EXCEPT ![b] = d]
            /\ dirty' = dirty \cup {b}
            /\ wrote' = [wrote EXCEPT ![p] = @ \cup {b}]
            /\ UNCHANGED <<durables, outstanding, committing, pc, tail, phase, panicked, crashes>>

\* end_op, up to the decision to commit; the last operation out commits.
EndOp(p) ==
  /\ Running /\ pc[p] = "op"
  /\ IF committing
       THEN Panic
       ELSE /\ outstanding' = outstanding - 1
            /\ committing' = (outstanding = 1)
            /\ pc' = IF outstanding # 1 THEN Wakeup([pc EXCEPT ![p] = "idle"])
                     ELSE [pc EXCEPT ![p] = IF lh = <<>> THEN "done" ELSE "write_log"]
            /\ tail' = 0
            /\ UNCHANGED <<durables, cache, dirty, lh, wrote, phase, panicked, crashes>>

\* Variant: write_log is followed by install_trans, and no header is written.
WriteLogThenInstall(p) ==
  /\ Running /\ pc[p] = "write_log"
  /\ slots' = [slots EXCEPT ![tail + 1] = Current(lh[tail + 1])]
  /\ IF tail + 1 < Len(lh) THEN tail' = tail + 1 /\ UNCHANGED pc
                           ELSE tail' = 0 /\ Goto(p, "install")
  /\ UNCHANGED <<disk, head, memory, wrote, phase, panicked, crashes>>

\* One iteration of write_log: the cached block goes to its log slot.
WriteLog(p) ==
  /\ Running /\ pc[p] = "write_log"
  /\ slots' = [slots EXCEPT ![tail + 1] = Current(lh[tail + 1])]
  /\ IF tail + 1 < Len(lh) THEN tail' = tail + 1 /\ UNCHANGED pc
                           ELSE tail' = 0 /\ Goto(p, "write_head")
  /\ UNCHANGED <<disk, head, memory, wrote, phase, panicked, crashes>>

\* Variant: commit() forgets install_trans.
WriteHeadThenClear(p) ==
  /\ Running /\ pc[p] = "write_head"
  /\ head' = lh
  /\ Goto(p, "clear")
  /\ UNCHANGED <<disk, slots, memory, wrote, tail, phase, panicked, crashes>>

\* write_head with lh.n > 0: the commit point.
WriteHead(p) ==
  /\ Running /\ pc[p] = "write_head"
  /\ head' = lh
  /\ Goto(p, "install")
  /\ UNCHANGED <<disk, slots, memory, wrote, tail, phase, panicked, crashes>>

\* One iteration of install_trans: the log slot goes to its home block; the
\* write that completes also clears B_DIRTY.
Install ==
  /\ disk' = [disk EXCEPT ![lh[tail + 1]] = slots[tail + 1]]
  /\ dirty' = dirty \ {lh[tail + 1]}
  /\ UNCHANGED <<slots, head, cache, lh, outstanding, committing>>

InstallTrans(p) ==
  /\ Running /\ pc[p] = "install"
  /\ Install
  /\ IF tail + 1 < Len(lh) THEN tail' = tail + 1 /\ UNCHANGED pc
                           ELSE tail' = 0 /\ Goto(p, "clear")
  /\ UNCHANGED <<wrote, phase, panicked, crashes>>

\* lh.n = 0 and the write_head that erases the transaction.
ClearLog(p) ==
  /\ Running /\ pc[p] = "clear"
  /\ lh' = <<>>
  /\ head' = <<>>
  /\ Goto(p, "done")
  /\ UNCHANGED <<disk, slots, cache, dirty, outstanding, committing, wrote, tail, phase,
                 panicked, crashes>>

\* The end of end_op after commit(): new operations may begin.
EndCommit(p) ==
  /\ Running /\ pc[p] = "done"
  /\ committing' = FALSE
  /\ pc' = Wakeup([pc EXCEPT ![p] = "idle"])
  /\ UNCHANGED <<durables, cache, dirty, lh, outstanding, wrote, tail, phase, panicked, crashes>>

-----------------------------------------------------------------------------
\* Power fails, or a kernel that panicked is reset: memory is lost, and the
\* machine boots into initlog.
Crash ==
  /\ crashes < MaxCrashes
  /\ crashes' = crashes + 1
  /\ dirty' = {} /\ lh' = <<>> /\ outstanding' = 0 /\ committing' = FALSE
  /\ pc' = [p \in Procs |-> "idle"]
  /\ wrote' = [p \in Procs |-> {}]
  /\ tail' = 0
  /\ phase' = "read_head"
  /\ panicked' = FALSE
  /\ UNCHANGED <<durables, cache>>

\* recover_from_log: read_head, then install_trans, then the empty header.
ReadHead ==
  /\ phase = "read_head"
  /\ lh' = head
  /\ tail' = 0
  /\ phase' = IF head = <<>> THEN "clear" ELSE "install"
  /\ UNCHANGED <<durables, cache, dirty, outstanding, committing, pc, wrote, panicked, crashes>>

RecoverInstall ==
  /\ phase = "install"
  /\ Install
  /\ IF tail + 1 < Len(lh) THEN tail' = tail + 1 /\ UNCHANGED phase
                           ELSE tail' = 0 /\ phase' = "clear"
  /\ UNCHANGED <<pc, wrote, panicked, crashes>>

RecoverClear ==
  /\ phase = "clear"
  /\ lh' = <<>>
  /\ head' = <<>>
  /\ phase' = "run"
  /\ UNCHANGED <<disk, slots, cache, dirty, outstanding, committing, pc, wrote, tail,
                 panicked, crashes>>

-----------------------------------------------------------------------------
\* The machine boots on an image made by mkfs: no transaction in the log.
Init == /\ \E d \in Data : /\ disk = [b \in Blocks |-> d]
                           /\ slots = [i \in 1..LOGSIZE |-> d]
                           /\ cache = [b \in Blocks |-> d]
        /\ head = <<>>
        /\ dirty = {} /\ lh = <<>> /\ outstanding = 0 /\ committing = FALSE
        /\ pc = [p \in Procs |-> "idle"]
        /\ wrote = [p \in Procs |-> {}]
        /\ tail = 0
        /\ phase = "read_head"
        /\ panicked = FALSE
        /\ crashes = 0

ProcStep(p) == \/ BeginOp(p) \/ EndOp(p)
               \/ WriteLog(p) \/ WriteHead(p) \/ InstallTrans(p)
               \/ ClearLog(p) \/ EndCommit(p)

Recovery == ReadHead \/ RecoverInstall \/ RecoverClear

Next == \/ \E p \in Procs : ProcStep(p)
        \/ \E p \in Procs, b \in Blocks, d \in Data : LogWrite(p, b, d)
        \/ Crash
        \/ Recovery

Spec == Init /\ [][Next]_vars

\* The scheduler runs every runnable process again and again, an operation
\* ends, and the disk completes every request.
Fairness == /\ \A p \in Procs : WF_vars(EndOp(p)) /\ WF_vars(WriteLog(p))
                                /\ WF_vars(WriteHead(p)) /\ WF_vars(InstallTrans(p))
                                /\ WF_vars(ClearLog(p)) /\ WF_vars(EndCommit(p))
            /\ WF_vars(Recovery)

FairSpec == Spec /\ Fairness

-----------------------------------------------------------------------------
\* What recovery will make of the present disk: the committed transaction, if
\* the header names one, laid over the home blocks.
Recovered == [b \in Blocks |->
                IF Logged(b, head)
                  THEN slots[CHOOSE i \in 1..Len(head) : head[i] = b]
                  ELSE disk[b]]

View == [b \in Blocks |-> IF phase = "run" THEN Current(b) ELSE Recovered[b]]

Active == {p \in Procs : pc[p] = "op"}

\* The operations for which the reservation of begin_op is enough: log_write
\* refuses a full log even when the block is already in it, and the header
\* takes one block of the log, so an operation must leave two of its
\* MAXOPBLOCKS unused when the image has NLog = LOGSIZE.
SafeOps == /\ OpBlocks < MAXOPBLOCKS
           /\ LOGSIZE + OpBlocks + 1 < NLog + MAXOPBLOCKS

\* The log never fills up under the admission control of begin_op: the panics
\* of log_write ("too big a transaction", "outside of trans") and of end_op
\* ("log.committing") are unreachable.
NoPanic == ~panicked

\* end_op is what makes data durable: when no operation is running and no
\* commit is under way, a crash would lose nothing.
QuiescentDurable ==
  (Running /\ outstanding = 0 /\ ~committing) => (Recovered = View /\ head = <<>>)

\* begin_op never sleeps with nobody left to wake it: a sleeper implies an
\* operation or a commit that will call wakeup(&log).
NoLostWakeup ==
  (Running /\ \E p \in Procs : pc[p] = "asleep") => (outstanding > 0 \/ committing)

\* The log implements the atomic disk: groups of complete operations become
\* durable at the write of the header, whatever the crashes, also those during
\* recovery.
Abstract == INSTANCE AtomicDisk WITH durable <- Recovered, view <- View, active <- Active
ImplementsAtomicDisk == Abstract!ASpec

\* A process asleep in begin_op is woken.
SleeperWoken == \A p \in Procs : pc[p] = "asleep" ~> pc[p] # "asleep"

=============================================================================
