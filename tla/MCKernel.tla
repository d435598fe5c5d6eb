------------------------------ MODULE MCKernel ------------------------------
(***************************************************************************)
(* The parts of the kernel that keep books - on the log space of a write,  *)
(* on interrupt masking, on the words of the stacks, on open files, on     *)
(* pages, on processes - each by itself, in one run: a behaviour exercises *)
(* one part, and the others stay in their initial states.                  *)
(***************************************************************************)
EXTENDS MCFileWrite, Interrupts, TLC

VARIABLES part,
          regs, stack, cur, at, swAlive, entry, want, started,
          t, alive, filePanicked,
          free, kstack, map, sz, low, img, imgsz, args, vmState, vmPanicked,
          pstate, pid, parent, killed, chan, place, nextpid, running, scan, skipped, halted

CONSTANTS SwProcs, Vectors, MaxNest,
          FileProcs, FileInit, NFILE, NOFILE, PipePages,
          VmSlots, NPages, PGSIZE, FANOUT, Grows, Shrinks, Images, UINT,
          NPROC, MaxPid, KillPids

Asm  == INSTANCE Switch WITH Procs <- SwProcs, alive <- swAlive
File == INSTANCE FileTable WITH Procs <- FileProcs, INITPROC <- FileInit, Pages <- PipePages, panicked <- filePanicked
Mem  == INSTANCE Vm WITH Slots <- VmSlots, INITPROC <- 1, state <- vmState, panicked <- vmPanicked
Proc == INSTANCE ProcTable WITH state <- pstate, at <- place, cur <- running

asmVars  == <<regs, stack, cur, at, swAlive, entry, want, started>>
fileVars == <<t, alive, filePanicked>>
memVars  == <<free, kstack, map, sz, low, img, imgsz, args, vmState, vmPanicked>>
procVars == <<pstate, pid, parent, killed, chan, place, nextpid, running, scan, skipped, halted>>

ASSUME PartsConstants == CallsKnown /\ Asm!SwitchConstants /\ File!FileConstants /\ Mem!VmConstants

MCInit ==
  /\ part \in {"filewrite", "interrupts", "switch", "files", "vm", "proc"}
  /\ FInit /\ IntrInit /\ Asm!Init /\ File!Init /\ Mem!Init /\ Proc!Init
  /\ part # "interrupts" => ncli = 0

\* Every request the bound allows has been written.
Written == (\A p \in Procs, n \in Requests : ~Fits(n)) /\ \A p \in Procs : pc[p] = "idle" /\ left[p] = 0

MCNext ==
  \/ /\ part = "filewrite" /\ (FNext \/ (Written /\ UNCHANGED allvars))
     /\ UNCHANGED <<part, intrVars, asmVars, fileVars, memVars, procVars>>
  \/ /\ part = "interrupts" /\ IntrNext
     /\ UNCHANGED <<part, allvars, asmVars, fileVars, memVars, procVars>>
  \/ /\ part = "switch" /\ Asm!Next
     /\ UNCHANGED <<part, allvars, intrVars, fileVars, memVars, procVars>>
  \/ /\ part = "files" /\ File!Next
     /\ UNCHANGED <<part, allvars, intrVars, asmVars, memVars, procVars>>
  \/ /\ part = "vm" /\ Mem!Next
     /\ UNCHANGED <<part, allvars, intrVars, asmVars, fileVars, procVars>>
  \/ /\ part = "proc" /\ Proc!Next
     /\ UNCHANGED <<part, allvars, intrVars, asmVars, fileVars, memVars>>

MCSpec == MCInit /\ [][MCNext]_<<part, allvars, intrVars, asmVars, fileVars, memVars, procVars>>

\* Pages are interchangeable: as long as every page has one owner, a state is
\* known up to a renaming of pages by what each process has mapped.
PageView == <<[p \in VmSlots |-> <<kstack[p] # 0, DOMAIN map[p], DOMAIN img[p]>>],
              Cardinality(free), sz, low, imgsz, args, vmState, vmPanicked, Mem!PagesConserved>>

KernelView == <<part, allvars, intrVars, asmVars, fileVars, procVars, IF part = "vm" THEN PageView ELSE <<>> >>

-----------------------------------------------------------------------------
\* Switch: a program finds its registers after any way through the kernel,
\* and code of the kernel after any switch.
RegistersRestored == part = "switch" => Asm!RegistersRestored

\* Switch: the trapframe is the program's state.
FrameIsUser == part = "switch" => Asm!FrameIsUser

\* FileTable: references, ends of pipes and pages are counted rightly.
FilesAgree == part = "files" => File!FilesAgree

\* ProcTable with four slots: pids are unique, no process is orphaned, and
\* nobody sleeps in wait() with a dead child, also one that was inherited.
FamilyKept == part = "proc" => Proc!FamilyKept

\* Vm: every page has one owner, also while exec builds, and what is mapped is
\* what lies between low and sz.
MemoryAgree == part = "vm" => Mem!MemoryAgree
=============================================================================
