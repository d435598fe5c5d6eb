----------------------------- MODULE AtomicDisk -----------------------------
(***************************************************************************)
(* What the logging layer promises to the file system: a disk on which a   *)
(* group of file-system operations becomes durable all at once, and only   *)
(* when none of them is half done.  A crash loses exactly the operations   *)
(* that have not been committed.  Log.tla refines this specification.      *)
(***************************************************************************)
CONSTANTS Procs,      \* the processes that execute file-system operations
          Blocks,     \* the home blocks of the disk
          Data        \* the contents of a block

VARIABLES durable,    \* the contents that survive a crash
          view,       \* the contents the running operations see
          active      \* the processes between begin_op and end_op

avars == <<durable, view, active>>

AInit == /\ durable \in [Blocks -> Data]
         /\ view = durable
         /\ active = {}

Begin(p) == /\ p \notin active
            /\ active' = active \cup {p}
            /\ UNCHANGED <<durable, view>>

Write(p, b, d) == /\ p \in active
                  /\ view' = [view EXCEPT ![b] = d]
                  /\ UNCHANGED <<durable, active>>

End(p) == /\ p \in active
          /\ active' = active \ {p}
          /\ UNCHANGED <<durable, view>>

\* Everything written so far becomes durable, in one step.
Commit == /\ active = {}
          /\ durable' = view
          /\ UNCHANGED <<view, active>>

Crash == /\ view' = durable
         /\ active' = {}
         /\ UNCHANGED durable

ANext == \/ \E p \in Procs : Begin(p) \/ End(p)
         \/ \E p \in Procs, b \in Blocks, d \in Data : Write(p, b, d)
         \/ Commit
         \/ Crash

ASpec == AInit /\ [][ANext]_avars
=============================================================================
