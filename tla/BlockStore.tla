------------------------------ MODULE BlockStore ------------------------------
(***************************************************************************)
(* What crates/fs/src/bio.rs promises its callers: every disk block is one *)
(* variable with one owner at a time, and only the owner changes it.  The  *)
(* exception is a block the disk fails to read or to write: its owner gets *)
(* something else, or what was stored is gone when the block is read next. *)
(***************************************************************************)
CONSTANTS Procs, Blocks, Values, Nobody

VARIABLES content,  \* the contents of every block
          owner,    \* the process that has the block, or Nobody
          lost      \* blocks of which the disk and the owner's copy differ

svars == <<content, owner, lost>>

StoreInit == /\ content \in [Blocks -> Values]
             /\ owner = [k \in Blocks |-> Nobody]
             /\ lost = {}

Acquire(p, k) == /\ owner[k] = Nobody
                 /\ owner' = [owner EXCEPT ![k] = p]
                 /\ UNCHANGED <<content, lost>>

FailedRead(p, k, v) == /\ owner[k] = Nobody
                       /\ owner' = [owner EXCEPT ![k] = p]
                       /\ content' = [content EXCEPT ![k] = v]
                       /\ lost' = lost \cup {k}

FailedWrite(p, k) == /\ owner[k] = p
                     /\ lost' = lost \cup {k}
                     /\ UNCHANGED <<content, owner>>

Store(p, k, v) == /\ owner[k] = p
                  /\ content' = [content EXCEPT ![k] = v]
                  /\ lost' = lost \ {k}
                  /\ UNCHANGED owner

Release(p, k) == /\ owner[k] = p
                 /\ owner' = [owner EXCEPT ![k] = Nobody]
                 /\ UNCHANGED <<content, lost>>

\* The copy is dropped.
Forget(k, v) == /\ k \in lost /\ owner[k] = Nobody
                /\ content' = [content EXCEPT ![k] = v]
                /\ lost' = lost \ {k}
                /\ UNCHANGED owner

StoreNext == \E k \in Blocks :
               \/ \E v \in Values : Forget(k, v)
               \/ \E p \in Procs : \/ Acquire(p, k) \/ Release(p, k) \/ FailedWrite(p, k)
                                   \/ \E v \in Values : Store(p, k, v) \/ FailedRead(p, k, v)

\* A step of the store changes it.
StoreStep == svars' # svars /\ StoreNext

StoreSpec == StoreInit /\ [][StoreStep]_svars
=============================================================================
