------------------------------ MODULE FileWrite ------------------------------
(***************************************************************************)
(* filewrite() of crates/fs/src/file.rs on an inode, with writei, bmap,    *)
(* balloc and iupdate of crates/fs/src/fs.rs, over the log of Log.tla.     *)
(*                                                                         *)
(* Every process appends to a file of its own.  A block of data carries no *)
(* contents here: what matters is which blocks one chunk of a write puts   *)
(* into the log, and which blocks of the disk a file comes to own.         *)
(***************************************************************************)
EXTENDS Log

CONSTANTS BSIZE,      \* bytes in a block
          NDIRECT,    \* block addresses in the inode itself
          Bitmap,     \* the block that holds the free map
          InodeBlock, \* the block that holds the inodes
          DataBlocks, \* the blocks that balloc hands out
          Requests    \* lengths a process may ask write() to write

\* Block 0 of the disk is the boot block, and the chunk of filewrite is an
\* unsigned number.
ASSUME FileConstants == /\ BSIZE \in Nat \ {0} /\ NDIRECT \in Nat
                        /\ Requests \subseteq Nat
                        /\ {Bitmap, InodeBlock} \cup DataBlocks \subseteq Blocks
                        /\ DataBlocks \subseteq Nat \ {0}
                        /\ LOGSIZE >= 4

VARIABLES used,   \* blocks whose bit is set in the free map
          addrs,  \* addrs[p][bn]: block bn of the file of p, 0 if none
          ind,    \* ind[p]: the indirect block of the file of p, 0 if none
          off,    \* f.off, which is also the size of the file
          left,   \* bytes of the system call not yet written
          chunk,  \* bytes of the current writei not yet written
          todo    \* the log_writes before the next block of data

fvars   == <<used, addrs, ind, off, left, chunk, todo>>
allvars == <<vars, fvars>>

\* The chunk filewrite gives to one transaction.
MaxChunk == ((LOGSIZE - 1 - 1 - 2) \div 2) * BSIZE

Bns == 0..(NDIRECT + Cardinality(DataBlocks))

Smaller(m, n) == IF m < n THEN m ELSE n

Lowest(S) == CHOOSE b \in S : \A c \in S : b <= c
Free == DataBlocks \ used

\* Variant: bmap allocates the indirect block again for every block.
BmapFresh(p, bn) ==
  LET i == Lowest(Free)
      b == Lowest(Free \ {i})
  IN [block |-> b, indirect |-> i, new |-> {i, b}, logs |-> <<Bitmap, i, Bitmap, b, i>>]

\* bmap: the block that holds block bn of the file, the blocks it had to
\* allocate, and the log_writes that allocation made (balloc marks the free
\* map and zeroes the block; a new indirect entry is logged too).
Bmap(p, bn) ==
  LET direct == bn < NDIRECT
      i      == IF direct THEN 0 ELSE IF ind[p] = 0 THEN Lowest(Free) ELSE ind[p]
      newi   == IF ~direct /\ ind[p] = 0 THEN {i} ELSE {}
      b      == IF addrs[p][bn] = 0 THEN Lowest(Free \ newi) ELSE addrs[p][bn]
      newb   == IF addrs[p][bn] = 0 THEN {b} ELSE {}
  IN [block |-> b, indirect |-> i, new |-> newi \cup newb,
      logs  |-> (IF newi # {} THEN <<Bitmap, i>> ELSE <<>>)
                \o (IF newb # {} THEN <<Bitmap, b>> ELSE <<>>)
                \o (IF newb # {} /\ ~direct THEN <<i>> ELSE <<>>)]

\* The blocks that bmap asks balloc for.
Need(p, bn) == (IF bn >= NDIRECT /\ ind[p] = 0 THEN 1 ELSE 0) + (IF addrs[p][bn] = 0 THEN 1 ELSE 0)

-----------------------------------------------------------------------------
\* write(fd, buf, n): the call starts.
Filewrite(p, n) ==
  /\ Running /\ pc[p] = "idle" /\ left[p] = 0 /\ todo[p] = <<>>
  /\ left' = [left EXCEPT ![p] = n]
  /\ UNCHANGED <<vars, used, addrs, ind, off, chunk, todo>>

\* The head of filewrite's loop: begin_op, then ilock and the call of writei.
Chunk(p) ==
  /\ left[p] > 0
  /\ BeginOp(p)
  /\ chunk' = IF pc'[p] = "op" THEN [chunk EXCEPT ![p] = Smaller(left[p], MaxChunk)] ELSE chunk
  /\ UNCHANGED <<used, addrs, ind, off, left, todo>>

\* One iteration of writei's loop: the block the next bytes go to is found or
\* allocated; its log_writes are left in todo, and iupdate's after the last one.
\* balloc panics when no block is free.
WriteBlock(p) ==
  /\ Running /\ pc[p] = "op" /\ todo[p] = <<>> /\ chunk[p] > 0
  /\ LET bn == off[p] \div BSIZE
         m  == Smaller(chunk[p], BSIZE - (off[p] % BSIZE))
         r  == Bmap(p, bn)
     IN IF Need(p, bn) > Cardinality(Free)
          THEN Panic /\ UNCHANGED fvars
          ELSE /\ todo' = [todo EXCEPT ![p] = r.logs \o <<r.block>>
                                              \o (IF chunk[p] = m THEN <<InodeBlock>> ELSE <<>>)]
               /\ used' = used \cup r.new
               /\ addrs' = [addrs EXCEPT ![p][bn] = r.block]
               /\ ind' = IF r.indirect = 0 THEN ind ELSE [ind EXCEPT ![p] = r.indirect]
               /\ off' = [off EXCEPT ![p] = @ + m]
               /\ chunk' = [chunk EXCEPT ![p] = @ - m]
               /\ left' = [left EXCEPT ![p] = @ - m]
               /\ UNCHANGED vars

\* The next of those log_writes.
LogBlock(p) ==
  /\ pc[p] = "op" /\ todo[p] # <<>>
  /\ \E d \in Data : LogWrite(p, Head(todo[p]), d)
  /\ todo' = [todo EXCEPT ![p] = Tail(@)]
  /\ UNCHANGED <<used, addrs, ind, off, left, chunk>>

\* The chunk is written: iunlock and end_op.
EndChunk(p) ==
  /\ chunk[p] = 0 /\ todo[p] = <<>>
  /\ EndOp(p)
  /\ UNCHANGED fvars

CommitStep(p) ==
  /\ WriteLog(p) \/ WriteHead(p) \/ InstallTrans(p) \/ ClearLog(p) \/ EndCommit(p)
  /\ UNCHANGED fvars

FInit == /\ Init
         /\ used = {}
         /\ addrs = [p \in Procs |-> [bn \in Bns |-> 0]]
         /\ ind = [p \in Procs |-> 0]
         /\ off = [p \in Procs |-> 0]
         /\ left = [p \in Procs |-> 0]
         /\ chunk = [p \in Procs |-> 0]
         /\ todo = [p \in Procs |-> <<>>]

\* A file never outgrows the data blocks of the instance.
Fits(n) == \A p \in Procs : off[p] + n <= (Cardinality(DataBlocks) \div Cardinality(Procs)) * BSIZE - 2 * BSIZE

FNext == \/ \E p \in Procs : \/ \E n \in Requests : Fits(n) /\ Filewrite(p, n)
                             \/ Chunk(p) \/ WriteBlock(p) \/ LogBlock(p)
                             \/ EndChunk(p) \/ CommitStep(p)
         \/ Recovery /\ UNCHANGED fvars

FSpec == FInit /\ [][FNext]_allvars

-----------------------------------------------------------------------------
\* filewrite cuts a write into chunks so that it does not exceed the log: a
\* write never runs into the panic of log_write.
WriteNeverPanics == ~panicked

\* One chunk modifies its blocks of data (one more when it starts inside a
\* block), the free map, the indirect block and the inode, and no other block.
ChunkBound ==
  \A p \in Procs : pc[p] = "op" => Cardinality(wrote[p]) <= MaxChunk \div BSIZE + 1 + 3
=============================================================================
