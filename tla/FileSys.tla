------------------------------- MODULE FileSys -------------------------------
(***************************************************************************)
(* crates/fs/src/fs.rs: the block allocator, the inode cache, directories  *)
(* and path names, on the disk that Mkfs.tla builds.                       *)
(*                                                                         *)
(* A process runs a list of calls, todo[p]; a call that makes others puts  *)
(* them in its place.  A step is what a process does between two points    *)
(* at which it can give up the processor: bio::read and acquiresleep.  The *)
(* blocks are seen through the buffer cache and the log, as the running    *)
(* operations see them (BufferCache.tla and Log.tla say that they may).    *)
(*                                                                         *)
(* The kernel's own callers are exec, the file layer and exit, which look  *)
(* up, read, write and drop inodes.  ialloc, dirlink and nameiparent are   *)
(* exported for a create and an unlink that the kernel does not have yet:  *)
(* those two are external, and follow the calls the interface asks for.    *)
(***************************************************************************)
EXTENDS Mkfs, Integers, FiniteSets

CONSTANTS Procs,    \* processes; all have the root as working directory
          NINODE,   \* slots of the inode cache
          Images,   \* lists of files given to mkfs
          Paths,    \* paths looked up
          Names,    \* names created and removed in the root directory
          Appends,  \* units one write may append
          MaxCalls  \* system calls made in a behaviour

VARIABLES used,     \* blocks whose bit is set in the free map
          dinode,   \* the inodes on disk
          block,    \* the data blocks on disk
          icache,   \* the inode cache
          todo,     \* the calls a process has still to make
          res,      \* the inode a lookup returned, 0 for the null pointer
          panic,    \* the message of the panic that stopped the kernel
          calls     \* system calls started so far

vars == <<used, dinode, block, icache, todo, res, panic, calls>>
disk == <<used, dinode, block>>

Slots     == 1..NINODE
Lowest(S) == CHOOSE x \in S : \A y \in S : x <= y
FreeSlot  == [inum |-> 0, ref |-> 0, valid |-> FALSE, lock |-> 0, din |-> FreeDinode]

Init == /\ \E files \in Images :
             LET img == Image(files)
             IN used = Bitmap(img) /\ dinode = img.dinode /\ block = img.block
        /\ icache = [s \in Slots |-> IF s = 1
                       THEN [FreeSlot EXCEPT !.inum = ROOTINO, !.ref = Cardinality(Procs)]
                       ELSE FreeSlot]
        /\ todo = [p \in Procs |-> <<>>]
        /\ res = [p \in Procs |-> 0]
        /\ panic = "none"
        /\ calls = 0

-----------------------------------------------------------------------------
\* p is at the call named op, and makes it unless the kernel has stopped.
At(p, op)    == todo[p] # <<>> /\ Head(todo[p])[1] = op
Calls(p, op) == panic = "none" /\ At(p, op)
Arg(p, i)    == Head(todo[p])[i]
Goto(p, next) == todo' = [todo EXCEPT ![p] = next \o Tail(@)]
Result(p, s) == res' = [res EXCEPT ![p] = s]
Panics(msg)  == panic' = msg /\ UNCHANGED <<disk, icache, todo, res, calls>>
Fine         == UNCHANGED <<panic, calls>>

Din(s) == icache[s].din

\* Variant: the reference is kept.
UnlockputKeeps(s) == << <<"iunlock", s>> >>

\* iunlockput.
Unlockput(s) == << <<"iunlock", s>>, <<"iput", s>> >>

\* Variant: a slot is taken over with what it knew of its former inode.
IgotStale(s, inum) ==
  [icache EXCEPT ![s].ref = IF @ > 0 THEN @ + 1 ELSE 1, ![s].inum = inum]

\* iget: the slot of an inode that is referenced, else the first free one.
IgetSlot(inum) ==
  LET hit  == {s \in Slots : icache[s].ref > 0 /\ icache[s].inum = inum}
      free == {s \in Slots : icache[s].ref = 0}
  IN IF hit # {} THEN Lowest(hit) ELSE IF free # {} THEN Lowest(free) ELSE 0
Igot(s, inum) ==
  IF icache[s].ref > 0 THEN [icache EXCEPT ![s].ref = @ + 1]
  ELSE [icache EXCEPT ![s].inum = inum, ![s].ref = 1, ![s].valid = FALSE]

\* namecmp: the characters of the name that is looked up, and no more.
Namecmp(s, t) == \A i \in 1..Len(s) : i <= Len(t) /\ s[i] = t[i]

\* readi of one directory entry, and dirlookup's scan: the offset of the first
\* entry that matches, or the size of the directory.
EntryAt(din, off) == block[BlockOf(din, block, off \div BSIZE)].ent[off % BSIZE]
Dirlookup(din, name) ==
  LET match == {off \in 0..(din.size - 1) :
                  EntryAt(din, off).inum # 0 /\ Namecmp(name, EntryAt(din, off).name)}
  IN IF match = {} THEN din.size ELSE Lowest(match)

-----------------------------------------------------------------------------
\* ilock: take the sleep lock; an inode that is not valid is then read.
Ilock(p) ==
  /\ Calls(p, "ilock")
  /\ LET s == Arg(p, 2)
     IN \/ icache[s].ref < 1 /\ Panics("ilock")
        \/ /\ icache[s].ref >= 1 /\ icache[s].lock = 0
           /\ icache' = [icache EXCEPT ![s].lock = p]
           /\ Goto(p, IF icache[s].valid THEN <<>> ELSE << <<"load", s>> >>)
           /\ Fine /\ UNCHANGED <<disk, res>>

Load(p) ==
  /\ Calls(p, "load")
  /\ LET s == Arg(p, 2)
         d == dinode[icache[s].inum]
     IN \/ d.itype = "free" /\ Panics("ilock: no type")
        \/ /\ d.itype # "free"
           /\ icache' = [icache EXCEPT ![s].din = d, ![s].valid = TRUE]
           /\ Goto(p, <<>>) /\ Fine /\ UNCHANGED <<disk, res>>

Iunlock(p) ==
  /\ Calls(p, "iunlock")
  /\ LET s == Arg(p, 2)
     IN \/ (icache[s].lock # p \/ icache[s].ref < 1) /\ Panics("iunlock")
        \/ /\ icache[s].lock = p /\ icache[s].ref >= 1
           /\ icache' = [icache EXCEPT ![s].lock = 0]
           /\ Goto(p, <<>>) /\ Fine /\ UNCHANGED <<disk, res>>

\* Variant: iput frees a file without links while others still use it.
LastRefEager(s) == icache[s].valid /\ Din(s).nlink = 0

\* The last reference to an inode that no directory names.
LastRef(s) == icache[s].ref = 1 /\ icache[s].valid /\ Din(s).nlink = 0

\* iput: the check, under the lock of the cache; the sleep lock is not taken.
Iput(p) ==
  /\ Calls(p, "iput")
  /\ LET s == Arg(p, 2)
     IN \/ /\ LastRef(s)
           /\ Goto(p, << <<"itrunc", s>>, <<"ifree", s>> >>)
           /\ UNCHANGED icache
        \/ /\ ~LastRef(s)
           /\ icache' = [icache EXCEPT ![s].ref = @ - 1]
           /\ Goto(p, <<>>)
  /\ Fine /\ UNCHANGED <<disk, res>>

\* The end of iput: the type is cleared on disk and the reference dropped.
Ifree(p) ==
  /\ Calls(p, "ifree")
  /\ LET s == Arg(p, 2)
         d == [Din(s) EXCEPT !.itype = "free"]
     IN /\ dinode' = [dinode EXCEPT ![icache[s].inum] = d]
        /\ icache' = [icache EXCEPT ![s].din = d, ![s].valid = FALSE, ![s].ref = @ - 1]
  /\ Goto(p, <<>>) /\ Fine /\ UNCHANGED <<used, block, res>>

Iupdate(p) ==
  /\ Calls(p, "iupdate")
  /\ dinode' = [dinode EXCEPT ![icache[Arg(p, 2)].inum] = Din(Arg(p, 2))]
  /\ Goto(p, <<>>) /\ Fine /\ UNCHANGED <<used, block, icache, res>>

\* Variant: the address of the freed block stays in the inode.
BfreeKeeps(p, b, ic, next) ==
  /\ used' = used \ {b}
  /\ Goto(p, next) /\ Fine /\ UNCHANGED <<icache, dinode, block, res>>

\* bfree of block b, with the rest of the step in ic and next.
Bfree(p, b, ic, next) ==
  \/ b \notin used /\ Panics("freeing free block")
  \/ /\ b \in used
     /\ used' = used \ {b} /\ icache' = ic
     /\ Goto(p, next) /\ Fine /\ UNCHANGED <<dinode, block, res>>

\* itrunc: one block address of the inode at a time; the blocks behind the
\* indirect block go first.
Itrunc(p) ==
  /\ Calls(p, "itrunc")
  /\ LET s    == Arg(p, 2)
         some == {i \in 0..NDIRECT : Din(s).addrs[i] # 0}
         i    == Lowest(some)
     IN \/ /\ some # {} /\ i < NDIRECT
           /\ Bfree(p, Din(s).addrs[i], [icache EXCEPT ![s].din.addrs[i] = 0], << Head(todo[p]) >>)
        \/ /\ some = {NDIRECT}
           /\ Goto(p, << <<"indirect", s, 0>>, Head(todo[p]) >>)
           /\ Fine /\ UNCHANGED <<disk, icache, res>>
        \/ /\ some = {}
           /\ icache' = [icache EXCEPT ![s].din.size = 0]
           /\ Goto(p, << <<"iupdate", s>> >>) /\ Fine /\ UNCHANGED <<disk, res>>

ItruncIndirect(p) ==
  /\ Calls(p, "indirect")
  /\ LET s == Arg(p, 2)
         j == Arg(p, 3)
         a == Din(s).addrs[NDIRECT]
     IN \/ /\ j < NINDIRECT /\ block[a].ptr[j] # 0
           /\ Bfree(p, block[a].ptr[j], icache, << <<"indirect", s, j + 1>> >>)
        \/ /\ j < NINDIRECT /\ block[a].ptr[j] = 0
           /\ Goto(p, << <<"indirect", s, j + 1>> >>)
           /\ Fine /\ UNCHANGED <<disk, icache, res>>
        \/ /\ j = NINDIRECT
           /\ Bfree(p, a, [icache EXCEPT ![s].din.addrs[NDIRECT] = 0], <<>>)

-----------------------------------------------------------------------------
\* balloc for address i of the inode (or of its indirect block, when deep).
Balloc(p) ==
  /\ Calls(p, "balloc")
  /\ LET b == Lowest(Disk \ used)
     IN \/ Disk \subseteq used /\ Panics("balloc: out of blocks")
        \/ /\ ~(Disk \subseteq used)
           /\ used' = used \cup {b}
           /\ Goto(p, << <<"bzero", Arg(p, 2), Arg(p, 3), Arg(p, 4), b>> >>)
           /\ Fine /\ UNCHANGED <<dinode, block, icache, res>>

\* The other half of balloc, after which bmap stores the address.
Bzero(p) ==
  /\ Calls(p, "bzero")
  /\ LET s == Arg(p, 2)
         i == Arg(p, 3)
         zeroed == [block EXCEPT ![Arg(p, 5)] = ZeroBlock]
     IN IF Arg(p, 4)
        THEN /\ block' = [zeroed EXCEPT ![Din(s).addrs[NDIRECT]].ptr[i] = Arg(p, 5)]
             /\ UNCHANGED icache
        ELSE /\ block' = zeroed
             /\ icache' = [icache EXCEPT ![s].din.addrs[i] = Arg(p, 5)]
  /\ Goto(p, <<>>) /\ Fine /\ UNCHANGED <<used, dinode, res>>

\* writei: each iteration of its loop maps a block (bmap) and fills it; at the
\* end a file that grew is written back.
Writei(p) ==
  /\ Calls(p, "writei")
  /\ LET s     == Arg(p, 2)
         off   == Arg(p, 3)
         units == Arg(p, 4)
         bn    == off \div BSIZE
         at    == off % BSIZE
         b     == BlockOf(Din(s), block, bn)
         m     == IF Len(units) < BSIZE - at THEN Len(units) ELSE BSIZE - at
     IN \/ /\ units # <<>> /\ bn >= NDIRECT /\ Din(s).addrs[NDIRECT] = 0
           /\ Goto(p, << <<"balloc", s, NDIRECT, FALSE>>, Head(todo[p]) >>)
           /\ UNCHANGED <<block, icache>>
        \/ /\ units # <<>> /\ (bn < NDIRECT \/ Din(s).addrs[NDIRECT] # 0) /\ b = 0
           /\ Goto(p, << IF bn < NDIRECT THEN <<"balloc", s, bn, FALSE>>
                         ELSE <<"balloc", s, bn - NDIRECT, TRUE>>, Head(todo[p]) >>)
           /\ UNCHANGED <<block, icache>>
        \/ /\ units # <<>> /\ b # 0
           /\ block' = [block EXCEPT ![b].ent =
                [i \in DOMAIN @ |-> IF i \in at..(at + m - 1) THEN units[i - at + 1] ELSE @[i]]]
           /\ Goto(p, << <<"writei", s, off + m, SubSeq(units, m + 1, Len(units))>> >>)
           /\ UNCHANGED icache
        \/ /\ units = <<>>
           /\ icache' = [icache EXCEPT ![s].din.size = IF off > @ THEN off ELSE @]
           /\ Goto(p, IF off > Din(s).size THEN << <<"iupdate", s>> >> ELSE <<>>)
           /\ UNCHANGED block
  /\ Fine /\ UNCHANGED <<used, dinode, res>>

\* ialloc: one inode of the disk at a time.
IallocStep(p) ==
  /\ Calls(p, "ialloc")
  /\ LET i == Arg(p, 2)
         s == IgetSlot(i)
     IN \/ i = NINODES /\ Panics("ialloc: no inodes")
        \/ /\ i < NINODES /\ dinode[i].itype # "free"
           /\ Goto(p, << <<"ialloc", i + 1>> >>)
           /\ Fine /\ UNCHANGED <<disk, icache, res>>
        \/ /\ i < NINODES /\ dinode[i].itype = "free" /\ s = 0
           /\ Panics("iget: no inodes")
        \/ /\ i < NINODES /\ dinode[i].itype = "free" /\ s # 0
           /\ dinode' = [dinode EXCEPT ![i] = [FreeDinode EXCEPT !.itype = "file"]]
           /\ icache' = Igot(s, i)
           /\ Goto(p, <<>>) /\ Result(p, s) /\ Fine /\ UNCHANGED <<used, block>>

-----------------------------------------------------------------------------
\* namex at slot s with the elements that are left: the end of the path, or
\* the lock of the directory in which the next element is looked up.
Namex(p) ==
  /\ Calls(p, "namex")
  /\ LET s      == Arg(p, 2)
         path   == Arg(p, 3)
         parent == Arg(p, 4)
     IN \/ /\ path # <<>>
           /\ Goto(p, << <<"ilock", s>>, <<"element", s, path, parent>> >>)
           /\ UNCHANGED res
        \/ /\ path = <<>> /\ parent
           /\ Goto(p, << <<"iput", s>> >>) /\ Result(p, 0)
        \/ /\ path = <<>> /\ ~parent
           /\ Goto(p, <<>>) /\ Result(p, s)
  /\ Fine /\ UNCHANGED <<disk, icache>>

\* One element of the path, under the lock of the directory.
Element(p) ==
  /\ Calls(p, "element")
  /\ LET s      == Arg(p, 2)
         path   == Arg(p, 3)
         parent == Arg(p, 4)
         off    == Dirlookup(Din(s), Truncated(Head(path)))
         inum   == EntryAt(Din(s), off).inum
         n      == IgetSlot(inum)
     IN \/ /\ Din(s).itype # "dir"
           /\ Goto(p, Unlockput(s)) /\ Result(p, 0)
           /\ Fine /\ UNCHANGED <<disk, icache>>
        \/ /\ Din(s).itype = "dir" /\ parent /\ Len(path) = 1
           /\ Goto(p, << <<"iunlock", s>> >>) /\ Result(p, s)
           /\ Fine /\ UNCHANGED <<disk, icache>>
        \/ /\ Din(s).itype = "dir" /\ ~(parent /\ Len(path) = 1) /\ off = Din(s).size
           /\ Goto(p, Unlockput(s)) /\ Result(p, 0)
           /\ Fine /\ UNCHANGED <<disk, icache>>
        \/ /\ Din(s).itype = "dir" /\ ~(parent /\ Len(path) = 1) /\ off < Din(s).size /\ n = 0
           /\ Panics("iget: no inodes")
        \/ /\ Din(s).itype = "dir" /\ ~(parent /\ Len(path) = 1) /\ off < Din(s).size /\ n # 0
           /\ icache' = Igot(n, inum)
           /\ Goto(p, Unlockput(s) \o << <<"namex", n, Tail(path), parent>> >>)
           /\ Fine /\ UNCHANGED <<disk, res>>

\* dirlink of slot s under a name into the directory d: -1 (here 0) when the
\* name is found, else the first empty entry, or a new one at the end.
Dirlink(p) ==
  /\ Calls(p, "dirlink")
  /\ LET d    == Arg(p, 2)
         name == Arg(p, 3)
         at   == Dirlookup(Din(d), Truncated(name))
         inum == EntryAt(Din(d), at).inum
         n    == IgetSlot(inum)
         free == {off \in 0..(Din(d).size - 1) : EntryAt(Din(d), off).inum = 0}
         off  == IF free = {} THEN Din(d).size ELSE Lowest(free)
     IN \/ /\ at < Din(d).size /\ n = 0
           /\ Panics("iget: no inodes")
        \/ /\ at < Din(d).size /\ n # 0
           /\ icache' = Igot(n, inum)
           /\ Goto(p, << <<"iput", n>> >>) /\ Result(p, 0)
           /\ Fine /\ UNCHANGED disk
        \/ /\ at = Din(d).size /\ off >= MAXFILE * BSIZE
           /\ Panics("dirlink")
        \/ /\ at = Din(d).size /\ off < MAXFILE * BSIZE
           /\ Goto(p, << <<"writei", d, off, <<Dirent(icache[Arg(p, 4)].inum, name)>> >> >>)
           /\ Result(p, Arg(p, 4))
           /\ Fine /\ UNCHANGED <<disk, icache>>

-----------------------------------------------------------------------------
\* A system call starts with namei or nameiparent on a path.
Begin(p, path, parent, then) ==
  /\ panic = "none" /\ todo[p] = <<>> /\ calls < MaxCalls
  /\ calls' = calls + 1
  /\ LET s == IgetSlot(ROOTINO)
     IN /\ icache' = Igot(s, ROOTINO)
        /\ todo' = [todo EXCEPT ![p] = << <<"namex", s, path, parent>>, then >>]
  /\ Result(p, 0) /\ UNCHANGED <<panic, disk>>

\* exec and the file layer: the inode found is locked, used, and dropped.
Opened(p) ==
  /\ Calls(p, "opened")
  /\ LET s == res[p]
     IN Goto(p, IF s = 0 THEN <<>>
                ELSE << <<"ilock", s>>, <<"append", s, Arg(p, 2)>> >> \o Unlockput(s))
  /\ Result(p, 0) /\ Fine /\ UNCHANGED <<disk, icache>>

\* writei's checks, for a write at the end of an ordinary file; -1 when it
\* would outgrow MAXFILE.  A length of 0 stands for a use that does not write.
AppendUnits(p) ==
  /\ Calls(p, "append")
  /\ LET s   == Arg(p, 2)
         n   == Arg(p, 3)
         off == Din(s).size
     IN Goto(p, IF n = 0 \/ Din(s).itype # "file" \/ off + n > MAXFILE * BSIZE THEN <<>>
                ELSE << <<"writei", s, off, [k \in 1..n |-> Zero]>> >>)
  /\ Fine /\ UNCHANGED <<disk, icache, res>>

\* The external create: a new inode with one link, entered in the directory;
\* when the name exists the link is taken back and iput frees the inode.
Create(p) ==
  /\ Calls(p, "create")
  /\ Goto(p, << <<"ilock", res[p]>>, <<"ialloc", 1>>, <<"new", res[p], Arg(p, 2)>> >>)
  /\ Fine /\ UNCHANGED <<disk, icache, res>>

New(p) ==
  /\ Calls(p, "new")
  /\ LET s == res[p]
     IN Goto(p, << <<"ilock", s>>, <<"relink", s, 1>>, <<"dirlink", Arg(p, 2), Arg(p, 3), s>>,
                   <<"linked", Arg(p, 2), s>> >>)
  /\ Fine /\ UNCHANGED <<disk, icache, res>>

Linked(p) ==
  /\ Calls(p, "linked")
  /\ Goto(p, (IF res[p] = 0 THEN << <<"relink", Arg(p, 3), -1>> >> ELSE <<>>)
             \o Unlockput(Arg(p, 2)) \o Unlockput(Arg(p, 3)))
  /\ Result(p, 0) /\ Fine /\ UNCHANGED <<disk, icache>>

Relink(p) ==
  /\ Calls(p, "relink")
  /\ icache' = [icache EXCEPT ![Arg(p, 2)].din.nlink = @ + Arg(p, 3)]
  /\ Goto(p, << <<"iupdate", Arg(p, 2)>> >>) /\ Fine /\ UNCHANGED <<disk, res>>

\* The external unlink: the entry is cleared and the link count lowered.
Unlink(p) ==
  /\ Calls(p, "unlink")
  /\ Goto(p, << <<"ilock", res[p]>>, <<"remove", res[p], Arg(p, 2)>> >>)
  /\ Result(p, 0) /\ Fine /\ UNCHANGED <<disk, icache>>

RemoveEntry(p) ==
  /\ Calls(p, "remove")
  /\ LET d    == Arg(p, 2)
         off  == Dirlookup(Din(d), Truncated(Arg(p, 3)))
         inum == EntryAt(Din(d), off).inum
         n    == IgetSlot(inum)
     IN \/ /\ off = Din(d).size
           /\ Goto(p, Unlockput(d)) /\ Fine /\ UNCHANGED icache
        \/ /\ off < Din(d).size /\ n # 0
           /\ icache' = Igot(n, inum)
           /\ Goto(p, << <<"ilock", n>>, <<"writei", d, off, <<Zero>> >> >> \o Unlockput(d)
                      \o << <<"relink", n, -1>> >> \o Unlockput(n))
           /\ Fine
  /\ UNCHANGED <<disk, res>>

\* A panic stops the kernel; or every call of the behaviour has returned.
Halted == /\ panic # "none" \/ (calls = MaxCalls /\ \A p \in Procs : todo[p] = <<>>)
          /\ UNCHANGED vars

Step(p) == \/ Ilock(p) \/ Load(p) \/ Iunlock(p) \/ Iput(p) \/ Ifree(p) \/ Iupdate(p)
           \/ Itrunc(p) \/ ItruncIndirect(p) \/ Balloc(p) \/ Bzero(p) \/ Writei(p) \/ IallocStep(p)
           \/ Namex(p) \/ Element(p) \/ Dirlink(p) \/ Opened(p) \/ AppendUnits(p)
           \/ Create(p) \/ New(p) \/ Linked(p) \/ Relink(p) \/ Unlink(p) \/ RemoveEntry(p)

Next == \/ Halted
        \/ \E p \in Procs :
             \/ Step(p)
             \/ \E path \in Paths, n \in Appends : Begin(p, path, FALSE, <<"opened", n>>)
             \/ \E name \in Names, op \in {"create", "unlink"} : Begin(p, <<name>>, TRUE, <<op, name>>)

Spec == Init /\ [][Next]_vars

-----------------------------------------------------------------------------
\* The inode as the running kernel knows it: the copy in the cache when that
\* is valid, else the one on disk.
Current(i) ==
  LET in == {s \in Slots : icache[s].ref > 0 /\ icache[s].inum = i /\ icache[s].valid}
  IN IF in = {} THEN dinode[i] ELSE Din(CHOOSE s \in in : TRUE)

Places == Inums \X (0..(NDIRECT + NINDIRECT))

\* The block at a place of an inode; the entries of an indirect block that a
\* truncation has passed are gone already.
HeldAt(pl) ==
  LET d == Current(pl[1])
      k == pl[2]
      passed == \E p \in Procs : /\ At(p, "indirect") /\ icache[Arg(p, 2)].inum = pl[1]
                                 /\ k - NDIRECT - 1 < Arg(p, 3)
  IN IF k <= NDIRECT THEN d.addrs[k]
     ELSE IF d.addrs[NDIRECT] = 0 \/ passed THEN 0 ELSE block[d.addrs[NDIRECT]].ptr[k - NDIRECT - 1]

\* Allocated by balloc and not yet stored by bmap.
InFlight == {Arg(p, 5) : p \in {q \in Procs : At(q, "bzero")}}

\* Every block of the free map belongs to the layout, to exactly one place of
\* one inode, or to a balloc in progress; no inode names a free block or one
\* of another.  It holds at every step of a truncation, of an allocation and
\* of their interleavings, from the image that mkfs writes onwards.
BlocksOwnedOnce ==
  LET held  == [pl \in Places |-> HeldAt(pl)]
      taken == {pl \in Places : held[pl] # 0}
      owned == {held[pl] : pl \in taken}
  IN /\ Cardinality(owned) = Cardinality(taken)
     /\ used = 0..(NMETA - 1) \cup owned \cup InFlight
     /\ owned \cap InFlight = {} /\ 0..(NMETA - 1) \cap owned = {}

\* The inode cache never holds an inode twice, and a valid copy that nobody
\* has locked or is freeing agrees with the disk (ilock trusts it).
CacheCoherent ==
  /\ \A s, t \in Slots : icache[s].ref > 0 /\ icache[t].ref > 0
                         /\ icache[s].inum = icache[t].inum => s = t
  /\ \A s \in Slots :
       /\ icache[s].ref > 0 /\ icache[s].valid /\ icache[s].lock = 0
       /\ ~\E p \in Procs, i \in 1..8 : i <= Len(todo[p]) /\ todo[p][i] = <<"ifree", s>>
       => Din(s) = dinode[icache[s].inum]

\* Entries of the root directory, other than its own two, that name inode i.
LinksTo(i) == {off \in 2..(Current(ROOTINO).size - 1) : EntryAt(Current(ROOTINO), off).inum = i}

\* When every call has returned, the cache holds the working directories and
\* nothing else, and an inode is in use exactly when the directory names it.
NothingLeaks ==
  (panic = "none" /\ \A p \in Procs : todo[p] = <<>>) =>
    /\ \A s \in Slots : icache[s].lock = 0
                        /\ icache[s].ref = IF s = 1 THEN Cardinality(Procs) ELSE 0
    /\ \A i \in Inums \ {ROOTINO} :
         /\ dinode[i].nlink = Cardinality(LinksTo(i))
         /\ dinode[i].itype = "free" <=> LinksTo(i) = {}

\* The checks that guard the file system against its own callers never fire:
\* the kernel stops only when it runs out of blocks, inodes or cache slots.
NoConsistencyPanic ==
  panic \in {"none", "balloc: out of blocks", "ialloc: no inodes", "iget: no inodes", "dirlink"}

\* A walk that is about to look a name up finds the entry with that name, if
\* any: names agree when they agree "up to DIRSIZ bytes" (namecmp).
LookupExact ==
  \A p \in Procs : At(p, "element") =>
    LET d    == Din(Arg(p, 2))
        name == Truncated(Head(Arg(p, 3)))
        off  == Dirlookup(d, name)
    IN d.itype = "dir" /\ off < d.size => EntryAt(d, off).name = name
=============================================================================
