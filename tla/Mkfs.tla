-------------------------------- MODULE Mkfs --------------------------------
(***************************************************************************)
(* mkfs/src/main.rs: the image that the kernel mounts.  The disk is kept   *)
(* by what its blocks mean: an inode per inode number, and for a data      *)
(* block the directory entries (ent) and the block numbers (ptr) it holds. *)
(* A block holds BSIZE directory entries, and a file is measured in units  *)
(* of one entry; the bytes of ordinary files are not kept.                 *)
(***************************************************************************)
EXTENDS Naturals, SequencesExt

CONSTANTS BSIZE,      \* directory entries in a block
          NDIRECT,    \* block numbers in an inode
          NINDIRECT,  \* block numbers in an indirect block
          DIRSIZ,     \* characters in a directory entry
          NMETA,      \* blocks before the first data block
          FSSIZE,     \* blocks of the disk
          NINODES     \* the superblock's ninodes: inodes 1 .. NINODES - 1

ASSUME DiskShape == /\ BSIZE \in Nat \ {0} /\ NINDIRECT \in Nat \ {0} /\ NDIRECT \in Nat
                    /\ DIRSIZ \in Nat \ {0} /\ NMETA \in Nat \ {0}
                    /\ FSSIZE > NMETA /\ NINODES > 1

ROOTINO == 1
MAXFILE == NDIRECT + NINDIRECT
Inums   == 1..(NINODES - 1)
Disk    == 0..(FSSIZE - 1)

\* What DIRSIZ characters of a directory entry keep of a name.
Truncated(name) == SubSeq(name, 1, IF Len(name) < DIRSIZ THEN Len(name) ELSE DIRSIZ)

Dirent(inum, name) == [inum |-> inum, name |-> Truncated(name)]
Zero      == [inum |-> 0, name |-> <<>>]
ZeroBlock == [ent |-> [i \in 0..(BSIZE - 1) |-> Zero], ptr |-> [i \in 0..(NINDIRECT - 1) |-> 0]]
FreeDinode == [itype |-> "free", nlink |-> 0, size |-> 0, addrs |-> [i \in 0..NDIRECT |-> 0]]

\* Mkfs::new and the zeroing of the disk.
Blank == [dinode |-> [i \in Inums |-> FreeDinode], block |-> [b \in Disk |-> ZeroBlock],
          free_inode |-> 1, free_block |-> NMETA]

Ialloc(img, itype) ==
  [img EXCEPT !.dinode[img.free_inode] = [FreeDinode EXCEPT !.itype = itype, !.nlink = 1],
              !.free_inode = @ + 1]

\* A block address of the inode that is still 0 takes the next free block.
Take(img, inum, i) ==
  [img EXCEPT !.dinode[inum].addrs[i] = img.free_block, !.free_block = @ + 1]

\* iappend finds the block of unit fbn * BSIZE + ..., allocating what is missing.
Mapped(img, inum, fbn) ==
  LET slot == IF fbn < NDIRECT THEN fbn ELSE NDIRECT
      one  == IF img.dinode[inum].addrs[slot] = 0 THEN Take(img, inum, slot) ELSE img
      ind  == one.dinode[inum].addrs[NDIRECT]
      idx  == fbn - NDIRECT
  IN IF fbn < NDIRECT \/ one.block[ind].ptr[idx] # 0 THEN one
     ELSE [one EXCEPT !.block[ind].ptr[idx] = one.free_block, !.free_block = @ + 1]

\* The block that holds block fbn of the inode din; 0 when there is none.
BlockOf(din, block, fbn) ==
  IF fbn < NDIRECT THEN din.addrs[fbn]
  ELSE IF din.addrs[NDIRECT] = 0 THEN 0 ELSE block[din.addrs[NDIRECT]].ptr[fbn - NDIRECT]

\* iappend of one unit; a unit of an ordinary file is Zero.
Iappend(img, inum, unit) ==
  LET off == img.dinode[inum].size
      m   == Mapped(img, inum, off \div BSIZE)
      b   == BlockOf(m.dinode[inum], m.block, off \div BSIZE)
  IN [m EXCEPT !.block[b].ent[off % BSIZE] = unit, !.dinode[inum].size = off + 1]

\* A file named on the command line: an inode, an entry of the root directory
\* (without the leading underscore of the host's name), and its bytes.
AddFile(img, file) ==
  LET inum == img.free_inode
      name == IF Head(file.name) = "_" THEN Tail(file.name) ELSE file.name
      made == Iappend(Ialloc(img, "file"), ROOTINO, Dirent(inum, name))
  IN FoldLeft(LAMBDA i, u : Iappend(i, inum, u), made, [k \in 1..file.len |-> Zero])

\* main: the root directory with its two entries, then every file.
Image(files) ==
  LET root == Iappend(Iappend(Ialloc(Blank, "dir"), ROOTINO, Dirent(ROOTINO, <<".">>)),
                      ROOTINO, Dirent(ROOTINO, <<".", ".">>))
  IN FoldLeft(AddFile, root, files)

\* The bitmap sector that main writes last.
Bitmap(img) == 0..(img.free_block - 1)
=============================================================================
