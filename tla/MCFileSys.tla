------------------------------ MODULE MCFileSys ------------------------------
(***************************************************************************)
(* FileSys on a disk of ten blocks: a block holds two directory entries,   *)
(* an inode has one direct block, and names keep two characters, so that   *)
(* the root directory and one file reach into their indirect blocks.       *)
(***************************************************************************)
EXTENDS FileSys

CONSTANTS p1, p2

a   == <<"a">>
ab  == <<"a", "b">>
abc == <<"a", "b", "c">>
dot == <<".">>

MCImages == {<<[name |-> <<"_">> \o abc, len |-> 3]>>}
MCPaths  == {<<dot, a>>, <<ab, a>>}
MCNames  == {a, ab}
Symmetry == Permutations(Procs)
=============================================================================
