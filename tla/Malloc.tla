------------------------------- MODULE Malloc -------------------------------
(***************************************************************************)
(* The allocator of crates/ulib/src/lib.rs: a circular list of free blocks *)
(* in the order of their addresses, with a roving pointer FREEP, that      *)
(* grows by sbrk.  An address counts units of one Header.  A step is one   *)
(* turn of the loop in malloc or in free.  The client is any sequence of   *)
(* malloc and free, the test mem of usertests.rs among them.  sbrk fails   *)
(* beyond HEAPMAX.                                                         *)
(***************************************************************************)
EXTENDS Integers

CONSTANTS HEADER_SIZE,  \* bytes of a Header
          CORE,         \* units morecore asks for at least, 4096 in the code
          HEAPMAX,      \* units sbrk can give
          Bytes         \* arguments of malloc

ASSUME HeapConstants == /\ HEADER_SIZE \in Nat \ {0} /\ CORE \in Nat \ {0}
                        /\ HEAPMAX \in Nat /\ Bytes \subseteq Nat

VARIABLES heap,  \* freep, the headers, the end of the heap; the blocks in use
                 \* and, as history, those that were put into the list
          call   \* the call under way, and its variables

heapVars == <<heap, call>>

NULL  == -1
BASE  == 0     \* the static header, below the heap
FIRST == 2     \* where the heap begins
Addrs == {BASE} \cup FIRST..(FIRST + HEAPMAX - 1)

NoCall == [at |-> "none", nunits |-> 0, prevp |-> NULL, p |-> NULL, bp |-> NULL]

\* A header that is of no block any more keeps its contents, which nobody
\* reads; it is cleared here.
Clean(h) == [h EXCEPT !.next = [a \in Addrs |-> IF a \in h.list THEN @[a] ELSE NULL],
                      !.size = [a \in Addrs |-> IF a \in h.list \cup h.live THEN @[a] ELSE 0]]

-----------------------------------------------------------------------------
\* Where free() puts bp: after the p that is below it, or at the end of the list.
Place(h, bp, p) == \/ bp > p /\ bp < h.next[p]
                   \/ p >= h.next[p] /\ (bp > p \/ bp < h.next[p])

\* Variant: free does not join the block with the free one above it.
UpperKeeps(h, bp, p) == [h EXCEPT !.next[bp] = h.next[p]]

\* Coalesce with upper neighbor, then with lower neighbor.
Upper(h, bp, p) ==
  IF bp + h.size[bp] = h.next[p]
  THEN [h EXCEPT !.size[bp] = @ + h.size[h.next[p]], !.next[bp] = h.next[h.next[p]],
                 !.list = @ \ {h.next[p]}]
  ELSE [h EXCEPT !.next[bp] = h.next[p]]

Lower(h, bp, p) ==
  IF p + h.size[p] = bp
  THEN [h EXCEPT !.size[p] = @ + h.size[bp], !.next[p] = h.next[bp]]
  ELSE [h EXCEPT !.next[p] = bp, !.list = @ \cup {bp}]

FreeLoop == /\ call.at = "free" /\ ~Place(heap, call.bp, call.p)
            /\ call' = [call EXCEPT !.p = heap.next[@]]
            /\ UNCHANGED heap

\* The end of free, which the client has called, or morecore in malloc.
FreeLinks ==
  /\ call.at = "free" /\ Place(heap, call.bp, call.p)
  /\ heap' = Clean([Lower(Upper(heap, call.bp, call.p), call.bp, call.p) EXCEPT !.freep = call.p])
  /\ call' = IF call.nunits = 0 THEN NoCall
             ELSE [call EXCEPT !.at = "malloc", !.prevp = call.p, !.p = heap'.next[call.p], !.bp = NULL]

FreeCall(a) == /\ call.at = "none" /\ a \in heap.live
               /\ heap' = [heap EXCEPT !.live = @ \ {a}]
               /\ call' = [NoCall EXCEPT !.at = "free", !.p = heap.freep, !.bp = a]

-----------------------------------------------------------------------------
Units(nbytes) == (nbytes + HEADER_SIZE - 1) \div HEADER_SIZE + 1

MallocCall(nbytes) ==
  /\ call.at = "none"
  /\ heap' = IF heap.freep # NULL THEN heap
             ELSE [heap EXCEPT !.next[BASE] = BASE, !.size[BASE] = 0, !.freep = BASE, !.list = {BASE}]
  /\ call' = [NoCall EXCEPT !.at = "malloc", !.nunits = Units(nbytes), !.prevp = heap'.freep,
                            !.p = heap'.next[heap'.freep]]

\* Block p fits: all of it is unlinked, or its tail is cut off.
Taken(h, prevp, p, n) ==
  LET q == p + h.size[p] - n
  IN IF h.size[p] = n
     THEN [h EXCEPT !.next[prevp] = h.next[p], !.freep = prevp, !.list = @ \ {p}, !.live = @ \cup {p}]
     ELSE [h EXCEPT !.size = [h.size EXCEPT ![p] = @ - n, ![q] = n], !.freep = prevp, !.live = @ \cup {q}]

Fits == /\ call.at = "malloc" /\ heap.size[call.p] >= call.nunits
        /\ heap' = Clean(Taken(heap, call.prevp, call.p, call.nunits))
        /\ call' = NoCall

MallocLoop == /\ call.at = "malloc" /\ heap.size[call.p] < call.nunits /\ call.p # heap.freep
              /\ call' = [call EXCEPT !.prevp = call.p, !.p = heap.next[@]]
              /\ UNCHANGED heap

\* morecore: new units, which free() is to put into the list; or none.
Core(nu) == IF nu < CORE THEN CORE ELSE nu
CanGrow(h, nu) == h.brk - FIRST + Core(nu) <= HEAPMAX

Morecore ==
  /\ call.at = "malloc" /\ heap.size[call.p] < call.nunits /\ call.p = heap.freep
  /\ IF CanGrow(heap, call.nunits)
     THEN /\ heap' = [heap EXCEPT !.brk = @ + Core(call.nunits), !.size[heap.brk] = Core(call.nunits)]
          /\ call' = [call EXCEPT !.at = "free", !.p = heap.freep, !.bp = heap.brk, !.prevp = NULL]
     ELSE call' = NoCall /\ UNCHANGED heap

MallocInit ==
  /\ heap = [freep |-> NULL, next |-> [a \in Addrs |-> NULL], size |-> [a \in Addrs |-> 0],
             brk |-> FIRST, list |-> {}, live |-> {}]
  /\ call = NoCall

MallocNext == \/ \E n \in Bytes : MallocCall(n)
              \/ \E a \in heap.live : FreeCall(a)
              \/ Fits \/ MallocLoop \/ Morecore
              \/ FreeLoop \/ FreeLinks

MallocSpec == MallocInit /\ [][MallocNext]_heapVars

-----------------------------------------------------------------------------
Extent(a) == a..(a + heap.size[a] - 1)
FreeList  == heap.list \ {BASE}
\* The block that free() has in hand.
Hand      == IF call.at = "free" THEN {call.bp} ELSE {}
Blocks    == FreeList \cup heap.live \cup Hand

\* From every block of the list the next one is the one above it, and from the
\* last it is BASE: following next visits the list, and nothing else.
Circular ==
  \A a \in heap.list : LET above == {b \in heap.list : b > a}
                       IN IF above = {} THEN heap.next[a] = BASE
                          ELSE heap.next[a] \in above /\ \A b \in above : heap.next[a] <= b

\* Every unit of the heap belongs to exactly one block, which is in use, in the
\* free list or in the hand of free(): no memory is handed out twice and none
\* is lost, in whatever order blocks are freed, split and joined.  The list is
\* in the order of addresses, and no two blocks in it touch, so that once all
\* has been freed the heap is one block, and the malloc at the end of the test
\* mem finds it.
HeapSound ==
  heap.freep # NULL =>
    /\ {BASE, heap.freep} \subseteq heap.list /\ Circular
    /\ FreeList \cap heap.live = {} /\ Hand \cap (FreeList \cup heap.live) = {}
    /\ UNION {Extent(a) : a \in Blocks} = FIRST..(heap.brk - 1)
    /\ \A a, b \in Blocks : a # b => Extent(a) \cap Extent(b) = {}
    /\ \A a, b \in FreeList : a + heap.size[a] # b
=============================================================================
