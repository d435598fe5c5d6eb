---------------------------------- MODULE Vm ----------------------------------
(***************************************************************************)
(* User memory: the page allocator of crates/mm/src/kalloc.rs, the address *)
(* spaces of crates/arch/src/vm.rs, and the calls that change them: fork,  *)
(* exit, wait and growproc of crates/proc/src/proc.rs, exec of             *)
(* crates/proc/src/exec.rs and sbrk of crates/syscall/src/sysproc.rs.      *)
(*                                                                         *)
(* An address space is a partial map to pages, from page numbers and from  *)
(* numbers below zero that stand for its page tables.  Which free page     *)
(* kalloc returns does not matter, so the free list is a set.              *)
(*                                                                         *)
(* fork and growproc do not sleep between two allocations and are one step *)
(* each.  exec does, over every read of the file: it is a step for the     *)
(* root, one for each segment and one for the rest, which does not sleep.  *)
(***************************************************************************)
EXTENDS Integers, FiniteSets, FiniteSetsExt, Functions

CONSTANTS Slots, INITPROC,
          NPages,     \* physical pages
          PGSIZE,     \* bytes of a page
          FANOUT,     \* entries of a page table
          Grows, Shrinks,  \* by how much sbrk grows and shrinks a process
          Images,     \* where a segment of a program ends
          UINT        \* 2^32

Pages  == 1..NPages
Deltas == Grows \cup {-n : n \in Shrinks}

\* There is memory for the first process.
VmConstants == /\ INITPROC \in Slots
               /\ {NPages, PGSIZE, FANOUT, UINT} \subseteq Nat \ {0} /\ NPages >= 6
               /\ Grows \subseteq Nat \ {0} /\ Shrinks \subseteq Nat \ {0} /\ Images \subseteq Nat

VARIABLES free,      \* the pages of the free list
          kstack,    \* the kernel stack of a slot, or 0
          map,       \* the address space of a slot
          sz,        \* p->sz
          low,       \* history: where the pages of a slot begin; above the first
                     \* page only after a shrink to 0
          img,       \* the address space that exec builds, and
          imgsz,     \* its size
          args,      \* the argument registers in the trapframe
          state,     \* UNUSED, LIVE or ZOMBIE
          panicked

memory == <<free, kstack, map, sz, low, img, imgsz, args, state>>
vars   == <<memory, panicked>>

TypeOK == /\ free \in SUBSET Pages
          /\ kstack \in [Slots -> Pages \cup {0}]
          /\ \A p \in Slots : Range(map[p]) \cup Range(img[p]) \subseteq Pages
          /\ sz \in [Slots -> Nat] /\ low \in [Slots -> Nat] /\ imgsz \in [Slots -> Nat]
          /\ args \in [Slots -> {"own", "new"}]
          /\ state \in [Slots -> {"UNUSED", "LIVE", "ZOMBIE"}]
          /\ panicked \in BOOLEAN

-----------------------------------------------------------------------------
PGROUNDUP(a) == ((a + PGSIZE - 1) \div PGSIZE) * PGSIZE

\* The pages of [PGROUNDUP(lo), hi).
Span(lo, hi) == {n \in (PGROUNDUP(lo) \div PGSIZE)..(hi \div PGSIZE) : n * PGSIZE < hi}

\* setupkvm takes the root, and walkpgdir the tables on the way to page n.
Root == {-1}
Walk(n) == LET pt  == n \div FANOUT
               pd  == pt \div FANOUT
               pdp == pd \div FANOUT
           IN {-1, -2 - 3 * pt, -3 - 3 * pd, -4 - 3 * pdp}
Needs(N) == N \cup UNION {Walk(n) : n \in N}

\* What mappages takes for the pages N, where M is mapped.
More(M, N) == Needs(N) \ DOMAIN M

\* The first n pages that kalloc returns from the free set f.
Lowest(f, n) == {g \in f : Cardinality({h \in f : h <= g}) <= n}

\* Pages of a set handed out to the numbers of N, in order.
Assign(N, G) == [n \in N |-> CHOOSE g \in G : Cardinality({h \in G : h < g}) = Cardinality({m \in N : m < n})]

\* Pages of f for the numbers of N.
Fresh(f, N) == Assign(N, Lowest(f, Cardinality(N)))

\* More in an address space.
With(M, a) == [n \in DOMAIN M \cup DOMAIN a |-> IF n \in DOMAIN M THEN M[n] ELSE a[n]]

Enough(f, N) == Cardinality(N) <= Cardinality(f)
Panic == panicked' = TRUE /\ UNCHANGED memory

\* Variant: freevm forgets the tables.
FreevmPagesOnly(M) == Range(Restrict(M, DOMAIN M \cap Nat))

\* What freevm gives back to kfree.
Freevm(M) == Range(M)

InExec(p) == DOMAIN img[p] # {}
Runs(p)   == state[p] = "LIVE" /\ ~InExec(p)

-----------------------------------------------------------------------------
\* fork: allocproc takes a stack, copyuvm a copy of every page below sz.
\* copyuvm panics when one is not there, kalloc when it has no page.
Fork(p, q) ==
  /\ ~panicked /\ Runs(p) /\ state[q] = "UNUSED"
  /\ LET N == Span(PGSIZE, sz[p])
         k == Min(free)
         a == Fresh(free \ {k}, Root \cup Needs(N))
     IN IF free = {} \/ ~Enough(free \ {k}, Root \cup Needs(N)) \/ ~(N \subseteq DOMAIN map[p])
        THEN Panic
        ELSE /\ kstack' = [kstack EXCEPT ![q] = k]
             /\ map' = [map EXCEPT ![q] = a]
             /\ free' = free \ ({k} \cup Range(a))
             /\ sz' = [sz EXCEPT ![q] = sz[p]]
             /\ low' = [low EXCEPT ![q] = IF sz[p] < PGSIZE THEN sz[p] ELSE PGSIZE]
             /\ args' = [args EXCEPT ![q] = args[p]]
             /\ state' = [state EXCEPT ![q] = "LIVE"]
             /\ UNCHANGED <<img, imgsz, panicked>>

\* exit keeps the memory for wait; init never exits.
Exit(p) ==
  /\ ~panicked /\ Runs(p) /\ p # INITPROC
  /\ state' = [state EXCEPT ![p] = "ZOMBIE"]
  /\ UNCHANGED <<free, kstack, map, sz, low, img, imgsz, args, panicked>>

Reap(q) ==
  /\ ~panicked /\ state[q] = "ZOMBIE"
  /\ free' = free \cup {kstack[q]} \cup Freevm(map[q])
  /\ kstack' = [kstack EXCEPT ![q] = 0]
  /\ map' = [map EXCEPT ![q] = <<>>]
  /\ state' = [state EXCEPT ![q] = "UNUSED"]
  /\ UNCHANGED <<sz, low, img, imgsz, args, panicked>>

-----------------------------------------------------------------------------
\* allocuvm: grow to new.  KERNBASE is out of reach of a 32-bit argument.
Allocuvm(p, new) ==
  LET N == More(map[p], Span(sz[p], new))
      a == Fresh(free, N)
  IN IF ~Enough(free, N) THEN Panic
     ELSE /\ map' = [map EXCEPT ![p] = With(@, a)]
          /\ free' = free \ Range(a)
          /\ sz' = [sz EXCEPT ![p] = new]
          /\ UNCHANGED <<kstack, low, img, imgsz, args, state, panicked>>

\* deallocuvm: free what is mapped in [new, sz), but no table.  growproc takes
\* a result of 0 for a failure and leaves p->sz, with nothing mapped below it.
Deallocuvm(p, new) ==
  LET N == Span(new, sz[p]) \cap DOMAIN map[p]
  IN /\ free' = free \cup {map[p][n] : n \in N}
     /\ map' = [map EXCEPT ![p] = Restrict(@, DOMAIN @ \ N)]
     /\ sz' = [sz EXCEPT ![p] = IF new = 0 THEN @ ELSE new]
     /\ low' = [low EXCEPT ![p] = IF new = 0 THEN sz[p] ELSE IF new < @ THEN new ELSE @]
     /\ UNCHANGED <<kstack, img, imgsz, args, state, panicked>>

\* sys_sbrk declares growproc with an i32 and growproc reads an i64: what the
\* upper half holds for a negative n is up to the compiler.
Widened(n) == IF n < 0 THEN {n, n + UINT} ELSE {n}

\* A shrink below 0 wraps around, and deallocuvm returns the old size.
Sbrk(p, n) ==
  /\ ~panicked /\ Runs(p)
  /\ \E w \in Widened(n) : \/ w > 0 /\ Allocuvm(p, sz[p] + w)
                           \/ w < 0 /\ sz[p] + w >= 0 /\ Deallocuvm(p, sz[p] + w)
                           \/ w < 0 /\ sz[p] + w < 0 /\ UNCHANGED vars

-----------------------------------------------------------------------------
\* exec has read the header of the file and takes the root of a new address
\* space; the first page stays free.
ExecBegin(p) ==
  /\ ~panicked /\ Runs(p)
  /\ IF ~Enough(free, Root) THEN Panic
     ELSE LET a == Fresh(free, Root)
          IN /\ img' = [img EXCEPT ![p] = a]
             /\ imgsz' = [imgsz EXCEPT ![p] = PGSIZE]
             /\ free' = free \ Range(a)
             /\ UNCHANGED <<kstack, map, sz, low, args, state, panicked>>

\* The next segment ends at i: allocuvm makes room for it, if it ends above
\* what there is, and loaduvm reads it.
ExecLoad(p, i) ==
  /\ ~panicked /\ state[p] = "LIVE" /\ InExec(p) /\ i > imgsz[p]
  /\ LET N == More(img[p], Span(imgsz[p], i))
         a == Fresh(free, N)
     IN IF ~Enough(free, N) THEN Panic
        ELSE /\ img' = [img EXCEPT ![p] = With(@, a)]
             /\ imgsz' = [imgsz EXCEPT ![p] = i]
             /\ free' = free \ Range(a)
             /\ UNCHANGED <<kstack, map, sz, low, args, state, panicked>>

\* goto_bad, after an error in the file: what was built is freed.
ExecBad(p) ==
  /\ ~panicked /\ state[p] = "LIVE" /\ InExec(p)
  /\ free' = free \cup Freevm(img[p])
  /\ img' = [img EXCEPT ![p] = <<>>]
  /\ imgsz' = [imgsz EXCEPT ![p] = 0]
  /\ UNCHANGED <<kstack, map, sz, low, args, state, panicked>>

\* Two pages for the stack, and the arguments are copied to it; then the
\* process switches to the new address space and the old one is freed.  When
\* the arguments do not fit the new one is freed; the argument registers are
\* written before the copy of the argument vector, which may fail too.
Top(p) == PGROUNDUP(imgsz[p]) + 2 * PGSIZE
Copy == {"fits", "fails", "fails late"}

ExecEnd(p, copy) ==
  /\ ~panicked /\ state[p] = "LIVE" /\ InExec(p)
  /\ LET N   == More(img[p], Span(imgsz[p], Top(p)))
         a   == Fresh(free, N)
         new == With(img[p], a)
     IN IF ~Enough(free, N) THEN Panic
        ELSE /\ free' = (free \ Range(a)) \cup Freevm(IF copy = "fits" THEN map[p] ELSE new)
             /\ map' = [map EXCEPT ![p] = IF copy = "fits" THEN new ELSE @]
             /\ sz' = [sz EXCEPT ![p] = IF copy = "fits" THEN Top(p) ELSE @]
             /\ low' = [low EXCEPT ![p] = IF copy = "fits" THEN PGSIZE ELSE @]
             /\ args' = [args EXCEPT ![p] = CASE copy = "fits" -> "own" [] copy = "fails" -> @ [] OTHER -> "new"]
             /\ img' = [img EXCEPT ![p] = <<>>]
             /\ imgsz' = [imgsz EXCEPT ![p] = 0]
             /\ UNCHANGED <<kstack, state, panicked>>

\* panic!() stops the kernel for good.
Halted == panicked /\ UNCHANGED vars

-----------------------------------------------------------------------------
\* userinit: one page at PGSIZE, and sz is two pages.
Init == LET a == Fresh(Pages \ {1}, Needs({1}))
        IN /\ kstack = [p \in Slots |-> IF p = INITPROC THEN 1 ELSE 0]
           /\ map = [p \in Slots |-> IF p = INITPROC THEN a ELSE <<>>]
           /\ free = Pages \ ({1} \cup Range(a))
           /\ sz = [p \in Slots |-> IF p = INITPROC THEN 2 * PGSIZE ELSE 0]
           /\ low = [p \in Slots |-> PGSIZE]
           /\ img = [p \in Slots |-> <<>>] /\ imgsz = [p \in Slots |-> 0]
           /\ args = [p \in Slots |-> "own"]
           /\ state = [p \in Slots |-> IF p = INITPROC THEN "LIVE" ELSE "UNUSED"]
           /\ panicked = FALSE

Next == \/ \E p \in Slots : \/ \E q \in Slots : Fork(p, q)
                            \/ Exit(p) \/ Reap(p)
                            \/ \E n \in Deltas : Sbrk(p, n)
                            \/ ExecBegin(p) \/ ExecBad(p)
                            \/ \E i \in Images : ExecLoad(p, i)
                            \/ \E copy \in Copy : ExecEnd(p, copy)
        \/ Halted

Spec == Init /\ [][Next]_vars

-----------------------------------------------------------------------------
Owned(p) == ({kstack[p]} \ {0}) \cup Range(map[p]) \cup Range(img[p])

\* Every page is on the free list or has one use: one table, one mapping or one
\* stack, of one process, also while exec builds.  Nothing leaks, nothing is
\* freed twice, and no two processes share memory.
PagesConserved ==
  /\ free = Pages \ UNION {Owned(p) : p \in Slots}
  /\ \A p, q \in Slots : p # q => Owned(p) \cap Owned(q) = {}
  /\ \A p \in Slots : Cardinality(Owned(p)) = Cardinality({kstack[p]} \ {0})
                        + Cardinality(DOMAIN map[p]) + Cardinality(DOMAIN img[p])

\* Exactly the pages from low to sz are mapped, so that growth remaps none; and
\* low is the first page, so that fork finds every page it copies, unless a
\* shrink to exactly 0 has freed the pages and kept the size.
SzMapped == \A p \in Slots : state[p] = "LIVE" => DOMAIN map[p] \cap Nat = Span(low[p], sz[p])

\* Every page has one owner, and what is mapped is what lies between low and sz.
MemoryAgree == PagesConserved /\ SzMapped

\* "On failure, returns -1 without changing the current process" (exec.rs:59):
\* the argument registers of a process are those of the program it has mapped.
ExecFailureKeepsProcess == \A p \in Slots : state[p] = "LIVE" => args[p] = "own"
=============================================================================
