------------------------------ MODULE LogProofs ------------------------------
(***************************************************************************)
(* Proofs about the write-ahead log of Log.tla, for every set of processes *)
(* and blocks, every size of the log and any number of crashes: it never   *)
(* panics or loses a wakeup, and it implements the atomic disk.            *)
(***************************************************************************)
EXTENDS Log, FiniteSetTheorems, TLAPS

Committers == {p \in Procs : pc[p] \in CommitSteps}

\* The loop index of write_log and install_trans is inside the log.
TailInv == /\ \A p \in Procs : pc[p] \in {"write_log", "write_head", "install"} => tail < Len(lh)
           /\ phase = "install" => tail < Len(lh)

\* log.outstanding counts the processes inside an operation.
CountInv == outstanding = Cardinality(Active)

\* There is one committer, it runs alone, and it leaves an empty log behind.
CommitInv == /\ \A p, q \in Committers : p = q
             /\ Committers # {} <=> committing
             /\ committing => Active = {}
             /\ \A p \in Procs : pc[p] = "done" => lh = <<>>
             /\ phase # "run" => Active = {} /\ Committers = {}
             /\ (phase = "run" /\ Active = {} /\ ~committing) => lh = <<>>

\* An operation stays within the blocks it may modify.
OpInv == \A p \in Procs : IsFiniteSet(wrote[p]) /\ Cardinality(wrote[p]) <= OpBlocks

IInv == TypeOK /\ TailInv /\ CountInv /\ CommitInv /\ OpInv

USE LogConstants DEF LogConstants

LEMMA ActiveFinite == IsFiniteSet(Active) /\ Cardinality(Active) \in Nat
BY FS_Subset, FS_CardinalityType, Zenon DEF Active

LEMMA InitIInv == Init => IInv
<1> SUFFICES ASSUME Init PROVE IInv
  OBVIOUS
<1>1. Active = {} /\ Committers = {}
  BY DEF Init, Active, Committers, CommitSteps
<1>2. Cardinality(Active) = 0
  BY <1>1, FS_EmptySet
<1>3. \A p \in Procs : IsFiniteSet(wrote[p]) /\ Cardinality(wrote[p]) <= OpBlocks
  BY FS_EmptySet DEF Init
<1>4. TypeOK
  <2>1. PICK d \in Data : /\ disk = [b \in Blocks |-> d]
                          /\ slots = [i \in 1..LOGSIZE |-> d]
                          /\ cache = [b \in Blocks |-> d]
    BY Zenon DEF Init
  <2>2. <<>> \in Seq(Blocks) /\ Len(<<>>) = 0
    OBVIOUS
  <2>3. committing \in BOOLEAN /\ panicked \in BOOLEAN
    BY Zenon DEF Init
  <2>4. disk \in [Blocks -> Data] /\ slots \in [1..LOGSIZE -> Data] /\ cache \in [Blocks -> Data]
    BY <2>1
  <2>5. head \in Seq(Blocks) /\ Len(head) <= LOGSIZE /\ lh \in Seq(Blocks) /\ Len(lh) <= LOGSIZE
    BY <2>2 DEF Init
  <2>6. pc \in [Procs -> Pcs] /\ phase \in Phases
    BY DEF Init, Pcs, Phases
  <2>7. wrote \in [Procs -> SUBSET Blocks] /\ dirty \in SUBSET Blocks
    BY DEF Init
  <2>8. outstanding \in Nat /\ tail \in 0..LOGSIZE /\ crashes \in 0..MaxCrashes
    BY DEF Init
  <2> QED
    BY <2>3, <2>4, <2>5, <2>6, <2>7, <2>8, Zenon DEF TypeOK
<1> QED
  BY <1>1, <1>2, <1>3, <1>4 DEF Init, IInv, TailInv, CountInv, CommitInv, OpInv

-----------------------------------------------------------------------------
\* Which processes are inside an operation, or commit, after a step that moves
\* one process, possibly with a wakeup.

LEMMA WakeupKeeps ==
  ASSUME NEW f \in [Procs -> Pcs]
  PROVE  /\ Wakeup(f) \in [Procs -> Pcs]
         /\ \A p \in Procs : \A l \in Pcs \ {"begin", "asleep"} : Wakeup(f)[p] = l <=> f[p] = l
         /\ \A p \in Procs : Wakeup(f)[p] # "asleep"
BY DEF Wakeup, Pcs, CommitSteps

(* wakeup (proc.rs) puts nobody into a step of commit, nor into an operation.  *)
LEMMA WakeupEnters ==
  ASSUME NEW f \in [Procs -> Pcs], NEW q \in Procs
  PROVE  /\ f[q] \notin CommitSteps => Wakeup(f)[q] \notin CommitSteps
         /\ f[q] # "op" => Wakeup(f)[q] # "op"
<1>1. CommitSteps \subseteq Pcs \ {"begin", "asleep"} /\ "op" \in Pcs \ {"begin", "asleep"}
  BY DEF CommitSteps, Pcs
<1> QED
  BY <1>1, WakeupKeeps, Zenon

LEMMA TypeStep ==
  ASSUME IInv, [Next]_vars
  PROVE  TypeOK'
<1> USE DEF IInv
<1>1. ASSUME NEW p \in Procs, BeginOp(p) PROVE TypeOK'
  <2>1. outstanding' \in Nat /\ pc' \in [Procs -> Pcs] /\ wrote' \in [Procs -> SUBSET Blocks]
    BY <1>1, SMTT(30) DEF BeginOp, Goto, TypeOK, Pcs
  <2> QED
    BY <1>1, <2>1, Zenon DEF BeginOp, TypeOK, durables
<1>2. ASSUME NEW p \in Procs, NEW b \in Blocks, NEW d \in Data, LogWrite(p, b, d) PROVE TypeOK'
  <2>1. CASE TooBig \/ outstanding < 1
    BY <1>2, <2>1, Zenon DEF LogWrite, Panic, TypeOK, durables, memory
  <2>2. CASE ~(TooBig \/ outstanding < 1)
    <3>0. /\ lh' = IF Logged(b, lh) THEN lh ELSE Append(lh, b)
          /\ cache' = [cache EXCEPT ![b] = d]
          /\ dirty' = dirty \cup {b}
          /\ wrote' = [wrote EXCEPT ![p] = @ \cup {b}]
      BY <1>2, <2>2, Zenon DEF LogWrite
    <3>1. lh' \in Seq(Blocks) /\ Len(lh') <= LOGSIZE
      BY <2>2, <3>0 DEF TooBig, TypeOK
    <3>2. cache' \in [Blocks -> Data] /\ dirty' \in SUBSET Blocks /\ wrote' \in [Procs -> SUBSET Blocks]
      BY <3>0, Zenon DEF TypeOK
    <3> QED
      BY <1>2, <2>2, <3>1, <3>2, Zenon DEF LogWrite, TypeOK, durables
  <2> QED
    BY <2>1, <2>2
<1>3. ASSUME NEW p \in Procs, EndOp(p) PROVE TypeOK'
  <2>1. CASE committing
    BY <1>3, <2>1, Zenon DEF EndOp, Panic, TypeOK, durables, memory
  <2>2. CASE ~committing
    <3>1. outstanding' \in Nat
      <4>1. Active # {}
        BY <1>3, Zenon DEF EndOp, Active
      <4> QED
        BY <1>3, <2>2, <4>1, ActiveFinite, FS_EmptySet DEF EndOp, CountInv
    <3>2. pc' \in [Procs -> Pcs]
      <4>1. \A l \in Pcs : [pc EXCEPT ![p] = l] \in [Procs -> Pcs]
        BY Zenon DEF TypeOK
      <4>2. {"idle", "done", "write_log"} \subseteq Pcs
        BY DEF Pcs, CommitSteps
      <4> QED
        BY <1>3, <2>2, <4>1, <4>2, WakeupKeeps DEF EndOp
    <3>3. committing' \in BOOLEAN
      BY <1>3, <2>2 DEF EndOp
    <3> QED
      BY <1>3, <2>2, <3>1, <3>2, <3>3 DEF EndOp, TypeOK, durables
  <2> QED
    BY <2>1, <2>2
<1>4. ASSUME NEW p \in Procs, WriteLog(p) PROVE TypeOK'
  <2>1. tail + 1 \in 1..Len(lh) /\ lh[tail + 1] \in Blocks
    BY <1>4 DEF WriteLog, TypeOK, TailInv
  <2>2. slots' \in [1..LOGSIZE -> Data]
    BY <1>4, <2>1, Zenon DEF WriteLog, Current, TypeOK
  <2>3. tail' \in 0..LOGSIZE
    BY <1>4, <2>1 DEF WriteLog, TypeOK
  <2>4. pc' \in [Procs -> Pcs]
    BY <1>4, Zenon DEF WriteLog, Goto, TypeOK, Pcs, CommitSteps
  <2> QED
    BY <1>4, <2>2, <2>3, <2>4, Zenon DEF WriteLog, TypeOK, memory
<1>5. ASSUME NEW p \in Procs, WriteHead(p) PROVE TypeOK'
  BY <1>5, Zenon DEF WriteHead, Goto, TypeOK, Pcs, CommitSteps, memory
<1>6. ASSUME NEW p \in Procs, InstallTrans(p) PROVE TypeOK'
  BY <1>6, SMTT(30) DEF InstallTrans, Install, Goto, TypeOK, Pcs, CommitSteps, TailInv
<1>7. ASSUME NEW p \in Procs, ClearLog(p) PROVE TypeOK'
  BY <1>7 DEF ClearLog, Goto, TypeOK, Pcs, CommitSteps
<1>8. ASSUME NEW p \in Procs, EndCommit(p) PROVE TypeOK'
  BY <1>8, WakeupKeeps, Zenon DEF EndCommit, TypeOK, Pcs, durables
<1>9. ASSUME Crash PROVE TypeOK'
  <2>1. lh' \in Seq(Blocks) /\ Len(lh') <= LOGSIZE
    BY <1>9 DEF Crash
  <2>2. committing' \in BOOLEAN /\ panicked' \in BOOLEAN
    BY <1>9, Zenon DEF Crash
  <2>3. pc' \in [Procs -> Pcs] /\ wrote' \in [Procs -> SUBSET Blocks] /\ dirty' \in SUBSET Blocks
    BY <1>9 DEF Crash, Pcs
  <2>4. outstanding' \in Nat /\ tail' \in 0..LOGSIZE /\ phase' \in Phases /\ crashes' \in 0..MaxCrashes
    BY <1>9 DEF Crash, TypeOK, Phases
  <2> QED
    BY <1>9, <2>1, <2>2, <2>3, <2>4, Zenon DEF Crash, TypeOK, durables
<1>10. ASSUME Recovery PROVE TypeOK'
  <2>1. ASSUME ReadHead PROVE TypeOK'
    BY <2>1 DEF ReadHead, TypeOK, Phases, durables
  <2>2. ASSUME RecoverInstall PROVE TypeOK'
    BY <2>2 DEF RecoverInstall, Install, TypeOK, Phases, TailInv
  <2>3. ASSUME RecoverClear PROVE TypeOK'
    BY <2>3 DEF RecoverClear, TypeOK, Phases
  <2> QED
    BY <1>10, <2>1, <2>2, <2>3 DEF Recovery
<1>11. ASSUME UNCHANGED vars PROVE TypeOK'
  BY <1>11, Zenon DEF vars, TypeOK
<1> QED
  BY <1>1, <1>2, <1>3, <1>4, <1>5, <1>6, <1>7, <1>8, <1>9, <1>10, <1>11 DEF Next, ProcStep

\* A step of the committer leaves the other processes where they are.
LEMMA CommitterMoves ==
  ASSUME IInv, NEW p \in Procs, pc[p] \in CommitSteps, NEW l \in CommitSteps,
         \/ Goto(p, l)
         \/ pc' = pc
  PROVE  /\ Active' = Active /\ Active = {} /\ Committers' = Committers /\ Committers = {p}
         /\ committing /\ phase = "run"
         /\ \A q \in Procs : q # p => pc'[q] = pc[q] /\ pc[q] \notin CommitSteps
<1>1. p \in Committers
  BY Zenon DEF Committers
<1>2. Committers = {p} /\ Active = {} /\ committing /\ phase = "run"
  BY <1>1, Zenon DEF IInv, CommitInv
<1>3. \A q \in Procs : q # p => pc'[q] = pc[q] /\ pc[q] \notin CommitSteps
  BY <1>2, Zenon DEF IInv, TypeOK, Goto, Committers
<1>4. pc'[p] \in CommitSteps
  BY Zenon DEF IInv, TypeOK, Goto
<1>5. Active' = Active /\ Committers' = Committers
  BY <1>3, <1>4, <1>2, Zenon DEF Active, Committers, CommitSteps
<1> QED
  BY <1>2, <1>3, <1>5

LEMMA NextIInv == IInv /\ [Next]_vars => IInv'
<1> SUFFICES ASSUME IInv, [Next]_vars PROVE IInv'
  OBVIOUS
<1>0. TypeOK' /\ TypeOK
  BY TypeStep DEF IInv
<1>a. IsFiniteSet(Active) /\ Cardinality(Active) \in Nat
  BY ActiveFinite
<1>1. ASSUME NEW p \in Procs, BeginOp(p) PROVE IInv'
  <2>1. CASE NoRoom
    <3>1. pc' = [pc EXCEPT ![p] = "asleep"] /\ pc[p] \in {"idle", "begin"}
          /\ UNCHANGED <<outstanding, committing, wrote, lh, tail, phase>>
      BY <1>1, <2>1, Zenon DEF BeginOp, Goto
    <3>2. Active' = Active /\ Committers' = Committers
      BY <1>0, <3>1, Zenon DEF Active, Committers, CommitSteps, TypeOK
    <3> QED
      BY <1>0, <3>1, <3>2, Zenon DEF IInv, TypeOK, TailInv, CountInv, CommitInv, OpInv
  <2>2. CASE ~NoRoom
    <3>1. pc' = [pc EXCEPT ![p] = "op"] /\ pc[p] \in {"idle", "begin"}
          /\ outstanding' = outstanding + 1 /\ wrote' = [wrote EXCEPT ![p] = {}]
          /\ UNCHANGED <<committing, lh, tail, phase>> /\ phase = "run" /\ ~committing
      BY <1>1, <2>2, Zenon DEF BeginOp, Goto, NoRoom, Running
    <3>2. Active' = Active \cup {p} /\ p \notin Active /\ Committers' = Committers
      BY <1>0, <3>1 DEF Active, Committers, CommitSteps, TypeOK
    <3>3. CountInv'
      BY <1>a, <3>1, <3>2, FS_AddElement, Zenon DEF IInv, CountInv
    <3>4. OpInv'
      BY <1>0, <3>1, FS_EmptySet DEF IInv, OpInv, TypeOK
    <3>5. TailInv'
      BY <1>0, <3>1, Zenon DEF IInv, TailInv, TypeOK
    <3>6. CommitInv'
      BY <1>0, <3>1, <3>2, Zenon DEF IInv, CommitInv, TypeOK
    <3> QED
      BY <1>0, <3>3, <3>4, <3>5, <3>6 DEF IInv
  <2> QED
    BY <2>1, <2>2
<1>2. ASSUME NEW p \in Procs, NEW b \in Blocks, NEW d \in Data, LogWrite(p, b, d) PROVE IInv'
  <2>1. CASE TooBig \/ outstanding < 1
    BY <1>0, <1>2, <2>1, Zenon DEF LogWrite, Panic, memory, IInv, TailInv, CountInv, CommitInv, OpInv, Active, Committers
  <2>2. CASE ~(TooBig \/ outstanding < 1)
    <3>1. /\ pc[p] = "op" /\ phase = "run"
          /\ b \in wrote[p] \/ Cardinality(wrote[p]) < OpBlocks
          /\ lh' = IF Logged(b, lh) THEN lh ELSE Append(lh, b)
          /\ wrote' = [wrote EXCEPT ![p] = @ \cup {b}]
          /\ UNCHANGED <<outstanding, committing, pc, tail, phase>>
      BY <1>2, <2>2, Zenon DEF LogWrite, Running
    <3>2. Active' = Active /\ Committers' = Committers /\ p \in Active
      BY <3>1, Zenon DEF Active, Committers
    <3>3. Committers = {} /\ ~committing
      BY <3>2, Zenon DEF IInv, CommitInv
    <3>4. OpInv'
      <4>0. IsFiniteSet(wrote[p]) /\ Cardinality(wrote[p]) \in Nat /\ Cardinality(wrote[p]) <= OpBlocks
        BY FS_CardinalityType, Zenon DEF IInv, OpInv
      <4>1. IsFiniteSet(wrote[p] \cup {b}) /\ Cardinality(wrote[p] \cup {b}) <= OpBlocks
        <5>1. CASE b \in wrote[p]
          <6>1. wrote[p] \cup {b} = wrote[p]
            BY <5>1, Zenon
          <6> QED
            BY <4>0, <6>1, Zenon
        <5>2. CASE b \notin wrote[p]
          <6>1. IsFiniteSet(wrote[p] \cup {b}) /\ Cardinality(wrote[p] \cup {b}) = Cardinality(wrote[p]) + 1
            BY <4>0, <5>2, FS_AddElement, Zenon
          <6> QED
            BY <3>1, <4>0, <5>2, <6>1
        <5> QED
          BY <5>1, <5>2, Zenon
      <4> QED
        BY <1>0, <3>1, <4>1, Zenon DEF IInv, OpInv, TypeOK
    <3>5. TailInv' /\ CountInv'
      BY <3>1, <3>2, <3>3, Zenon DEF IInv, TailInv, CountInv, Committers, CommitSteps
    <3>6. CommitInv'
      <4>1. \A q \in Procs : pc'[q] # "done"
        BY <3>1, <3>3, Zenon DEF Committers, CommitSteps
      <4> QED
        BY <3>1, <3>2, <3>3, <4>1, Zenon DEF CommitInv
    <3> QED
      BY <1>0, <3>4, <3>5, <3>6, Zenon DEF IInv
  <2> QED
    BY <2>1, <2>2, Zenon
<1>3. ASSUME NEW p \in Procs, EndOp(p) PROVE IInv'
  <2>1. p \in Active /\ phase = "run" /\ pc[p] = "op"
    BY <1>3, Zenon DEF EndOp, Active, Running
  <2>2. ~committing /\ Committers = {}
    BY <2>1, Zenon DEF IInv, CommitInv
  <2>3. Active' = Active \ {p}
    <3>1. \A f \in [Procs -> Pcs] : \A q \in Procs : Wakeup(f)[q] = "op" <=> f[q] = "op"
      BY WakeupKeeps DEF Pcs
    <3>2. \A l \in Pcs : [pc EXCEPT ![p] = l] \in [Procs -> Pcs]
      BY <1>0, Zenon DEF TypeOK
    <3>3. \A q \in Procs : pc'[q] = "op" <=> (pc[q] = "op" /\ q # p)
      <4>1. {"idle", "done", "write_log"} \subseteq Pcs
        BY Zenon DEF Pcs, CommitSteps
      <4>2. \A l \in Pcs : \A q \in Procs : [pc EXCEPT ![p] = l][q] = IF q = p THEN l ELSE pc[q]
        BY <1>0, Zenon DEF TypeOK
      <4>3. \/ pc' = Wakeup([pc EXCEPT ![p] = "idle"])
            \/ pc' = [pc EXCEPT ![p] = "done"]
            \/ pc' = [pc EXCEPT ![p] = "write_log"]
        BY <1>3, <2>2, Zenon DEF EndOp
      <4> QED
        BY <3>1, <3>2, <4>1, <4>2, <4>3
    <3> QED
      BY <3>3 DEF Active
  <2>4. /\ outstanding' = outstanding - 1 /\ tail' = 0
        /\ committing' = (outstanding = 1)
        /\ UNCHANGED <<lh, wrote, phase>>
    BY <1>3, <2>2, Zenon DEF EndOp
  <2>5. CountInv' /\ Cardinality(Active) > 0
    <3>1. Cardinality(Active \ {p}) = Cardinality(Active) - 1
      BY <1>a, <2>1, FS_RemoveElement, Zenon
    <3>2. Cardinality(Active) # 0
      BY <1>a, <2>1, FS_EmptySet, Zenon
    <3> QED
      BY <1>a, <2>3, <2>4, <3>1, <3>2 DEF IInv, CountInv
  <2>6. OpInv'
    BY <2>4, Zenon DEF IInv, OpInv
  <2>7. CASE outstanding # 1
    <3>1. pc' = Wakeup([pc EXCEPT ![p] = "idle"]) /\ committing' = FALSE
      BY <1>3, <2>2, <2>7, Zenon DEF EndOp
    <3>2. [pc EXCEPT ![p] = "idle"] \in [Procs -> Pcs]
      BY <1>0, Zenon DEF TypeOK, Pcs
    <3>3. \A q \in Procs : pc'[q] \notin CommitSteps
      <4>1. \A q \in Procs : [pc EXCEPT ![p] = "idle"][q] \notin CommitSteps
        BY <1>0, <2>2, Zenon DEF TypeOK, Committers, CommitSteps
      <4> QED
        BY <3>1, <3>2, <4>1, WakeupEnters, Zenon
    <3>4. Committers' = {}
      BY <3>3, Zenon DEF Committers
    <3>5. Active' # {}
      <4>1. Cardinality(Active') # 0
        BY <1>0, <2>4, <2>5, <2>7 DEF CountInv, TypeOK
      <4> QED
        BY <4>1, FS_EmptySet, Zenon
    <3>6. CommitInv'
      BY <2>1, <2>4, <3>1, <3>3, <3>4, <3>5, Zenon DEF CommitInv, CommitSteps
    <3>7. TailInv'
      BY <2>1, <2>4, <3>3, Zenon DEF TailInv, CommitSteps
    <3> QED
      BY <1>0, <2>5, <2>6, <3>6, <3>7, Zenon DEF IInv
  <2>8. CASE outstanding = 1
    <3>1. pc' = [pc EXCEPT ![p] = IF lh = <<>> THEN "done" ELSE "write_log"] /\ committing' = TRUE
      BY <1>3, <2>2, <2>8, Zenon DEF EndOp
    <3>2. Committers' = {p}
      BY <1>0, <2>2, <3>1 DEF TypeOK, Committers, CommitSteps
    <3>3. Active' = {}
      <4>1. Cardinality(Active') = 0 /\ IsFiniteSet(Active')
        BY <2>3, <2>4, <2>5, <2>8, <1>a, FS_RemoveElement DEF CountInv
      <4> QED
        BY <4>1, FS_EmptySet, Zenon
    <3>4. \A q \in Procs : q # p => pc'[q] \notin CommitSteps
      BY <3>2, Zenon DEF Committers
    <3>5. CommitInv'
      <4>1. \A q \in Procs : pc'[q] = "done" => lh' = <<>>
        BY <1>0, <2>4, <3>1, <3>4 DEF TypeOK, CommitSteps
      <4> QED
        BY <2>1, <2>4, <3>1, <3>2, <3>3, <4>1, Zenon DEF CommitInv
    <3>6. TailInv'
      <4>1. lh # <<>> => Len(lh) > 0
        BY <1>0 DEF TypeOK
      <4> QED
        BY <1>0, <2>1, <2>4, <3>1, <3>4, <4>1 DEF TailInv, TypeOK, CommitSteps
    <3> QED
      BY <1>0, <2>5, <2>6, <3>5, <3>6, Zenon DEF IInv
  <2> QED
    BY <2>7, <2>8
<1>4. ASSUME NEW p \in Procs, WriteLog(p) PROVE IInv'
  <2>1. /\ pc[p] \in CommitSteps /\ pc[p] = "write_log"
        /\ pc' = pc \/ Goto(p, "write_head")
        /\ tail + 1 < Len(lh) => tail' = tail + 1
        /\ tail + 1 >= Len(lh) => tail' = 0 /\ Goto(p, "write_head")
        /\ UNCHANGED <<lh, outstanding, committing, wrote, phase>>
    BY <1>0, <1>4 DEF WriteLog, TypeOK, memory, CommitSteps
  <2>2. /\ Active' = Active /\ Active = {} /\ Committers' = Committers /\ Committers = {p}
        /\ committing /\ phase = "run"
        /\ \A q \in Procs : q # p => pc'[q] = pc[q] /\ pc[q] \notin CommitSteps
    BY <2>1, CommitterMoves, Zenon DEF CommitSteps
  <2>3. TailInv'
    <3>1. Len(lh) > 0 /\ tail' < Len(lh)
      BY <1>0, <2>1 DEF IInv, TailInv, TypeOK
    <3> QED
      BY <2>1, <2>2, <3>1, Zenon DEF TailInv, CommitSteps
  <2>4. CountInv' /\ OpInv'
    BY <2>1, <2>2, Zenon DEF IInv, CountInv, OpInv
  <2>5. CommitInv'
    BY <1>0, <2>1, <2>2, Zenon DEF CommitInv, TypeOK, Goto, CommitSteps
  <2> QED
    BY <1>0, <2>3, <2>4, <2>5, Zenon DEF IInv
<1>5. ASSUME NEW p \in Procs, WriteHead(p) PROVE IInv'
  <2>1. /\ pc[p] \in CommitSteps /\ pc[p] = "write_head" /\ Goto(p, "install")
        /\ UNCHANGED <<lh, outstanding, committing, wrote, tail, phase>>
    BY <1>5, Zenon DEF WriteHead, memory, CommitSteps
  <2>2. /\ Active' = Active /\ Active = {} /\ Committers' = Committers /\ Committers = {p}
        /\ committing /\ phase = "run"
        /\ \A q \in Procs : q # p => pc'[q] = pc[q] /\ pc[q] \notin CommitSteps
    BY <2>1, CommitterMoves, Zenon DEF CommitSteps
  <2>3. TailInv'
    BY <1>0, <2>1, <2>2, Zenon DEF IInv, TailInv, TypeOK, Goto, CommitSteps
  <2>4. CountInv' /\ OpInv'
    BY <2>1, <2>2, Zenon DEF IInv, CountInv, OpInv
  <2>5. CommitInv'
    BY <1>0, <2>1, <2>2, Zenon DEF CommitInv, TypeOK, Goto, CommitSteps
  <2> QED
    BY <1>0, <2>3, <2>4, <2>5 DEF IInv
<1>6. ASSUME NEW p \in Procs, InstallTrans(p) PROVE IInv'
  <2>1. /\ pc[p] \in CommitSteps /\ pc[p] = "install"
        /\ pc' = pc \/ Goto(p, "clear")
        /\ tail + 1 < Len(lh) => tail' = tail + 1
        /\ tail + 1 >= Len(lh) => tail' = 0 /\ Goto(p, "clear")
        /\ UNCHANGED <<lh, outstanding, committing, wrote, phase>>
    BY <1>0, <1>6 DEF InstallTrans, Install, TypeOK, CommitSteps
  <2>2. /\ Active' = Active /\ Active = {} /\ Committers' = Committers /\ Committers = {p}
        /\ committing /\ phase = "run"
        /\ \A q \in Procs : q # p => pc'[q] = pc[q] /\ pc[q] \notin CommitSteps
    BY <2>1, CommitterMoves, Zenon DEF CommitSteps
  <2>3. TailInv'
    <3>1. Len(lh) > 0 /\ tail' < Len(lh)
      BY <1>0, <2>1 DEF IInv, TailInv, TypeOK
    <3> QED
      BY <2>1, <2>2, <3>1, Zenon DEF TailInv, CommitSteps
  <2>4. CountInv' /\ OpInv'
    BY <2>1, <2>2, Zenon DEF IInv, CountInv, OpInv
  <2>5. CommitInv'
    BY <1>0, <2>1, <2>2, Zenon DEF CommitInv, TypeOK, Goto, CommitSteps
  <2> QED
    BY <1>0, <2>3, <2>4, <2>5, Zenon DEF IInv
<1>7. ASSUME NEW p \in Procs, ClearLog(p) PROVE IInv'
  <2>1. /\ pc[p] \in CommitSteps /\ Goto(p, "done") /\ lh' = <<>>
        /\ UNCHANGED <<outstanding, committing, wrote, tail, phase>>
    BY <1>7, Zenon DEF ClearLog, CommitSteps
  <2>2. /\ Active' = Active /\ Active = {} /\ Committers' = Committers /\ Committers = {p}
        /\ committing /\ phase = "run"
        /\ \A q \in Procs : q # p => pc'[q] = pc[q] /\ pc[q] \notin CommitSteps
    BY <2>1, CommitterMoves, Zenon DEF CommitSteps
  <2>3. TailInv'
    <3>1. pc'[p] = "done"
      BY <1>0, <2>1, Zenon DEF TypeOK, Goto
    <3> QED
      BY <2>1, <2>2, <3>1, Zenon DEF TailInv, CommitSteps
  <2>4. CountInv' /\ OpInv'
    BY <2>1, <2>2, Zenon DEF IInv, CountInv, OpInv
  <2>5. CommitInv'
    BY <2>1, <2>2, Zenon DEF CommitInv
  <2> QED
    BY <1>0, <2>3, <2>4, <2>5 DEF IInv
<1>8. ASSUME NEW p \in Procs, EndCommit(p) PROVE IInv'
  <2>1. /\ pc[p] = "done" /\ pc' = Wakeup([pc EXCEPT ![p] = "idle"]) /\ committing' = FALSE
        /\ UNCHANGED <<lh, outstanding, wrote, tail, phase>>
    BY <1>8, Zenon DEF EndCommit
  <2>2. Active = {} /\ Committers = {p} /\ phase = "run" /\ lh = <<>>
    BY <2>1, Zenon DEF IInv, CommitInv, Committers, CommitSteps
  <2>3. \A q \in Procs : pc'[q] \notin CommitSteps \cup {"op"}
    <3>1. [pc EXCEPT ![p] = "idle"] \in [Procs -> Pcs]
      BY <1>0 DEF TypeOK, Pcs
    <3>2. \A q \in Procs : [pc EXCEPT ![p] = "idle"][q] \notin CommitSteps \cup {"op"}
      BY <1>0, <2>2, Zenon DEF TypeOK, Committers, Active, CommitSteps
    <3> QED
      BY <2>1, <3>1, <3>2, WakeupEnters, Zenon
  <2>4. Active' = {} /\ Committers' = {}
    BY <2>3, Zenon DEF Active, Committers
  <2>5. TailInv'
    BY <2>1, <2>2, <2>3, Zenon DEF TailInv, CommitSteps
  <2>6. CountInv' /\ OpInv'
    BY <2>1, <2>2, <2>4, Zenon DEF IInv, CountInv, OpInv
  <2>7. CommitInv'
    BY <2>1, <2>2, <2>4, Zenon DEF CommitInv
  <2> QED
    BY <1>0, <2>5, <2>6, <2>7 DEF IInv
<1>9. ASSUME Crash PROVE IInv'
  <2>1. Active' = {} /\ Committers' = {}
    BY <1>9, Zenon DEF Crash, Active, Committers, CommitSteps
  <2>2. TailInv' /\ CommitInv'
    BY <1>9, <2>1, Zenon DEF Crash, TailInv, CommitInv
  <2>3. CountInv' /\ OpInv'
    BY <1>9, <2>1, FS_EmptySet DEF Crash, CountInv, OpInv
  <2> QED
    BY <1>0, <2>2, <2>3, Zenon DEF IInv
<1>10. ASSUME Recovery PROVE IInv'
  <2>1. phase # "run" /\ Active = {} /\ Committers = {}
    BY <1>10, Zenon DEF Recovery, ReadHead, RecoverInstall, RecoverClear, IInv, CommitInv
  <2>2. UNCHANGED <<pc, wrote, outstanding, committing>>
    BY <1>10, Zenon DEF Recovery, ReadHead, RecoverInstall, RecoverClear, Install
  <2>3. Active' = {} /\ Committers' = {} /\ \A q \in Procs : pc'[q] \notin CommitSteps
    BY <2>1, <2>2, Zenon DEF Active, Committers
  <2>4. CountInv' /\ OpInv'
    BY <2>1, <2>2, <2>3, Zenon DEF IInv, CountInv, OpInv
  <2>5. phase' = "run" => lh' = <<>>
    BY <1>10, Zenon DEF Recovery, ReadHead, RecoverInstall, RecoverClear
  <2>6. CommitInv'
    BY <2>1, <2>2, <2>3, <2>5, Zenon DEF IInv, CommitInv, CommitSteps
  <2>7. phase' = "install" => tail' < Len(lh')
    BY <1>0, <1>10 DEF Recovery, ReadHead, RecoverInstall, RecoverClear, Install, TypeOK
  <2>8. TailInv'
    BY <2>3, <2>7, Zenon DEF TailInv, CommitSteps
  <2> QED
    BY <1>0, <2>4, <2>6, <2>8, Zenon DEF IInv
<1>11. ASSUME UNCHANGED vars PROVE IInv'
  BY <1>0, <1>11, Zenon DEF vars, IInv, TailInv, CountInv, CommitInv, OpInv, Active, Committers
<1> QED
  BY <1>1, <1>2, <1>3, <1>4, <1>5, <1>6, <1>7, <1>8, <1>9, <1>10, <1>11, Zenon DEF Next, ProcStep

LEMMA AlwaysIInv == Spec => []IInv
BY InitIInv, NextIInv, PTL DEF Spec

\* Every variable of the log keeps its type; among them, log.lh and the header
\* on the disk never outgrow the array of LOGSIZE block numbers.
THEOREM TypeCorrect == Spec => []TypeOK
<1>1. IInv => TypeOK
  BY Zenon DEF IInv
<1> QED
  BY <1>1, AlwaysIInv, PTL

-----------------------------------------------------------------------------
\* begin_op never sleeps with nobody left to wake it.
SleepInv == (\E p \in Procs : pc[p] = "asleep") => (outstanding > 0 \/ committing)

LEMMA SleepStep ==
  ASSUME IInv, SleepInv, [Next]_vars
  PROVE  SleepInv'
<1>0. TypeOK
  BY DEF IInv
<1>1. ASSUME NEW p \in Procs, BeginOp(p) PROVE SleepInv'
  <2>1. CASE NoRoom
    <3>1. UNCHANGED <<outstanding, committing>>
      BY <1>1, <2>1, Zenon DEF BeginOp
    <3>2. outstanding > 0 \/ committing
      <4> SUFFICES ASSUME outstanding = 0, ~committing PROVE FALSE
        BY <1>0 DEF TypeOK
      <4>1. Active = {}
        BY ActiveFinite, FS_EmptySet, Zenon DEF IInv, CountInv
      <4>2. lh = <<>> /\ Len(lh) = 0
        BY <1>1, <4>1, Zenon DEF IInv, CommitInv, BeginOp, Running
      <4> QED
        BY <2>1, <4>2 DEF NoRoom
    <3> QED
      BY <3>1, <3>2, Zenon DEF SleepInv
  <2>2. CASE ~NoRoom
    BY <1>0, <1>1, <2>2 DEF BeginOp, SleepInv, TypeOK
  <2> QED
    BY <2>1, <2>2
<1>2. ASSUME NEW p \in Procs, NEW b \in Blocks, NEW d \in Data, LogWrite(p, b, d) PROVE SleepInv'
  BY <1>2, Zenon DEF LogWrite, Panic, memory, SleepInv
<1>3. ASSUME NEW p \in Procs, EndOp(p) PROVE SleepInv'
  <2>1. ~committing
    BY <1>3, Zenon DEF EndOp, IInv, CommitInv, Active
  <2>2. CASE outstanding # 1
    <3>1. [pc EXCEPT ![p] = "idle"] \in [Procs -> Pcs]
      BY <1>0, Zenon DEF TypeOK, Pcs
    <3>2. pc' = Wakeup([pc EXCEPT ![p] = "idle"])
      BY <1>3, <2>1, <2>2, Zenon DEF EndOp
    <3> QED
      BY <3>1, <3>2, WakeupKeeps, Zenon DEF SleepInv
  <2>3. CASE outstanding = 1
    BY <1>3, <2>1, <2>3, Zenon DEF EndOp, SleepInv
  <2> QED
    BY <2>2, <2>3, Zenon
<1>4. ASSUME NEW p \in Procs, WriteLog(p) PROVE SleepInv'
  <2>1. committing /\ committing' = committing
    BY <1>4, Zenon DEF WriteLog, memory, IInv, CommitInv, Committers, CommitSteps
  <2> QED
    BY <2>1, Zenon DEF SleepInv
<1>5. ASSUME NEW p \in Procs, WriteHead(p) PROVE SleepInv'
  <2>1. committing /\ committing' = committing
    BY <1>5, Zenon DEF WriteHead, memory, IInv, CommitInv, Committers, CommitSteps
  <2> QED
    BY <2>1 DEF SleepInv
<1>6. ASSUME NEW p \in Procs, InstallTrans(p) PROVE SleepInv'
  <2>1. committing /\ committing' = committing
    BY <1>6, Zenon DEF InstallTrans, Install, IInv, CommitInv, Committers, CommitSteps
  <2> QED
    BY <2>1 DEF SleepInv
<1>7. ASSUME NEW p \in Procs, ClearLog(p) PROVE SleepInv'
  <2>1. committing /\ committing' = committing
    BY <1>7, Zenon DEF ClearLog, IInv, CommitInv, Committers, CommitSteps
  <2> QED
    BY <2>1 DEF SleepInv
<1>8. ASSUME NEW p \in Procs, EndCommit(p) PROVE SleepInv'
  <2>1. [pc EXCEPT ![p] = "idle"] \in [Procs -> Pcs]
    BY <1>0 DEF TypeOK, Pcs
  <2> QED
    BY <1>8, <2>1, WakeupKeeps, Zenon DEF EndCommit, SleepInv
<1>9. ASSUME Crash PROVE SleepInv'
  BY <1>9, Zenon DEF Crash, SleepInv
<1>10. ASSUME Recovery PROVE SleepInv'
  BY <1>10, Zenon DEF Recovery, ReadHead, RecoverInstall, RecoverClear, Install, SleepInv
<1>11. ASSUME UNCHANGED vars PROVE SleepInv'
  BY <1>11, Zenon DEF vars, SleepInv
<1> QED
  BY <1>1, <1>2, <1>3, <1>4, <1>5, <1>6, <1>7, <1>8, <1>9, <1>10, <1>11, Zenon DEF Next, ProcStep

\* A process asleep in begin_op always leaves behind an operation or a commit
\* whose end_op will call wakeup(&log): the sleep and the wakeup of log.rs
\* cannot miss each other.
THEOREM SleepersAreWoken == Spec => []NoLostWakeup
<1>1. Init => SleepInv
  BY Zenon DEF Init, SleepInv
<1>2. IInv /\ SleepInv /\ [Next]_vars => SleepInv'
  BY SleepStep
<1>3. SleepInv => NoLostWakeup
  BY Zenon DEF SleepInv, NoLostWakeup
<1> QED
  BY <1>1, <1>2, <1>3, AlwaysIInv, PTL DEF Spec

-----------------------------------------------------------------------------
\* What the running operations may still add to the log: one pair for every
\* block begin_op reserved and the operation has not modified yet.
Credit == {t \in Active \X (1..MAXOPBLOCKS) : t[2] > Cardinality(wrote[t[1]])}

\* The log holds the blocks every operation modified, and has room for the
\* blocks still reserved.
CreditInv == /\ \A p \in Active, b \in Blocks : b \in wrote[p] => Logged(b, lh)
             /\ phase = "run" => Len(lh) + Cardinality(Credit) <= LOGSIZE

LEMMA SubsetCard ==
  ASSUME NEW S, NEW T, IsFiniteSet(S), T \subseteq S
  PROVE  /\ IsFiniteSet(T) /\ Cardinality(T) \in Nat /\ Cardinality(S) \in Nat
         /\ Cardinality(T) <= Cardinality(S)
BY FS_Subset, FS_CardinalityType, Zenon

LEMMA ReservedFinite ==
  ASSUME NEW A, IsFiniteSet(A), NEW C, C \subseteq A \X (1..MAXOPBLOCKS)
  PROVE  /\ IsFiniteSet(C) /\ Cardinality(C) \in Nat
         /\ Cardinality(C) <= Cardinality(A) * MAXOPBLOCKS
<1>1. IsFiniteSet(1..MAXOPBLOCKS) /\ Cardinality(1..MAXOPBLOCKS) = MAXOPBLOCKS
  BY FS_Interval
<1>2. IsFiniteSet(A \X (1..MAXOPBLOCKS))
      /\ Cardinality(A \X (1..MAXOPBLOCKS)) = Cardinality(A) * MAXOPBLOCKS
  BY <1>1, FS_Product, Zenon
<1> QED
  BY <1>2, SubsetCard

LEMMA CreditFinite == IsFiniteSet(Credit) /\ Cardinality(Credit) \in Nat
BY ReservedFinite, ActiveFinite, Zenon DEF Credit

\* Outside the admission of an operation and a new block in the log, the
\* reservation only shrinks.
LEMMA CreditKept ==
  ASSUME IInv, CreditInv, Active' \subseteq Active,
         \A p \in Active' : wrote'[p] = wrote[p],
         lh' = lh, phase' = phase
  PROVE  CreditInv'
<1>1. Credit' \subseteq Credit
  BY Zenon DEF Credit
<1>2. Cardinality(Credit') <= Cardinality(Credit) /\ Cardinality(Credit') \in Nat
      /\ Cardinality(Credit) \in Nat
  BY <1>1, CreditFinite, SubsetCard, Zenon
<1>3. phase' = "run" => Len(lh') + Cardinality(Credit') <= LOGSIZE
  BY <1>2 DEF CreditInv, IInv, TypeOK
<1>4. \A p \in Active', b \in Blocks : b \in wrote'[p] => Logged(b, lh')
  BY Zenon DEF CreditInv, Logged
<1> QED
  BY <1>3, <1>4, Zenon DEF CreditInv

LEMMA CreditIdle ==
  ASSUME TypeOK', Active' = {}
  PROVE  CreditInv'
<1>1. Credit' = {}
  BY Zenon DEF Credit
<1>2. Cardinality(Credit') = 0
  BY <1>1, FS_EmptySet, Zenon
<1> QED
  BY <1>2 DEF CreditInv, TypeOK

LEMMA CreditLogWrite ==
  ASSUME SafeOps, IInv, CreditInv, NEW p \in Procs, NEW b \in Blocks, NEW d \in Data,
         LogWrite(p, b, d), ~(TooBig \/ outstanding < 1)
  PROVE  CreditInv'
<1>1. /\ pc[p] = "op" /\ phase = "run"
      /\ b \in wrote[p] \/ Cardinality(wrote[p]) < OpBlocks
      /\ lh' = IF Logged(b, lh) THEN lh ELSE Append(lh, b)
      /\ wrote' = [wrote EXCEPT ![p] = @ \cup {b}]
      /\ UNCHANGED <<pc, phase>>
  BY Zenon DEF LogWrite, Running
<1>2. Active' = Active /\ p \in Active
  BY <1>1, Zenon DEF Active
<1>3. /\ wrote'[p] = wrote[p] \cup {b}
      /\ \A q \in Procs : q # p => wrote'[q] = wrote[q]
      /\ wrote[p] \subseteq Blocks /\ lh \in Seq(Blocks)
  BY <1>1, Zenon DEF IInv, TypeOK
<1>4. IsFiniteSet(wrote[p]) /\ Cardinality(wrote[p]) \in Nat
  BY FS_CardinalityType, Zenon DEF IInv, OpInv
<1>5. \A c \in Blocks : Logged(c, lh) => Logged(c, lh')
  BY <1>1, <1>3 DEF Logged
<1>6. Logged(b, lh')
  BY <1>1, <1>3 DEF Logged
<1>7. \A q \in Active', c \in Blocks : c \in wrote'[q] => Logged(c, lh')
  BY <1>2, <1>3, <1>5, <1>6, Zenon DEF CreditInv, Active
<1>8. Cardinality(wrote'[p]) \in Nat /\ Cardinality(wrote'[p]) >= Cardinality(wrote[p])
  BY <1>3, <1>4, SubsetCard, FS_AddElement, Zenon
<1>9. Len(lh') + Cardinality(Credit') <= LOGSIZE
  <2>1. CASE Logged(b, lh)
    <3>1. Credit' \subseteq Credit
      <4> SUFFICES ASSUME NEW q \in Active, NEW i \in 1..MAXOPBLOCKS, i > Cardinality(wrote'[q])
                   PROVE  i > Cardinality(wrote[q])
        BY <1>2, Zenon DEF Credit
      <4>1. CASE q = p
        BY <1>4, <1>8, <4>1
      <4>2. CASE q # p
        BY <1>3, <4>2, Zenon DEF Active
      <4> QED
        BY <4>1, <4>2, Zenon
    <3>2. Cardinality(Credit') <= Cardinality(Credit) /\ Cardinality(Credit') \in Nat
          /\ Cardinality(Credit) \in Nat
      BY <3>1, CreditFinite, SubsetCard, Zenon
    <3> QED
      BY <1>1, <1>3, <2>1, <3>2 DEF CreditInv
  <2>2. CASE ~Logged(b, lh)
    <3> DEFINE c == Cardinality(wrote[p]) + 1
    <3>1. b \notin wrote[p]
      BY <1>2, <2>2, Zenon DEF CreditInv
    <3>2. Cardinality(wrote'[p]) = c
      BY <1>3, <1>4, <3>1, FS_AddElement, ZenonT(30)
    <3>3. c \in 1..MAXOPBLOCKS
      BY <1>1, <1>4, <3>1 DEF SafeOps
    <3>4. <<p, c>> \in Credit
      BY <1>2, <1>4, <3>3 DEF Credit
    <3>5. Credit' \subseteq Credit \ {<<p, c>>}
      <4> SUFFICES ASSUME NEW q \in Active, NEW i \in 1..MAXOPBLOCKS, i > Cardinality(wrote'[q])
                   PROVE  <<q, i>> \in Credit /\ <<q, i>> # <<p, c>>
        BY <1>2 DEF Credit
      <4>1. CASE q = p
        BY <1>4, <3>2, <4>1 DEF Credit
      <4>2. CASE q # p
        BY <1>3, <4>2, Zenon DEF Credit, Active
      <4> QED
        BY <4>1, <4>2, Zenon
    <3>6. IsFiniteSet(Credit \ {<<p, c>>}) /\ Cardinality(Credit \ {<<p, c>>}) = Cardinality(Credit) - 1
      <4>1. \A t \in Credit : IsFiniteSet(Credit \ {t})
                             /\ Cardinality(Credit \ {t}) = Cardinality(Credit) - 1
        BY CreditFinite, FS_RemoveElement, Zenon
      <4> QED
        BY <3>4, <4>1, Zenon
    <3>7. Cardinality(Credit') <= Cardinality(Credit \ {<<p, c>>}) /\ Cardinality(Credit') \in Nat
      BY <3>5, <3>6, SubsetCard
    <3>8. Len(lh') = Len(lh) + 1
      BY <1>1, <1>3, <2>2
    <3> QED
      BY <1>1, <1>3, <3>6, <3>7, <3>8, CreditFinite DEF CreditInv
  <2> QED
    BY <2>1, <2>2, Zenon
<1> QED
  BY <1>7, <1>9, Zenon DEF CreditInv

LEMMA CreditBeginOp ==
  ASSUME IInv, CreditInv, NEW p \in Procs, BeginOp(p), IInv'
  PROVE  CreditInv'
<1>1. CASE NoRoom
  <2>1. Active' = Active /\ UNCHANGED <<wrote, lh, phase>>
    BY <1>1, Zenon DEF BeginOp, Goto, Active, IInv, TypeOK
  <2> QED
    BY <2>1, CreditKept, Zenon
<1>2. CASE ~NoRoom
  <2>1. /\ pc' = [pc EXCEPT ![p] = "op"] /\ pc[p] # "op" /\ outstanding' = outstanding + 1
        /\ wrote' = [wrote EXCEPT ![p] = {}] /\ UNCHANGED <<lh, phase>>
        /\ Len(lh) + (outstanding + 1) * MAXOPBLOCKS <= LOGSIZE
    BY <1>2 DEF BeginOp, Goto, NoRoom, IInv, TypeOK
  <2>2. \A q \in Active', b \in Blocks : b \in wrote'[q] => Logged(b, lh')
    <3>1. wrote'[p] = {} /\ \A q \in Procs : q # p => wrote'[q] = wrote[q] /\ pc'[q] = pc[q]
      BY <2>1, Zenon DEF IInv, TypeOK
    <3> QED
      BY <2>1, <3>1, Zenon DEF CreditInv, Active
  <2>3. Cardinality(Active') = outstanding + 1
    BY <2>1, Zenon DEF IInv, CountInv
  <2>4. Cardinality(Credit') \in Nat /\ Cardinality(Credit') <= Cardinality(Active') * MAXOPBLOCKS
    <3>1. IsFiniteSet(Active')
      BY FS_Subset, Zenon DEF Active
    <3>2. Credit' \subseteq Active' \X (1..MAXOPBLOCKS)
      BY Zenon DEF Credit
    <3> QED
      BY <3>1, <3>2, ReservedFinite, Zenon
  <2>5. Len(lh') + Cardinality(Credit') <= LOGSIZE
    BY <2>1, <2>3, <2>4, SMTT(30) DEF IInv, TypeOK
  <2> QED
    BY <2>2, <2>5, Zenon DEF CreditInv
<1> QED
  BY <1>1, <1>2, Zenon

LEMMA CreditStep ==
  ASSUME SafeOps, IInv, CreditInv, [Next]_vars
  PROVE  CreditInv'
<1>0. IInv' /\ TypeOK' /\ TypeOK
  BY NextIInv, Zenon DEF IInv
<1>1. ASSUME NEW p \in Procs, BeginOp(p) PROVE CreditInv'
  BY <1>0, <1>1, CreditBeginOp, Zenon
<1>2. ASSUME NEW p \in Procs, NEW b \in Blocks, NEW d \in Data, LogWrite(p, b, d) PROVE CreditInv'
  <2>1. CASE TooBig \/ outstanding < 1
    <3>1. UNCHANGED <<pc, wrote, lh, phase>>
      BY <1>2, <2>1, Zenon DEF LogWrite, Panic, memory
    <3> QED
      BY <3>1, CreditKept, Zenon DEF Active
  <2>2. CASE ~(TooBig \/ outstanding < 1)
    BY <1>2, <2>2, CreditLogWrite, Zenon
  <2> QED
    BY <2>1, <2>2, Zenon
<1>3. ASSUME NEW p \in Procs, EndOp(p) PROVE CreditInv'
  <2>1. ~committing /\ p \in Active
    BY <1>3, Zenon DEF EndOp, IInv, CommitInv, Active
  <2>2. UNCHANGED <<wrote, lh, phase>>
    BY <1>3, <2>1, Zenon DEF EndOp
  <2>3. Active' \subseteq Active
    <3>1. \A l \in Pcs : [pc EXCEPT ![p] = l] \in [Procs -> Pcs]
      BY <1>0, Zenon DEF TypeOK
    <3>2. {"idle", "done", "write_log"} \subseteq Pcs
      BY Zenon DEF Pcs, CommitSteps
    <3>3. \A f \in [Procs -> Pcs] : \A q \in Procs : Wakeup(f)[q] = "op" <=> f[q] = "op"
      BY WakeupKeeps DEF Pcs
    <3>4. \/ pc' = Wakeup([pc EXCEPT ![p] = "idle"])
          \/ pc' = [pc EXCEPT ![p] = "done"]
          \/ pc' = [pc EXCEPT ![p] = "write_log"]
      BY <1>3, <2>1, Zenon DEF EndOp
    <3>5. \A l \in Pcs \ {"op"} : \A q \in Procs : [pc EXCEPT ![p] = l][q] = "op" => pc[q] = "op"
      BY <1>0, Zenon DEF TypeOK
    <3>6. \A q \in Procs : pc'[q] = "op" => pc[q] = "op"
      BY <3>1, <3>2, <3>3, <3>4, <3>5
    <3> QED
      BY <3>6, Zenon DEF Active
  <2> QED
    BY <2>2, <2>3, CreditKept, Zenon
<1>4. ASSUME NEW p \in Procs, WriteLog(p) \/ WriteHead(p) \/ InstallTrans(p) \/ ClearLog(p)
      PROVE  CreditInv'
  <2>1. pc[p] \in CommitSteps /\ \E l \in CommitSteps : Goto(p, l) \/ pc' = pc
    BY <1>4, Zenon DEF WriteLog, WriteHead, InstallTrans, ClearLog, CommitSteps
  <2> QED
    BY <1>0, <2>1, CommitterMoves, CreditIdle, Zenon
<1>5. ASSUME NEW p \in Procs, EndCommit(p) PROVE CreditInv'
  <2>1. [pc EXCEPT ![p] = "idle"] \in [Procs -> Pcs]
    BY <1>0, Zenon DEF TypeOK, Pcs
  <2>2. Active = {}
    BY <1>5, Zenon DEF EndCommit, IInv, CommitInv, Committers, CommitSteps
  <2>3. Active' = {}
    BY <1>0, <1>5, <2>1, <2>2, WakeupKeeps, Zenon DEF EndCommit, Active, TypeOK, Pcs
  <2> QED
    BY <1>0, <2>3, CreditIdle, Zenon
<1>6. ASSUME Crash PROVE CreditInv'
  <2>1. Active' = {}
    BY <1>6, Zenon DEF Crash, Active
  <2> QED
    BY <1>0, <2>1, CreditIdle, Zenon
<1>7. ASSUME Recovery PROVE CreditInv'
  <2>1. Active = {} /\ pc' = pc
    BY <1>7, Zenon DEF Recovery, ReadHead, RecoverInstall, RecoverClear, IInv, CommitInv
  <2> QED
    BY <1>0, <2>1, CreditIdle, Zenon DEF Active
<1>8. ASSUME UNCHANGED vars PROVE CreditInv'
  BY <1>8, CreditKept, Zenon DEF vars, Active
<1> QED
  BY <1>1, <1>2, <1>3, <1>4, <1>5, <1>6, <1>7, <1>8, Zenon DEF Next, ProcStep

\* The last two of the MAXOPBLOCKS blocks reserved for each operation are what
\* keeps log_write's checks from firing.
LEMMA RoomLeft ==
  ASSUME SafeOps, IInv, CreditInv, NEW p \in Active, phase = "run"
  PROVE  ~(TooBig \/ outstanding < 1)
<1> DEFINE S == {p} \X ((OpBlocks + 1)..MAXOPBLOCKS)
<1>1. IsFiniteSet({p}) /\ Cardinality({p}) = 1
  BY FS_Singleton, Zenon
<1>2. IsFiniteSet((OpBlocks + 1)..MAXOPBLOCKS)
      /\ Cardinality((OpBlocks + 1)..MAXOPBLOCKS) = MAXOPBLOCKS - OpBlocks
  BY FS_Interval DEF SafeOps
<1>3. IsFiniteSet(S) /\ Cardinality(S) = MAXOPBLOCKS - OpBlocks
  <2>1. /\ IsFiniteSet(S)
        /\ Cardinality(S) = Cardinality({p}) * Cardinality((OpBlocks + 1)..MAXOPBLOCKS)
    BY <1>1, <1>2, FS_Product, Zenon
  <2>2. MAXOPBLOCKS - OpBlocks \in Int
    BY DEF SafeOps
  <2> QED
    BY <1>1, <1>2, <2>1, <2>2
<1>4. Cardinality(wrote[p]) \in Nat /\ Cardinality(wrote[p]) <= OpBlocks
  BY FS_CardinalityType, Zenon DEF IInv, OpInv, Active
<1>5. S \subseteq Credit
  BY <1>4 DEF Credit
<1>6. Cardinality(S) <= Cardinality(Credit) /\ Cardinality(Credit) \in Nat
  BY <1>5, CreditFinite, SubsetCard, Zenon
<1>7. Len(lh) + (MAXOPBLOCKS - OpBlocks) <= LOGSIZE /\ Len(lh) \in Nat
  BY <1>3, <1>6, SMTT(30) DEF CreditInv, IInv, TypeOK
<1>8. outstanding # 0
  BY ActiveFinite, FS_EmptySet, Zenon DEF IInv, CountInv
<1> QED
  BY <1>7, <1>8 DEF TooBig, SafeOps, IInv, TypeOK

\* When operations keep to SafeOps, the panics of log_write and end_op cannot
\* happen: admission by begin_op always leaves room for every admitted
\* operation, whatever the interleaving, the commits and the crashes.
THEOREM LogNeverPanics == SafeOps => (Spec => []NoPanic)
<1> SUFFICES ASSUME SafeOps PROVE Spec => []NoPanic
  OBVIOUS
<1>1. Init => CreditInv /\ NoPanic
  <2> SUFFICES ASSUME Init PROVE CreditInv /\ NoPanic
    OBVIOUS
  <2>1. Active = {} /\ phase # "run" /\ ~panicked
    BY Zenon DEF Init, Active
  <2> QED
    BY <2>1, Zenon DEF CreditInv, NoPanic
<1>2. IInv /\ CreditInv /\ [Next]_vars => CreditInv'
  BY CreditStep, Zenon
<1>3. IInv /\ CreditInv /\ NoPanic /\ [Next]_vars => NoPanic'
  <2> SUFFICES ASSUME IInv, CreditInv, NoPanic, [Next]_vars PROVE NoPanic'
    OBVIOUS
  <2>1. ASSUME NEW p \in Procs, NEW b \in Blocks, NEW d \in Data, LogWrite(p, b, d) PROVE NoPanic'
    <3>1. p \in Active /\ phase = "run"
      BY <2>1, Zenon DEF LogWrite, Active, Running
    <3>2. ~(TooBig \/ outstanding < 1)
      BY <3>1, RoomLeft, Zenon
    <3> QED
      BY <2>1, <3>2, Zenon DEF LogWrite, NoPanic
  <2>2. ASSUME NEW p \in Procs, EndOp(p) PROVE NoPanic'
    <3>1. ~committing
      BY <2>2, Zenon DEF EndOp, IInv, CommitInv, Active
    <3> QED
      BY <2>2, <3>1, Zenon DEF EndOp, NoPanic
  <2>3. ASSUME NEW p \in Procs, \/ BeginOp(p) \/ WriteLog(p) \/ WriteHead(p)
                                \/ InstallTrans(p) \/ ClearLog(p) \/ EndCommit(p)
        PROVE  NoPanic'
    BY <2>3, Zenon DEF BeginOp, WriteLog, WriteHead, InstallTrans, ClearLog, EndCommit, NoPanic
  <2>4. ASSUME Crash \/ Recovery \/ UNCHANGED vars PROVE NoPanic'
    BY <2>4, Zenon DEF Crash, Recovery, ReadHead, RecoverInstall, RecoverClear, vars, NoPanic
  <2> QED
    BY <2>1, <2>2, <2>3, <2>4, Zenon DEF Next, ProcStep
<1> QED
  BY <1>1, <1>2, <1>3, AlwaysIInv, PTL DEF Spec

-----------------------------------------------------------------------------
(***************************************************************************)
(* The log implements the atomic disk of AtomicDisk.tla.                   *)
(***************************************************************************)

\* A process of the running kernel is at this step of commit().
At(l) == phase = "run" /\ \E p \in Procs : pc[p] = l

\* The header on the disk names a transaction that must be installed.
Committed == At("install") \/ At("clear") \/ phase \in {"install", "clear"}

Distinct(h) == \A i, j \in 1..Len(h) : h[i] = h[j] => i = j

\* The first n blocks of the transaction are in their home places.
Installed(n) == \A i \in 1..n : disk[lh[i]] = slots[i]

\* Blocks m to n of the transaction are in their log slots.
Copied(m, n) == \A i \in 1..Len(lh) : m <= i /\ i <= n => slots[i] = cache[lh[i]]

\* Blocks whose only new copy is the pinned buffer or the log slot.
Pinned(b) == /\ phase = "run" /\ ~At("clear")
             /\ \E i \in 1..Len(lh) : lh[i] = b /\ (At("install") => tail < i)

\* Where the contents of the logged blocks are at each step of commit() and
\* of the recovery.
PlacesInv == /\ At("write_log") => Copied(1, tail)
             /\ At("write_head") => tail = 0 /\ Copied(1, Len(lh))
             /\ At("install") => Installed(tail) /\ Copied(tail + 1, Len(lh))
             /\ phase = "install" => Installed(tail)
             /\ At("clear") \/ phase = "clear" => Installed(Len(lh))

HeadInv == /\ Committed => head = lh
           /\ phase = "run" /\ ~Committed => head = <<>>

DirtyInv == \A b \in Blocks : b \in dirty <=> Pinned(b)

DurInv == Distinct(lh) /\ Distinct(head) /\ PlacesInv /\ HeadInv /\ DirtyInv

-----------------------------------------------------------------------------
\* The committer is alone: where it is decides where the commit is.
LEMMA Stage ==
  ASSUME IInv, NEW p \in Procs, pc[p] \in CommitSteps
  PROVE  /\ phase = "run" /\ Active = {}
         /\ \A l \in CommitSteps : At(l) <=> l = pc[p]
BY DEF IInv, CommitInv, Committers, At

LEMMA StageMoves ==
  ASSUME IInv, NEW p \in Procs, pc[p] \in CommitSteps, NEW m \in CommitSteps,
         Goto(p, m), phase' = phase
  PROVE  /\ Active' = {}
         /\ \A l \in CommitSteps : At(l)' <=> l = m
<1>1. \A q \in Procs : pc[q] \in CommitSteps => q = p
  BY Zenon DEF IInv, CommitInv, Committers
<1>2. phase' = "run" /\ pc' = [pc EXCEPT ![p] = m] /\ pc \in [Procs -> Pcs] /\ Active = {}
  BY Stage DEF Goto, IInv, TypeOK
<1>3. "op" \notin CommitSteps
  BY DEF CommitSteps
<1> QED
  BY <1>1, <1>2, <1>3 DEF At, Active

\* While no process commits, no step of commit() is under way.
LEMMA NoStage ==
  ASSUME Committers = {}, NEW l \in CommitSteps
  PROVE  ~At(l)
BY DEF Committers, At

\* Recovery takes logged blocks from their slots and the others from home.
LEMMA RecoveredLogged ==
  ASSUME Distinct(head), NEW i \in 1..Len(head), head[i] \in Blocks
  PROVE  Recovered[head[i]] = slots[i]
<1>1. Logged(head[i], head)
  BY DEF Logged
<1>2. (CHOOSE j \in 1..Len(head) : head[j] = head[i]) = i
  BY DEF Distinct
<1> QED
  BY <1>1, <1>2, Zenon DEF Recovered

LEMMA RecoveredHome ==
  ASSUME NEW b \in Blocks, ~Logged(b, head)
  PROVE  Recovered[b] = disk[b]
BY DEF Recovered

\* With an empty header the disk is what recovery leaves behind.
LEMMA RecoveredEmpty ==
  ASSUME IInv, head = <<>>
  PROVE  Recovered = disk
<1>1. \A b \in Blocks : ~Logged(b, head)
  BY DEF Logged
<1>2. disk = [b \in Blocks |-> disk[b]]
  BY DEF IInv, TypeOK
<1> QED
  BY <1>1, <1>2 DEF Recovered

\* What the mapping depends on.
LEMMA SameRecovered ==
  ASSUME UNCHANGED durables
  PROVE  Recovered' = Recovered
BY DEF durables, Recovered, Logged

LEMMA SameView ==
  ASSUME UNCHANGED <<durables, cache, dirty, phase>>
  PROVE  Recovered' = Recovered /\ View' = View
BY Zenon DEF durables, Recovered, Logged, View, Current

-----------------------------------------------------------------------------
LEMMA SameDur ==
  ASSUME DurInv, UNCHANGED <<durables, cache, dirty, lh, phase, tail>>,
         \A l \in CommitSteps : At(l)' <=> At(l)
  PROVE  DurInv'
<1>1. /\ At("write_log")' <=> At("write_log")
      /\ At("write_head")' <=> At("write_head")
      /\ At("install")' <=> At("install")
      /\ At("clear")' <=> At("clear")
  BY Zenon DEF CommitSteps
<1>2. Distinct(lh)' /\ Distinct(head)'
  BY DEF DurInv, Distinct, durables
<1>3. PlacesInv'
  BY <1>1, Zenon DEF DurInv, PlacesInv, Copied, Installed, durables
<1>4. HeadInv'
  BY <1>1 DEF DurInv, HeadInv, Committed, durables
<1>5. DirtyInv'
  BY <1>1 DEF DurInv, DirtyInv, Pinned
<1> QED
  BY <1>2, <1>3, <1>4, <1>5 DEF DurInv

\* Steps before the header is written and after it is erased.
LEMMA CalmDur ==
  ASSUME IInv, DurInv, phase = "run", UNCHANGED <<durables, cache, dirty, lh, phase>>,
         \A l \in {"write_head", "install", "clear"} : ~At(l) /\ ~At(l)',
         At("write_log")' => tail' = 0
  PROVE  DurInv'
<1>1. /\ ~At("write_head") /\ ~At("install") /\ ~At("clear")
      /\ ~At("write_head")' /\ ~At("install")' /\ ~At("clear")'
  OBVIOUS
<1>2. Distinct(lh)' /\ Distinct(head)'
  BY DEF DurInv, Distinct, durables
<1>3. PlacesInv'
  <2>1. lh' \in Seq(Blocks) /\ Len(lh') \in Nat
    BY DEF IInv, TypeOK
  <2>2. At("write_log")' => Copied(1, tail)'
    BY <2>1 DEF Copied
  <2> QED
    BY <1>1, <2>2 DEF PlacesInv
<1>4. HeadInv'
  BY <1>1 DEF DurInv, HeadInv, Committed, durables
<1>5. DirtyInv'
  BY <1>1 DEF DurInv, DirtyInv, Pinned
<1> QED
  BY <1>2, <1>3, <1>4, <1>5 DEF DurInv

\* A process that begins an operation, or goes to sleep before it.
LEMMA BeginOpRefines ==
  ASSUME IInv, DurInv, NEW p \in Procs, BeginOp(p)
  PROVE  DurInv' /\ [Abstract!ANext]_(Abstract!avars)
<1>1. /\ pc[p] \in {"idle", "begin"} /\ pc \in [Procs -> Pcs]
      /\ UNCHANGED <<durables, cache, dirty, lh, phase, tail>>
  BY Zenon DEF BeginOp, IInv, TypeOK
<1>2. Recovered' = Recovered /\ View' = View
  BY <1>1, SameView
<1>3. CASE NoRoom
  <2>1. pc' = [pc EXCEPT ![p] = "asleep"]
    BY <1>3, Zenon DEF BeginOp, Goto
  <2>2. Active' = Active /\ \A l \in CommitSteps : At(l)' <=> At(l)
    BY <1>1, <2>1 DEF Active, At, CommitSteps
  <2>3. DurInv'
    BY <1>1, <2>2, SameDur, Zenon
  <2> QED
    BY <1>2, <2>2, <2>3, Zenon DEF Abstract!avars
<1>4. CASE ~NoRoom
  <2>1. pc' = [pc EXCEPT ![p] = "op"]
    BY <1>4, Zenon DEF BeginOp, Goto
  <2>2. /\ p \notin Active /\ Active' = Active \cup {p}
        /\ \A l \in CommitSteps : At(l)' <=> At(l)
    BY <1>1, <2>1, Zenon DEF Active, At, CommitSteps
  <2>3. DurInv'
    BY <1>1, <2>2, SameDur, Zenon
  <2>4. Abstract!Begin(p)
    BY <1>2, <2>2, Zenon DEF Abstract!Begin
  <2> QED
    BY <2>3, <2>4, Zenon DEF Abstract!ANext
<1> QED
  BY <1>3, <1>4

\* A panic leaves the disk and the kernel's memory alone.
LEMMA PanicRefines ==
  ASSUME IInv, DurInv, Panic
  PROVE  DurInv' /\ [Abstract!ANext]_(Abstract!avars)
<1>1. UNCHANGED <<durables, cache, dirty, lh, phase, tail, pc>>
  BY Zenon DEF Panic, memory
<1>2. Active' = Active /\ \A l \in CommitSteps : At(l)' <=> At(l)
  BY <1>1 DEF Active, At
<1> QED
  BY <1>1, <1>2, SameView, SameDur, Zenon DEF Abstract!avars

\* While an operation is running, nobody commits.
LEMMA OpStage ==
  ASSUME IInv, NEW p \in Procs, pc[p] = "op"
  PROVE  /\ phase = "run" /\ p \in Active /\ ~committing /\ Committers = {}
         /\ \A l \in CommitSteps : ~At(l)
<1>1. p \in Active
  BY Zenon DEF Active
<1>2. phase = "run" /\ ~committing /\ Committers = {}
  BY <1>1 DEF IInv, CommitInv
<1> QED
  BY <1>1, <1>2, NoStage

LEMMA LogWriteRefines ==
  ASSUME IInv, DurInv, NEW p \in Procs, NEW b \in Blocks, NEW d \in Data, LogWrite(p, b, d)
  PROVE  DurInv' /\ [Abstract!ANext]_(Abstract!avars)
<1>1. CASE TooBig \/ outstanding < 1
  BY <1>1, PanicRefines, Zenon DEF LogWrite
<1>2. CASE ~(TooBig \/ outstanding < 1)
  <2>1. /\ pc[p] = "op"
        /\ lh' = IF Logged(b, lh) THEN lh ELSE Append(lh, b)
        /\ cache' = [cache EXCEPT ![b] = d]
        /\ dirty' = dirty \cup {b}
        /\ UNCHANGED <<durables, pc, tail, phase>>
    BY <1>2, Zenon DEF LogWrite
  <2>2. phase = "run" /\ p \in Active /\ \A l \in CommitSteps : ~At(l)
    BY <2>1, OpStage, Zenon
  <2>3. Active' = Active /\ \A l \in CommitSteps : ~At(l)'
    BY <2>1, <2>2, Zenon DEF Active, At
  <2>4. /\ ~At("write_log") /\ ~At("write_head") /\ ~At("install") /\ ~At("clear")
        /\ ~At("write_log")' /\ ~At("write_head")' /\ ~At("install")' /\ ~At("clear")'
    BY <2>2, <2>3, Zenon DEF CommitSteps
  <2>5. /\ lh \in Seq(Blocks) /\ lh' \in Seq(Blocks)
        /\ cache \in [Blocks -> Data] /\ dirty \subseteq Blocks
    BY <2>1 DEF IInv, TypeOK
  <2>6. Distinct(lh)' /\ \A c \in Blocks : Logged(c, lh)' <=> Logged(c, lh) \/ c = b
    <3>1. CASE Logged(b, lh)
      BY <2>1, <3>1, SMTT(30) DEF DurInv, Distinct, Logged
    <3>2. CASE ~Logged(b, lh)
      <4>1. /\ Len(lh') = Len(lh) + 1 /\ lh'[Len(lh) + 1] = b
            /\ \A i \in 1..Len(lh) : lh'[i] = lh[i]
        BY <2>1, <2>5, <3>2
      <4> QED
        BY <2>5, <3>2, <4>1, SMTT(30) DEF DurInv, Distinct, Logged
    <3> QED
      BY <3>1, <3>2, Zenon
  <2>7. DurInv'
    <3>1. PlacesInv' /\ HeadInv' /\ Distinct(head)'
      BY <2>1, <2>2, <2>4 DEF DurInv, PlacesInv, HeadInv, Committed, durables, Distinct
    <3>2. \A c \in Blocks : (Pinned(c) <=> Logged(c, lh)) /\ (Pinned(c)' <=> Logged(c, lh)')
      BY <2>1, <2>2, <2>4, Zenon DEF Pinned, Logged
    <3>3. DirtyInv'
      BY <2>1, <2>6, <3>2, Zenon DEF DurInv, DirtyInv
    <3> QED
      BY <2>6, <3>1, <3>3, Zenon DEF DurInv
  <2>8. Abstract!Write(p, b, d)
    <3>1. Recovered' = Recovered
      BY <2>1, SameRecovered, Zenon
    <3>2. \A c \in Blocks : Current(c)' = IF c = b THEN d ELSE Current(c)
      BY <2>1, <2>5, Zenon DEF Current, durables
    <3>3. View' = [View EXCEPT ![b] = d]
      BY <2>1, <2>2, <3>2, Zenon DEF View
    <3> QED
      BY <2>2, <2>3, <3>1, <3>3, Zenon DEF Abstract!Write
  <2> QED
    BY <2>7, <2>8, Zenon DEF Abstract!ANext
<1> QED
  BY <1>1, <1>2

LEMMA EndOpRefines ==
  ASSUME IInv, DurInv, NEW p \in Procs, EndOp(p)
  PROVE  DurInv' /\ [Abstract!ANext]_(Abstract!avars)
<1>1. pc[p] = "op" /\ pc \in [Procs -> Pcs]
  BY Zenon DEF EndOp, IInv, TypeOK
<1>2. /\ phase = "run" /\ p \in Active /\ ~committing /\ Committers = {}
      /\ \A l \in CommitSteps : ~At(l)
  BY <1>1, OpStage
<1>3. /\ pc' = IF outstanding # 1 THEN Wakeup([pc EXCEPT ![p] = "idle"])
               ELSE [pc EXCEPT ![p] = IF lh = <<>> THEN "done" ELSE "write_log"]
      /\ tail' = 0
      /\ UNCHANGED <<durables, cache, dirty, lh, phase>>
  BY <1>2, Zenon DEF EndOp
<1>4. /\ Active' = Active \ {p}
      /\ ~At("write_head")' /\ ~At("install")' /\ ~At("clear")'
  <2>1. \A q \in Procs : pc[q] \notin CommitSteps
    BY <1>2, Zenon DEF Committers
  <2>2. CASE outstanding # 1
    <3> DEFINE f == [pc EXCEPT ![p] = "idle"]
    <3>1. f \in [Procs -> Pcs] /\ pc' = Wakeup(f)
      BY <1>1, <1>3, <2>2, Zenon DEF Pcs
    <3>2. \A q \in Procs : f[q] = IF q = p THEN "idle" ELSE pc[q]
      BY <1>1, Zenon
    <3> HIDE DEF f
    <3>3. \A q \in Procs : \A l \in {"op", "write_head", "install", "clear"} : pc'[q] = l <=> f[q] = l
      <4>1. {"op", "write_head", "install", "clear"} \subseteq Pcs \ {"begin", "asleep"}
        BY Zenon DEF Pcs, CommitSteps
      <4> QED
        BY <3>1, <4>1, WakeupKeeps
    <3> QED
      BY <1>1, <2>1, <3>2, <3>3 DEF Active, At, CommitSteps
  <2>3. CASE outstanding = 1
    BY <1>1, <1>3, <2>1, <2>3 DEF Active, At, CommitSteps
  <2> QED
    BY <2>2, <2>3
<1>5. DurInv'
  <2>1. \A l \in {"write_head", "install", "clear"} : ~At(l) /\ ~At(l)'
    BY <1>2, <1>4, Zenon DEF CommitSteps
  <2> QED
    BY <1>2, <1>3, <2>1, CalmDur, Zenon
<1>6. Abstract!End(p)
  BY <1>2, <1>3, <1>4, SameView, Zenon DEF Abstract!End
<1> QED
  BY <1>5, <1>6, Zenon DEF Abstract!ANext

\* write_log: nothing on the disk counts before the header names it.
LEMMA WriteLogRefines ==
  ASSUME IInv, DurInv, NEW p \in Procs, WriteLog(p)
  PROVE  DurInv' /\ [Abstract!ANext]_(Abstract!avars)
<1> DEFINE n == tail + 1
<1>1. /\ pc[p] = "write_log" /\ pc[p] \in CommitSteps
      /\ slots' = [slots EXCEPT ![n] = Current(lh[n])]
      /\ UNCHANGED <<disk, head, cache, dirty, lh, phase>>
  BY Zenon DEF WriteLog, memory, CommitSteps
<1>2. phase = "run" /\ Active = {} /\ \A l \in CommitSteps : At(l) <=> l = "write_log"
  BY <1>1, Stage
<1>3. /\ At("write_log") /\ ~At("write_head") /\ ~At("install") /\ ~At("clear")
      /\ head = <<>>
  BY <1>2, Zenon DEF CommitSteps, DurInv, HeadInv, Committed
<1>4. /\ lh \in Seq(Blocks) /\ Len(lh) \in Nat /\ Len(lh) <= LOGSIZE
      /\ tail \in Nat /\ n \in 1..Len(lh) /\ slots \in [1..LOGSIZE -> Data]
  BY <1>1 DEF IInv, TypeOK, TailInv
<1>5. Current(lh[n]) = cache[lh[n]]
  <2>1. lh[n] \in Blocks /\ Pinned(lh[n])
    BY <1>2, <1>3, <1>4 DEF Pinned
  <2> QED
    BY <2>1, Zenon DEF DurInv, DirtyInv, Current
<1>6. \A i \in 1..Len(lh) : i <= n => slots'[i] = cache'[lh'[i]]
  <2> SUFFICES ASSUME NEW i \in 1..Len(lh), i <= n PROVE slots'[i] = cache[lh[i]]
    BY <1>1, Zenon
  <2>1. i \in 1..LOGSIZE /\ 1 <= i /\ (i = n \/ i <= tail)
    BY <1>4, LogConstants DEF LogConstants
  <2>2. CASE i = n
    BY <1>1, <1>4, <1>5, <2>1, <2>2, Zenon
  <2>3. CASE i # n
    <3>1. Copied(1, tail)
      BY <1>3, Zenon DEF DurInv, PlacesInv
    <3>2. slots[i] = cache[lh[i]]
      BY <2>1, <2>3, <3>1 DEF Copied
    <3> QED
      BY <1>1, <1>4, <2>1, <2>3, <3>2, Zenon
  <2> QED
    BY <2>2, <2>3, Zenon
<1>7. Recovered' = Recovered /\ View' = View
  <2>1. Recovered' = Recovered
    BY <1>1, <1>3 DEF Recovered, Logged
  <2> QED
    BY <1>1, <2>1, Zenon DEF View, Current
<1>8. Distinct(lh)' /\ Distinct(head)'
  BY <1>1 DEF DurInv, Distinct
<1>9. CASE n < Len(lh)
  <2>1. tail' = n /\ pc' = pc
    BY <1>9, Zenon DEF WriteLog
  <2>2. /\ At("write_log")' /\ ~At("write_head")' /\ ~At("install")' /\ ~At("clear")'
        /\ Active' = Active
    BY <1>1, <1>3, <2>1 DEF At, Active
  <2>3. PlacesInv'
    BY <1>1, <1>2, <1>6, <2>1, <2>2, Zenon DEF PlacesInv, Copied
  <2>4. HeadInv' /\ DirtyInv'
    BY <1>1, <1>2, <1>3, <2>2, Zenon DEF HeadInv, Committed, DirtyInv, Pinned, DurInv
  <2> QED
    BY <1>7, <1>8, <2>2, <2>3, <2>4 DEF DurInv, Abstract!avars
<1>10. CASE ~(n < Len(lh))
  <2>1. tail' = 0 /\ Goto(p, "write_head") /\ n = Len(lh)
    BY <1>4, <1>10, SMTT(30) DEF WriteLog
  <2>2. Active' = {} /\ \A l \in CommitSteps : At(l)' <=> l = "write_head"
    BY <1>1, <2>1, StageMoves, Zenon DEF CommitSteps
  <2>3. ~At("write_log")' /\ ~At("install")' /\ ~At("clear")'
    BY <2>2, Zenon DEF CommitSteps
  <2>4. PlacesInv'
    BY <1>1, <1>2, <1>4, <1>6, <2>1, <2>3, Zenon DEF PlacesInv, Copied
  <2>5. HeadInv' /\ DirtyInv'
    BY <1>1, <1>2, <1>3, <2>3, Zenon DEF HeadInv, Committed, DirtyInv, Pinned, DurInv
  <2> QED
    BY <1>2, <1>7, <1>8, <2>2, <2>4, <2>5, Zenon DEF DurInv, Abstract!avars
<1> QED
  BY <1>9, <1>10, Zenon

\* write_head: the transaction becomes durable in one step.
LEMMA WriteHeadRefines ==
  ASSUME IInv, DurInv, NEW p \in Procs, WriteHead(p)
  PROVE  DurInv' /\ [Abstract!ANext]_(Abstract!avars)
<1>1. /\ pc[p] = "write_head" /\ pc[p] \in CommitSteps
      /\ head' = lh /\ Goto(p, "install")
      /\ UNCHANGED <<disk, slots, cache, dirty, lh, phase, tail>>
  BY Zenon DEF WriteHead, memory, CommitSteps
<1>2. phase = "run" /\ Active = {} /\ \A l \in CommitSteps : At(l) <=> l = "write_head"
  BY <1>1, Stage
<1>3. Active' = {} /\ \A l \in CommitSteps : At(l)' <=> l = "install"
  BY <1>1, StageMoves, Zenon DEF CommitSteps
<1>4. /\ At("write_head") /\ ~At("install") /\ ~At("clear")
      /\ At("install")' /\ ~At("write_log")' /\ ~At("write_head")' /\ ~At("clear")'
  BY <1>2, <1>3, Zenon DEF CommitSteps
<1>5. /\ tail = 0 /\ tail' = 0 /\ lh \in Seq(Blocks) /\ Len(lh) \in Nat
      /\ \A i \in 1..Len(lh) : slots[i] = cache[lh[i]]
  BY <1>1, <1>4 DEF IInv, TypeOK, DurInv, PlacesInv, Copied
<1>6. Distinct(lh)' /\ Distinct(head)'
  BY <1>1, SMTT(30) DEF DurInv, Distinct
<1>7. PlacesInv'
  BY <1>1, <1>2, <1>4, <1>5 DEF PlacesInv, Copied, Installed
<1>8. HeadInv'
  BY <1>1, <1>4, Zenon DEF HeadInv, Committed
<1>9. \A b \in Blocks : b \in dirty <=> Logged(b, lh)
  BY <1>2, <1>4, Zenon DEF DurInv, DirtyInv, Pinned, Logged
<1>10. DirtyInv'
  BY <1>1, <1>2, <1>4, <1>5, <1>9 DEF DirtyInv, Pinned, Logged
<1>11. Recovered' = View
  <2>1. ASSUME NEW b \in Blocks PROVE Recovered'[b] = Current(b)
    <3>1. CASE Logged(b, lh)
      <4>1. PICK i \in 1..Len(lh) : lh[i] = b
        BY <3>1, Zenon DEF Logged
      <4>2. Recovered'[b] = slots'[i]
        <5>1. i \in 1..Len(head') /\ head'[i] = b /\ Logged(b, head')
          BY <1>1, <4>1, Zenon DEF Logged
        <5>2. (CHOOSE j \in 1..Len(head') : head'[j] = b) = i
          BY <1>1, <4>1, Zenon DEF DurInv, Distinct
        <5> QED
          BY <5>1, <5>2, Zenon DEF Recovered, Logged
      <4> QED
        BY <1>1, <1>5, <1>9, <3>1, <4>1, <4>2, Zenon DEF Current
    <3>2. CASE ~Logged(b, lh)
      BY <1>1, <1>9, <3>2, Zenon DEF Current, Recovered, Logged
    <3> QED
      BY <3>1, <3>2, Zenon
  <2>2. Recovered' = [b \in Blocks |-> Recovered'[b]]
    BY DEF Recovered
  <2>3. View = [b \in Blocks |-> Current(b)]
    BY <1>2 DEF View
  <2> QED
    BY <2>1, <2>2, <2>3, Zenon
<1>12. View' = View
  BY <1>1, <1>2, Zenon DEF View, Current
<1>13. Abstract!Commit
  BY <1>2, <1>3, <1>11, <1>12 DEF Abstract!Commit
<1> QED
  BY <1>6, <1>7, <1>8, <1>10, <1>13, Zenon DEF DurInv, Abstract!ANext

\* install_trans: a block goes home, and the slot still holds it.
LEMMA InstallData ==
  ASSUME IInv, DurInv, Install, head = lh, tail < Len(lh), Installed(tail)
  PROVE  /\ lh \in Seq(Blocks) /\ Len(lh) \in Nat /\ tail \in Nat
         /\ tail + 1 \in 1..Len(lh) /\ lh[tail + 1] \in Blocks
         /\ disk' = [disk EXCEPT ![lh[tail + 1]] = slots[tail + 1]]
         /\ dirty' = dirty \ {lh[tail + 1]}
         /\ UNCHANGED <<slots, head, cache, lh>>
         /\ \A i \in 1..(tail + 1) : disk'[lh'[i]] = slots'[i]
         /\ Recovered' = Recovered
<1> DEFINE n == tail + 1
<1>1. /\ lh \in Seq(Blocks) /\ Len(lh) \in Nat /\ tail \in Nat
      /\ n \in 1..Len(lh) /\ disk \in [Blocks -> Data]
  BY DEF IInv, TypeOK
<1>2. /\ disk' = [disk EXCEPT ![lh[n]] = slots[n]]
      /\ dirty' = dirty \ {lh[n]}
      /\ UNCHANGED <<slots, head, cache, lh>>
  BY DEF Install
<1>3. lh[n] \in Blocks
  BY <1>1
<1>4. ASSUME NEW i \in 1..n PROVE disk'[lh'[i]] = slots'[i]
  <2>1. i \in 1..Len(lh) /\ lh[i] \in Blocks /\ (i = n \/ i \in 1..tail)
    BY <1>1
  <2>2. CASE i = n
    BY <1>1, <1>2, <1>3, <2>2, Zenon
  <2>3. CASE i # n
    <3>1. lh[i] # lh[n]
      BY <1>1, <2>1, <2>3, Zenon DEF DurInv, Distinct
    <3> QED
      BY <1>1, <1>2, <2>1, <2>3, <3>1, Zenon DEF Installed
  <2> QED
    BY <2>2, <2>3, Zenon
<1>5. Recovered' = Recovered
  <2>1. Logged(lh[n], head)
    BY <1>1, Zenon DEF Logged
  <2>2. \A b \in Blocks : ~Logged(b, head) => disk'[b] = disk[b]
    BY <1>1, <1>2, <2>1
  <2> QED
    BY <1>2, <2>2, ZenonT(30) DEF Recovered, Logged
<1> QED
  BY <1>1, <1>2, <1>3, <1>4, <1>5, Zenon

LEMMA InstallTransRefines ==
  ASSUME IInv, DurInv, NEW p \in Procs, InstallTrans(p)
  PROVE  DurInv' /\ [Abstract!ANext]_(Abstract!avars)
<1> DEFINE n == tail + 1
<1>1. pc[p] = "install" /\ pc[p] \in CommitSteps /\ phase' = phase /\ Install
  BY Zenon DEF InstallTrans, CommitSteps
<1>2. phase = "run" /\ Active = {} /\ \A l \in CommitSteps : At(l) <=> l = "install"
  BY <1>1, Stage
<1>3. At("install") /\ ~At("write_log") /\ ~At("write_head") /\ ~At("clear")
  BY <1>2 DEF CommitSteps
<1>4. head = lh /\ tail < Len(lh) /\ Installed(tail)
  BY <1>1, <1>3, Zenon DEF IInv, TailInv, DurInv, HeadInv, Committed, PlacesInv
<1>5. /\ lh \in Seq(Blocks) /\ Len(lh) \in Nat /\ tail \in Nat
      /\ n \in 1..Len(lh) /\ lh[n] \in Blocks
      /\ disk' = [disk EXCEPT ![lh[n]] = slots[n]]
      /\ dirty' = dirty \ {lh[n]}
      /\ UNCHANGED <<slots, head, cache, lh>>
      /\ \A i \in 1..n : disk'[lh'[i]] = slots'[i]
      /\ Recovered' = Recovered
  BY <1>1, <1>4, InstallData, Zenon
<1>6. \A i \in 1..Len(lh) : n <= i => slots[i] = cache[lh[i]]
  BY <1>3, <1>5, SMTT(30) DEF DurInv, PlacesInv, Copied
<1>7. \A b \in Blocks : b \in dirty <=> \E i \in 1..Len(lh) : lh[i] = b /\ tail < i
  BY <1>2, <1>3, Zenon DEF DurInv, DirtyInv, Pinned
<1>8. View' = View
  <2>1. ASSUME NEW b \in Blocks PROVE Current(b)' = Current(b)
    <3>1. CASE b = lh[n]
      <4>1. b \in dirty /\ slots[n] = cache[b]
        BY <1>5, <1>6, <1>7, <3>1
      <4>2. b \notin dirty' /\ disk'[b] = slots[n]
        BY <1>5, <3>1, Zenon DEF IInv, TypeOK
      <4> QED
        BY <4>1, <4>2, Zenon DEF Current
    <3>2. CASE b # lh[n]
      BY <1>5, <3>2, Zenon DEF Current, IInv, TypeOK
    <3> QED
      BY <3>1, <3>2, Zenon
  <2> QED
    BY <1>1, <1>2, <2>1, Zenon DEF View
<1>9. Distinct(lh)' /\ Distinct(head)'
  BY <1>5 DEF DurInv, Distinct
<1>10. \A b \in Blocks : b \in dirty' <=> \E i \in 1..Len(lh) : lh[i] = b /\ n < i
  <2> SUFFICES ASSUME NEW b \in Blocks
               PROVE  b \in dirty' <=> \E i \in 1..Len(lh) : lh[i] = b /\ n < i
    OBVIOUS
  <2>1. ASSUME b \in dirty' PROVE \E i \in 1..Len(lh) : lh[i] = b /\ n < i
    <3>1. PICK i \in 1..Len(lh) : lh[i] = b /\ tail < i
      BY <1>5, <1>7, <2>1, Zenon
    <3>2. i # n
      BY <1>5, <2>1, <3>1, Zenon
    <3>3. n < i
      BY <1>5, <3>1, <3>2
    <3> QED
      BY <3>1, <3>3
  <2>2. ASSUME NEW i \in 1..Len(lh), lh[i] = b, n < i PROVE b \in dirty'
    <3>1. lh[i] # lh[n] /\ tail < i
      BY <1>5, <2>2, SMTT(30) DEF DurInv, Distinct
    <3> QED
      BY <1>5, <1>7, <2>2, <3>1, Zenon
  <2> QED
    BY <2>1, <2>2
<1>11. CASE n < Len(lh)
  <2>1. tail' = n /\ pc' = pc
    BY <1>11 DEF InstallTrans
  <2>2. /\ At("install")' /\ ~At("write_log")' /\ ~At("write_head")' /\ ~At("clear")'
        /\ Active' = Active
    BY <1>1, <1>3, <2>1, Zenon DEF At, Active
  <2>3. Installed(tail)' /\ Copied(tail + 1, Len(lh))'
    BY <1>5, <1>6, <2>1 DEF Installed, Copied
  <2>4. PlacesInv'
    BY <1>1, <1>2, <2>2, <2>3, Zenon DEF PlacesInv
  <2>5. HeadInv'
    BY <1>4, <1>5, <2>2 DEF HeadInv, Committed
  <2>6. DirtyInv'
    BY <1>1, <1>2, <1>5, <1>10, <2>1, <2>2, Zenon DEF DirtyInv, Pinned
  <2> QED
    BY <1>5, <1>8, <1>9, <2>2, <2>4, <2>5, <2>6, Zenon DEF DurInv, Abstract!avars
<1>12. CASE ~(n < Len(lh))
  <2>1. tail' = 0 /\ Goto(p, "clear") /\ n = Len(lh)
    BY <1>5, <1>12, SMTT(30) DEF InstallTrans
  <2>2. Active' = {} /\ \A l \in CommitSteps : At(l)' <=> l = "clear"
    BY <1>1, <2>1, StageMoves, Zenon DEF CommitSteps
  <2>3. At("clear")' /\ ~At("write_log")' /\ ~At("write_head")' /\ ~At("install")'
    BY <2>2, Zenon DEF CommitSteps
  <2>4. Installed(Len(lh))'
    BY <1>5, <2>1, Zenon DEF Installed
  <2>5. PlacesInv'
    BY <1>1, <1>2, <2>3, <2>4, Zenon DEF PlacesInv
  <2>6. HeadInv'
    BY <1>4, <1>5, <2>3, Zenon DEF HeadInv, Committed
  <2>7. DirtyInv'
    BY <1>5, <1>10, <2>1, <2>3 DEF DirtyInv, Pinned
  <2> QED
    BY <1>2, <1>5, <1>8, <1>9, <2>2, <2>5, <2>6, <2>7, Zenon DEF DurInv, Abstract!avars
<1> QED
  BY <1>11, <1>12

\* Once the transaction is installed, the header may be erased.
LEMMA InstalledRecovered ==
  ASSUME IInv, DurInv, head = lh, Installed(Len(lh))
  PROVE  Recovered = disk
<1>1. lh \in Seq(Blocks) /\ disk = [b \in Blocks |-> disk[b]]
  BY Zenon DEF IInv, TypeOK
<1>2. ASSUME NEW b \in Blocks PROVE Recovered[b] = disk[b]
  <2>1. CASE Logged(b, head)
    <3>1. PICK i \in 1..Len(head) : head[i] = b
      BY <2>1, Zenon DEF Logged
    <3>2. Recovered[b] = slots[i]
      BY <3>1, RecoveredLogged, Zenon DEF DurInv
    <3> QED
      BY <3>1, <3>2, Zenon DEF Installed
  <2>2. CASE ~Logged(b, head)
    BY <2>2, RecoveredHome, Zenon
  <2> QED
    BY <2>1, <2>2
<1>3. Recovered = [b \in Blocks |-> Recovered[b]]
  BY DEF Recovered
<1> QED
  BY <1>1, <1>2, <1>3, Zenon

LEMMA ClearLogRefines ==
  ASSUME IInv, DurInv, NEW p \in Procs, ClearLog(p)
  PROVE  DurInv' /\ [Abstract!ANext]_(Abstract!avars)
<1>1. /\ pc[p] = "clear" /\ pc[p] \in CommitSteps
      /\ lh' = <<>> /\ head' = <<>> /\ Goto(p, "done")
      /\ UNCHANGED <<disk, slots, cache, dirty, phase>>
  BY DEF ClearLog, CommitSteps
<1>2. phase = "run" /\ Active = {} /\ \A l \in CommitSteps : At(l) <=> l = "clear"
  BY <1>1, Stage
<1>3. Active' = {} /\ \A l \in CommitSteps : At(l)' <=> l = "done"
  BY <1>1, StageMoves, Zenon DEF CommitSteps
<1>4. At("clear") /\ ~At("write_log")' /\ ~At("write_head")' /\ ~At("install")' /\ ~At("clear")'
  BY <1>2, <1>3, Zenon DEF CommitSteps
<1>5. Recovered = disk
  BY <1>4, InstalledRecovered, Zenon DEF DurInv, HeadInv, Committed, PlacesInv
<1>6. Recovered' = Recovered
  <2>1. \A b \in Blocks : ~Logged(b, head)'
    BY <1>1 DEF Logged
  <2>2. Recovered' = [b \in Blocks |-> disk[b]]
    BY <1>1, <2>1, Zenon DEF Recovered
  <2> QED
    BY <1>5, <2>2, Zenon DEF IInv, TypeOK
<1>7. View' = View
  BY <1>1, <1>2, Zenon DEF View, Current
<1>8. Distinct(lh)' /\ Distinct(head)'
  BY <1>1 DEF Distinct
<1>9. PlacesInv' /\ HeadInv'
  BY <1>1, <1>2, <1>4, Zenon DEF PlacesInv, HeadInv, Committed
<1>10. DirtyInv'
  BY <1>1, <1>4 DEF DurInv, DirtyInv, Pinned
<1> QED
  BY <1>2, <1>3, <1>6, <1>7, <1>8, <1>9, <1>10 DEF DurInv, Abstract!avars

LEMMA EndCommitRefines ==
  ASSUME IInv, DurInv, NEW p \in Procs, EndCommit(p)
  PROVE  DurInv' /\ [Abstract!ANext]_(Abstract!avars)
<1> DEFINE f == [pc EXCEPT ![p] = "idle"]
<1>1. /\ pc[p] = "done" /\ pc[p] \in CommitSteps /\ pc' = Wakeup(f)
      /\ UNCHANGED <<durables, cache, dirty, lh, phase, tail>>
  BY Zenon DEF EndCommit, CommitSteps
<1>2. phase = "run" /\ Active = {} /\ \A l \in CommitSteps : At(l) <=> l = "done"
  BY <1>1, Stage, Zenon
<1>3. \A q \in Procs : pc[q] \in CommitSteps => q = p
  BY <1>1, Zenon DEF IInv, CommitInv, Committers
<1>4. f \in [Procs -> Pcs] /\ \A q \in Procs : f[q] = IF q = p THEN "idle" ELSE pc[q]
  BY Zenon DEF IInv, TypeOK, Pcs
<1> HIDE DEF f
<1>5. \A q \in Procs : \A l \in CommitSteps \cup {"op"} : pc'[q] = l <=> f[q] = l
  <2>1. CommitSteps \cup {"op"} \subseteq Pcs \ {"begin", "asleep"}
    BY Zenon DEF Pcs, CommitSteps
  <2> QED
    BY <1>1, <1>4, <2>1, WakeupKeeps
<1>6. Active' = Active
  BY <1>1, <1>4, <1>5 DEF Active
<1>7. \A l \in CommitSteps : ~At(l)'
  <2>1. "idle" \notin CommitSteps
    BY Zenon DEF CommitSteps
  <2> QED
    BY <1>3, <1>4, <1>5, <2>1 DEF At
<1>8. /\ \A l \in {"write_head", "install", "clear"} : ~At(l) /\ ~At(l)'
      /\ ~At("write_log")'
  BY <1>2, <1>7 DEF CommitSteps
<1>9. DurInv'
  BY <1>1, <1>2, <1>8, CalmDur, Zenon
<1> QED
  BY <1>1, <1>6, <1>9, SameView, Zenon DEF Abstract!avars

-----------------------------------------------------------------------------
\* A crash loses what is not durable, and no more.
LEMMA CrashRefines ==
  ASSUME IInv, DurInv, Crash
  PROVE  DurInv' /\ [Abstract!ANext]_(Abstract!avars)
<1>1. /\ dirty' = {} /\ lh' = <<>> /\ phase' = "read_head"
      /\ pc' = [p \in Procs |-> "idle"]
      /\ UNCHANGED durables
  BY Zenon DEF Crash
<1>2. \A l : ~At(l)'
  BY <1>1 DEF At
<1>3. Recovered' = Recovered /\ Active' = {}
  BY <1>1, SameRecovered, Zenon DEF Active
<1>4. View' = Recovered
  BY <1>1, <1>3, Zenon DEF View, Recovered
<1>5. Distinct(lh)' /\ Distinct(head)'
  BY <1>1 DEF Distinct, DurInv, durables
<1>6. PlacesInv' /\ HeadInv' /\ DirtyInv'
  BY <1>1, <1>2, Zenon DEF PlacesInv, HeadInv, Committed, DirtyInv, Pinned
<1>7. Abstract!Crash
  BY <1>3, <1>4, Zenon DEF Abstract!Crash
<1> QED
  BY <1>5, <1>6, <1>7, Zenon DEF DurInv, Abstract!ANext

\* The steps of recovery change nothing that recovery would leave behind.
LEMMA ReadHeadRefines ==
  ASSUME IInv, DurInv, ReadHead
  PROVE  DurInv' /\ [Abstract!ANext]_(Abstract!avars)
<1>1. /\ phase = "read_head" /\ phase' \in {"install", "clear"} /\ lh' = head /\ tail' = 0
      /\ phase' = "clear" => head = <<>>
      /\ UNCHANGED <<durables, dirty, pc>>
  BY Zenon DEF ReadHead
<1>2. \A l : ~At(l)'
  BY <1>1 DEF At
<1>3. Recovered' = Recovered /\ Active' = Active
  BY <1>1, SameRecovered DEF Active
<1>4. View' = View
  BY <1>1, <1>3, Zenon DEF View
<1>5. Distinct(lh)' /\ Distinct(head)'
  BY <1>1 DEF Distinct, DurInv, durables
<1>6. PlacesInv'
  <2>1. Installed(tail)' /\ (phase' = "clear" => Installed(Len(lh))')
    BY <1>1 DEF Installed, durables
  <2> QED
    BY <1>1, <1>2, <2>1, Zenon DEF PlacesInv
<1>7. HeadInv' /\ DirtyInv'
  BY <1>1, <1>2, Zenon DEF HeadInv, Committed, DurInv, DirtyInv, Pinned, durables
<1> QED
  BY <1>3, <1>4, <1>5, <1>6, <1>7, Zenon DEF DurInv, Abstract!avars

LEMMA RecoverInstallRefines ==
  ASSUME IInv, DurInv, RecoverInstall
  PROVE  DurInv' /\ [Abstract!ANext]_(Abstract!avars)
<1>1. /\ phase = "install" /\ phase' \in {"install", "clear"} /\ Install /\ pc' = pc
      /\ IF tail + 1 < Len(lh) THEN tail' = tail + 1 /\ phase' = "install"
                               ELSE tail' = 0 /\ phase' = "clear"
  BY Zenon DEF RecoverInstall
<1>2. head = lh /\ tail < Len(lh) /\ Installed(tail)
  BY <1>1, Zenon DEF IInv, TailInv, DurInv, HeadInv, Committed, PlacesInv
<1>3. /\ lh \in Seq(Blocks) /\ Len(lh) \in Nat /\ tail \in Nat
      /\ tail + 1 \in 1..Len(lh)
      /\ dirty' = dirty \ {lh[tail + 1]}
      /\ UNCHANGED <<slots, head, cache, lh>>
      /\ \A i \in 1..(tail + 1) : disk'[lh'[i]] = slots'[i]
      /\ Recovered' = Recovered
  BY <1>1, <1>2, InstallData, Zenon
<1>4. \A l : ~At(l)'
  BY <1>1, Zenon DEF At
<1>5. View' = View /\ Active' = Active
  BY <1>1, <1>3, Zenon DEF View, Active
<1>6. Distinct(lh)' /\ Distinct(head)'
  BY <1>3, ZenonT(40) DEF Distinct, DurInv
<1>7. PlacesInv'
  <2>1. CASE tail + 1 < Len(lh)
    <3>1. Installed(tail)' /\ phase' = "install"
      BY <1>1, <1>3, <2>1, Zenon DEF Installed
    <3> QED
      BY <1>4, <3>1, Zenon DEF PlacesInv
  <2>2. CASE ~(tail + 1 < Len(lh))
    <3>1. tail + 1 = Len(lh) /\ phase' = "clear"
      BY <1>1, <1>3, <2>2
    <3>2. Installed(Len(lh))'
      BY <1>3, <3>1, Zenon DEF Installed
    <3> QED
      BY <1>4, <3>1, <3>2, Zenon DEF PlacesInv
  <2> QED
    BY <2>1, <2>2, Zenon
<1>8. HeadInv' /\ DirtyInv'
  BY <1>1, <1>2, <1>3, <1>4, Zenon DEF HeadInv, Committed, DurInv, DirtyInv, Pinned
<1> QED
  BY <1>3, <1>5, <1>6, <1>7, <1>8, Zenon DEF DurInv, Abstract!avars

LEMMA RecoverClearRefines ==
  ASSUME IInv, DurInv, RecoverClear
  PROVE  DurInv' /\ [Abstract!ANext]_(Abstract!avars)
<1>1. /\ phase = "clear" /\ phase' = "run" /\ lh' = <<>> /\ head' = <<>>
      /\ UNCHANGED <<disk, slots, cache, dirty, pc>>
  BY Zenon DEF RecoverClear
<1>2. Recovered = disk /\ Committers = {}
  BY <1>1, InstalledRecovered, Zenon DEF DurInv, HeadInv, Committed, PlacesInv, IInv, CommitInv
<1>3. /\ ~At("write_log")' /\ ~At("write_head")' /\ ~At("install")' /\ ~At("clear")'
      /\ Active' = Active
  BY <1>1, <1>2, Zenon DEF At, Active, Committers, CommitSteps
<1>4. \A b \in Blocks : b \notin dirty /\ b \notin dirty'
  BY <1>1, Zenon DEF DurInv, DirtyInv, Pinned
<1>5. Recovered' = [b \in Blocks |-> disk[b]]
  <2>1. \A b \in Blocks : ~Logged(b, head)'
    BY <1>1 DEF Logged
  <2> QED
    BY <1>1, <2>1, Zenon DEF Recovered
<1>6. View = [b \in Blocks |-> disk[b]] /\ View' = [b \in Blocks |-> disk[b]]
  BY <1>1, <1>2, <1>4, Zenon DEF View, Current
<1>7. Recovered' = Recovered /\ View' = View
  BY <1>2, <1>5, <1>6, Zenon DEF IInv, TypeOK
<1>8. Distinct(lh)' /\ Distinct(head)'
  BY <1>1 DEF Distinct
<1>9. PlacesInv' /\ HeadInv'
  BY <1>1, <1>3, Zenon DEF PlacesInv, HeadInv, Committed
<1>10. DirtyInv'
  BY <1>1, <1>4 DEF DirtyInv, Pinned
<1> QED
  BY <1>3, <1>7, <1>8, <1>9, <1>10, Zenon DEF DurInv, Abstract!avars

-----------------------------------------------------------------------------
LEMMA NextRefines ==
  ASSUME IInv, DurInv, [Next]_vars
  PROVE  DurInv' /\ [Abstract!ANext]_(Abstract!avars)
<1>1. CASE UNCHANGED vars
  <2>1. UNCHANGED <<durables, cache, dirty, lh, phase, tail, pc>>
    BY <1>1, Zenon DEF vars, durables
  <2>2. Active' = Active /\ \A l \in CommitSteps : At(l)' <=> At(l)
    BY <2>1, Zenon DEF Active, At
  <2> QED
    BY <2>1, <2>2, SameView, SameDur, Zenon DEF Abstract!avars
<1>2. ASSUME NEW p \in Procs, ProcStep(p)
      PROVE  DurInv' /\ [Abstract!ANext]_(Abstract!avars)
  BY <1>2, BeginOpRefines, EndOpRefines, WriteLogRefines, WriteHeadRefines,
     InstallTransRefines, ClearLogRefines, EndCommitRefines DEF ProcStep
<1>3. ASSUME NEW p \in Procs, NEW b \in Blocks, NEW d \in Data, LogWrite(p, b, d)
      PROVE  DurInv' /\ [Abstract!ANext]_(Abstract!avars)
  BY <1>3, LogWriteRefines, Zenon
<1>4. CASE Recovery
  BY <1>4, ReadHeadRefines, RecoverInstallRefines, RecoverClearRefines, Zenon DEF Recovery
<1> QED
  BY <1>1, <1>2, <1>3, <1>4, CrashRefines, Zenon DEF Next

LEMMA InitRefines == Init => DurInv /\ Abstract!AInit
<1> SUFFICES ASSUME Init PROVE DurInv /\ Abstract!AInit
  OBVIOUS
<1>1. /\ head = <<>> /\ lh = <<>> /\ dirty = {} /\ phase = "read_head"
      /\ pc = [p \in Procs |-> "idle"] /\ disk \in [Blocks -> Data]
  BY DEF Init
<1>2. \A l : ~At(l)
  BY <1>1 DEF At
<1>3. DurInv
  BY <1>1, <1>2 DEF DurInv, Distinct, PlacesInv, HeadInv, Committed, DirtyInv, Pinned
<1>4. Recovered = disk
  BY <1>1, InitIInv, RecoveredEmpty, Zenon
<1>5. View = Recovered /\ Active = {}
  BY <1>1, Zenon DEF View, Recovered, Active
<1> QED
  BY <1>1, <1>3, <1>4, <1>5, Zenon DEF Abstract!AInit

LEMMA AlwaysDur == Spec => [](IInv /\ DurInv)
<1>1. Init => IInv /\ DurInv
  BY InitIInv, InitRefines, Zenon
<1>2. (IInv /\ DurInv) /\ [Next]_vars => (IInv /\ DurInv)'
  BY NextIInv, NextRefines, Zenon
<1> QED
  BY <1>1, <1>2, PTL DEF Spec

\* log.rs implements the atomic disk: what the operations of one commit have
\* written becomes durable all at once, at the write of the header, and a
\* crash at any disk write, also during recovery, loses nothing else.
THEOREM LogImplementsAtomicDisk == Spec => ImplementsAtomicDisk
<1>1. Init => Abstract!AInit
  BY InitRefines, Zenon
<1>2. (IInv /\ DurInv) /\ [Next]_vars => [Abstract!ANext]_(Abstract!avars)
  BY NextRefines
<1> QED
  BY <1>1, <1>2, AlwaysDur, PTL DEF Spec, ImplementsAtomicDisk, Abstract!ASpec

\* end_op makes data durable: with no operation running and no commit under
\* way, a crash would lose nothing, and the log on the disk is empty.
THEOREM QuietMeansDurable == Spec => []QuiescentDurable
<1>1. ASSUME IInv, DurInv PROVE QuiescentDurable
  <2> SUFFICES ASSUME phase = "run", outstanding = 0, ~committing
               PROVE  Recovered = View /\ head = <<>>
    BY Zenon DEF QuiescentDurable, Running
  <2>1. Active = {} /\ Committers = {} /\ lh = <<>>
    <3>1. Active = {}
      BY <1>1, ActiveFinite, FS_EmptySet, Zenon DEF IInv, CountInv
    <3> QED
      BY <1>1, <3>1, Zenon DEF IInv, CommitInv
  <2>2. head = <<>> /\ \A b \in Blocks : b \notin dirty
    <3>1. ~At("install") /\ ~At("clear")
      BY <2>1, NoStage, Zenon DEF CommitSteps
    <3> QED
      BY <1>1, <2>1, <3>1 DEF DurInv, HeadInv, Committed, DirtyInv, Pinned
  <2>3. Recovered = disk /\ disk = [b \in Blocks |-> disk[b]]
    BY <1>1, <2>2, RecoveredEmpty, Zenon DEF IInv, TypeOK
  <2>4. View = [b \in Blocks |-> disk[b]]
    BY <2>2, Zenon DEF View, Current
  <2> QED
    BY <2>2, <2>3, <2>4, Zenon
<1> QED
  BY <1>1, AlwaysDur, PTL
=============================================================================
