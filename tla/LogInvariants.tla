---------------------------- MODULE LogInvariants ---------------------------
(***************************************************************************)
(* The parts of the inductive invariant of Log, and the proofs that its    *)
(* steps keep the types, the control state and the reservations.           *)
(***************************************************************************)
EXTENDS Log, FiniteSetTheorems, TLAPS

\* The sizes of the real system: begin_op() reserves at least two blocks more
\* than a system call writes, and the on-disk log with its header has LOGSIZE
\* blocks or more.
WellSized == OPBLOCKS + 2 <= MAXOPBLOCKS /\ LOGSIZE <= NLOG

\* System calls between begin_op() and end_op().
Active == {p \in Proc : pc[p] \in {"op", "append"}}

\* The reserved blocks that the calls A have not used, when call p wrote w[p].
FreeOf(A, w) == {s \in A \X (0..(OPBLOCKS + 1)) : Cardinality(w[s[1]]) <= s[2]}
Free == FreeOf(Active, wrote)

\* log.outstanding counts the active calls, log.committing is up exactly while
\* one process commits, and no process runs during recovery.
CtlInv ==
  /\ outstanding = Cardinality(Active)
  /\ committing <=> (~recovering /\ phase # "run")
  /\ committing => Active = {}
  /\ \A p \in Proc : pc[p] = "commit" => committing
  /\ \A p, q \in Proc : pc[p] = "commit" /\ pc[q] = "commit" => p = q
  /\ recovering => \A p \in Proc : pc[p] = "user"
  /\ recovering => phase \in {"read_head", "install", "clear"}
  /\ ~recovering => phase # "read_head"

\* The loops of write_log() and install_trans() stay inside the logged blocks.
TailInv ==
  /\ phase \in {"write_log", "install"} => tail < Len(lh)
  /\ phase \notin {"write_log", "install"} => tail = 0
  /\ phase = "write_head" => lh # <<>>

\* What is logged and what may still be logged fits the log.
SpaceInv ==
  /\ Len(lh) + Cardinality(Free) <= LOGSIZE
  /\ Len(lh) < LOGSIZE
  /\ Len(hdr) < LOGSIZE
  /\ \A p \in Active : /\ wrote[p] \subseteq Range(lh)
                       /\ IsFiniteSet(wrote[p])
                       /\ Cardinality(wrote[p]) <= OPBLOCKS
                       /\ pc[p] = "append" =>
                            bp[p] \in wrote[p] \/ Cardinality(wrote[p]) < OPBLOCKS
  /\ \A p \in Proc : pc[p] # "panic"

\* What the disk, the log and the cache hold in each phase of a commit.
DataInv ==
  /\ IsInjective(lh) /\ IsInjective(hdr)
  /\ phase = "done" \/ (phase = "run" /\ Active = {}) => lh = <<>>
  /\ phase \in {"run", "write_log", "write_head", "done"} => hdr = <<>>
  /\ phase \in {"install", "clear"} => hdr = lh
  /\ ~recovering => \A b \in Block : b \notin Range(lh) => cache[b] = home[b]
  /\ recovering => cache = home
  /\ phase = "write_log" => \A i \in 1..tail : logblk[i] = cache[lh[i]]
  /\ phase = "write_head" \/ (phase \in {"install", "clear"} /\ ~recovering)
        => \A i \in 1..Len(lh) : logblk[i] = cache[lh[i]]
  /\ phase = "install" => \A i \in 1..tail : home[lh[i]] = logblk[i]
  /\ phase = "clear" => \A i \in 1..Len(lh) : home[lh[i]] = logblk[i]

\* A sleeper in begin_op() waits for a commit or for an active call.
SleepInv == (\E p \in Proc : pc[p] = "sleep") => Active # {} \/ committing

-----------------------------------------------------------------------------
\* Only finitely many calls are between begin_op() and end_op().
LEMMA ActiveFinite == IsFiniteSet(Active) /\ Cardinality(Active) \in Nat
<1>1. Active \in SUBSET Proc
  BY DEF Active
<1>2. IsFiniteSet(Active)
  BY <1>1, LogConstants, FS_Subset
<1> QED
  BY <1>2, FS_CardinalityType

\* While a call is active it is counted, and nothing is being committed.
LEMMA ActiveCounted ==
  ASSUME CtlInv, NEW p \in Active
  PROVE  outstanding \in Nat \ {0} /\ ~committing /\ ~recovering /\ phase = "run"
<1>1. Cardinality(Active) # 0
  BY ActiveFinite, FS_EmptySet
<1> QED
  BY <1>1, ActiveFinite DEF CtlInv, Active

\* Every step keeps the types: the loops index inside the log.
LEMMA TypeStep ==
  ASSUME WellSized, TypeOK, CtlInv, TailInv, SpaceInv, [Next]_vars
  PROVE  TypeOK'
<1> USE LogConstants
<1>1. ASSUME NEW p \in Proc, BeginOp(p) PROVE TypeOK'
  <2>1. pc' \in [Proc -> {"user", "sleep", "begin", "op", "append", "commit", "panic"}]
    BY <1>1, TypeOK DEF BeginOp, TypeOK
  <2>2. wrote' \in [Proc -> SUBSET Block]
    BY <1>1, TypeOK DEF BeginOp, TypeOK
  <2>3. outstanding' \in Nat
    BY <1>1, TypeOK DEF BeginOp, TypeOK
  <2> QED
    BY <1>1, <2>1, <2>2, <2>3, TypeOK DEF TypeOK, BeginOp, disk, committer
<1>2. ASSUME NEW p \in Proc, NEW b \in Block, LogWriteCheck(p, b) PROVE TypeOK'
  BY <1>2, TypeOK DEF TypeOK, LogWriteCheck, disk, mem, committer
<1>3. ASSUME NEW p \in Proc, NEW v \in Val, LogWriteAppend(p, v) PROVE TypeOK'
  BY <1>3, TypeOK DEF TypeOK, LogWriteAppend, disk, committer
<1>4. ASSUME NEW p \in Proc, EndOp(p) PROVE TypeOK'
  <2>1. outstanding \in Nat \ {0}
    BY <1>4, ActiveCounted DEF EndOp, Active
  <2>2. pc' \in [Proc -> {"user", "sleep", "begin", "op", "append", "commit", "panic"}]
    BY <1>4, TypeOK DEF EndOp, Woken, TypeOK
  <2>3. phase' \in Phases /\ tail' \in Nat /\ committing' \in BOOLEAN
    BY <1>4, TypeOK DEF EndOp, Phases, TypeOK
  <2> QED
    BY <1>4, <2>1, <2>2, <2>3, TypeOK DEF EndOp, TypeOK, disk
<1>5. ASSUME NEW p \in Proc, EndCommit(p) PROVE TypeOK'
  BY <1>5, TypeOK, Zenon DEF TypeOK, EndCommit, Woken, Phases, disk
<1>6. ASSUME WriteLog PROVE TypeOK'
  <2>1. cache[lh[tail + 1]] \in Val
    BY <1>6, TypeOK, TailInv DEF WriteLog, TypeOK, TailInv
  <2>2. logblk' \in [LogBlocks -> Val]
    BY <1>6, <2>1, TypeOK, Zenon DEF WriteLog, TypeOK
  <2>3. tail' \in Nat /\ phase' \in Phases
    BY <1>6, TypeOK DEF WriteLog, Loop, TypeOK, Phases
  <2> QED
    BY <1>6, <2>2, <2>3, TypeOK DEF WriteLog, TypeOK, mem, procs
<1>7. ASSUME WriteHead PROVE TypeOK'
  BY <1>7, TypeOK DEF TypeOK, WriteHead, Phases, mem, procs
<1>8. ASSUME InstallTrans PROVE TypeOK'
  <2>1. tail + 1 \in LogBlocks /\ lh[tail + 1] \in Block
    BY <1>8, TypeOK, TailInv, SpaceInv, WellSized
    DEF InstallTrans, TypeOK, TailInv, SpaceInv, WellSized, LogBlocks
  <2>2. home' \in [Block -> Val] /\ cache' \in [Block -> Val]
    BY <1>8, <2>1, TypeOK DEF InstallTrans, TypeOK
  <2>3. tail' \in Nat /\ phase' \in Phases
    BY <1>8, TypeOK DEF InstallTrans, Loop, TypeOK, Phases
  <2> QED
    BY <1>8, <2>2, <2>3, TypeOK DEF InstallTrans, TypeOK, procs
<1>9. ASSUME ClearHead PROVE TypeOK'
  <2>1. lh' \in Seq(Block) /\ hdr' \in Seq(Block)
    BY <1>9 DEF ClearHead
  <2>2. phase' \in Phases
    BY <1>9 DEF ClearHead, Phases
  <2> QED
    BY <1>9, <2>1, <2>2, TypeOK, Zenon DEF TypeOK, ClearHead, procs
<1>10. ASSUME ReadHead PROVE TypeOK'
  BY <1>10, TypeOK DEF TypeOK, ReadHead, Phases, disk, procs
<1>11. ASSUME Crash PROVE TypeOK'
  <2>1. home' \in [Block -> Val] /\ logblk' \in [LogBlocks -> Val]
    BY <1>11, TypeOK, Zenon DEF Crash, Torn, TypeOK
  <2>2. pc' \in [Proc -> {"user", "sleep", "begin", "op", "append", "commit", "panic"}]
    BY <1>11 DEF Crash
  <2>3. wrote' \in [Proc -> SUBSET Block]
    BY <1>11 DEF Crash
  <2>4. lh' \in Seq(Block)
    BY <1>11 DEF Crash
  <2> QED
    BY <1>11, <2>1, <2>2, <2>3, <2>4, TypeOK, Zenon DEF Crash, TypeOK, Phases
<1>12. ASSUME UNCHANGED vars PROVE TypeOK'
  BY <1>12, TypeOK DEF TypeOK, vars, disk, mem, committer, procs
<1> QED
  BY <1>1, <1>2, <1>3, <1>4, <1>5, <1>6, <1>7, <1>8, <1>9, <1>10, <1>11, <1>12
  DEF Next, Step, DiskStep

-----------------------------------------------------------------------------
\* How each step changes the set of active calls.
LEMMA ActiveStep ==
  ASSUME TypeOK, CtlInv, [Next]_vars
  PROVE  /\ \A p \in Proc : BeginOp(p) => Active' = IF MustWait THEN Active ELSE Active \cup {p}
         /\ \A p \in Proc, b \in Block :
              LogWriteCheck(p, b) => Active' = IF pc'[p] = "panic" THEN Active \ {p} ELSE Active
         /\ \A p \in Proc, v \in Val : LogWriteAppend(p, v) => Active' = Active
         /\ \A p \in Proc : EndOp(p) => Active' = Active \ {p}
         /\ \A p \in Proc : EndCommit(p) => Active' = Active
         /\ DiskStep => Active' = Active
         /\ Crash => Active' = {}
<1> USE TypeOK DEF TypeOK, Active
<1>1. ASSUME NEW p \in Proc, BeginOp(p)
      PROVE  Active' = IF MustWait THEN Active ELSE Active \cup {p}
  BY <1>1 DEF BeginOp
<1>2. ASSUME NEW p \in Proc, NEW b \in Block, LogWriteCheck(p, b)
      PROVE  Active' = IF pc'[p] = "panic" THEN Active \ {p} ELSE Active
  BY <1>2 DEF LogWriteCheck
<1>3. ASSUME NEW p \in Proc, NEW v \in Val, LogWriteAppend(p, v) PROVE Active' = Active
  BY <1>3 DEF LogWriteAppend
<1>4. ASSUME NEW p \in Proc, EndOp(p) PROVE Active' = Active \ {p}
  BY <1>4 DEF EndOp, Woken
<1>5. ASSUME NEW p \in Proc, EndCommit(p) PROVE Active' = Active
  BY <1>5 DEF EndCommit, Woken
<1>6. ASSUME DiskStep PROVE Active' = Active
  BY <1>6 DEF DiskStep, WriteLog, WriteHead, InstallTrans, ClearHead, ReadHead, procs
<1>7. ASSUME Crash PROVE Active' = {}
  BY <1>7 DEF Crash
<1> QED
  BY <1>1, <1>2, <1>3, <1>4, <1>5, <1>6, <1>7

\* Every step keeps log.outstanding exact and commits apart from open calls.
LEMMA CtlStep ==
  ASSUME WellSized, TypeOK, CtlInv, TailInv, SpaceInv, [Next]_vars,
         \A p \in Proc : pc'[p] # "panic"
  PROVE  CtlInv'
<1> USE TypeOK DEF TypeOK
<1>1. ASSUME NEW p \in Proc, BeginOp(p) PROVE CtlInv'
  <2>1. p \notin Active
    BY <1>1 DEF BeginOp, Active
  <2>2. outstanding' = Cardinality(Active')
    BY <1>1, <2>1, ActiveStep, ActiveFinite, FS_AddElement, CtlInv, Zenon DEF BeginOp, CtlInv
  <2>3. committing => Active' = {}
    BY <1>1, ActiveStep, CtlInv DEF CtlInv, MustWait
  <2> QED
    BY <1>1, <2>2, <2>3, CtlInv, Zenon DEF BeginOp, CtlInv, committer
<1>2. ASSUME NEW p \in Proc, NEW b \in Block, LogWriteCheck(p, b) PROVE CtlInv'
  <2>1. Active' = Active
    BY <1>2, ActiveStep, Zenon
  <2> QED
    BY <1>2, <2>1, CtlInv DEF LogWriteCheck, CtlInv, mem, committer
<1>3. ASSUME NEW p \in Proc, NEW v \in Val, LogWriteAppend(p, v) PROVE CtlInv'
  <2>1. Active' = Active
    BY <1>3, ActiveStep
  <2> QED
    BY <1>3, <2>1, CtlInv DEF LogWriteAppend, CtlInv, committer
<1>4. ASSUME NEW p \in Proc, EndOp(p) PROVE CtlInv'
  <2>1. p \in Active /\ outstanding \in Nat \ {0} /\ ~committing /\ ~recovering /\ phase = "run"
    BY <1>4, ActiveCounted DEF EndOp, Active
  <2>2. Active' = Active \ {p}
    BY <1>4, ActiveStep
  <2>3. outstanding' = Cardinality(Active')
    BY <1>4, <2>1, <2>2, ActiveFinite, FS_RemoveElement, CtlInv, Zenon DEF EndOp, CtlInv
  <2>4. committing' => Active' = {}
    <3>1. ASSUME committing' PROVE Cardinality(Active') = 0
      BY <3>1, <1>4, <2>1, <2>3 DEF EndOp
    <3>2. IsFiniteSet(Active')
      BY <2>2, ActiveFinite, FS_RemoveElement, Zenon
    <3> QED
      BY <3>1, <3>2, FS_EmptySet
  <2>5. committing' <=> outstanding = 1
    BY <1>4, <2>1, Zenon DEF EndOp
  <2>6. ~recovering' /\ (committing' <=> phase' # "run") /\ phase' # "read_head"
    BY <1>4, <2>1, <2>5 DEF EndOp
  <2>7. \A q \in Proc : pc'[q] = "commit" => committing' /\ q = p
    BY <1>4, <2>1, <2>5, CtlInv DEF EndOp, CtlInv, Woken
  <2> QED
    BY <2>3, <2>4, <2>6, <2>7 DEF CtlInv
<1>5. ASSUME NEW p \in Proc, EndCommit(p) PROVE CtlInv'
  <2>1. Active' = Active
    BY <1>5, ActiveStep
  <2>2. ~recovering /\ committing
    BY <1>5, CtlInv DEF EndCommit, CtlInv
  <2>3. \A q \in Proc : pc'[q] # "commit"
    BY <1>5, CtlInv DEF EndCommit, CtlInv, Woken
  <2> QED
    BY <1>5, <2>1, <2>2, <2>3, CtlInv DEF EndCommit, CtlInv
<1>6. ASSUME DiskStep PROVE CtlInv'
  <2>1. Active' = Active
    BY <1>6, ActiveStep
  <2>2. pc' = pc /\ outstanding' = outstanding /\ committing' = committing
    BY <1>6 DEF DiskStep, WriteLog, WriteHead, InstallTrans, ClearHead, ReadHead, mem, procs
  <2>3. CASE ClearHead
    BY <2>1, <2>2, <2>3, CtlInv DEF ClearHead, CtlInv
  <2>4. CASE ~ClearHead
    BY <1>6, <2>1, <2>2, <2>4, CtlInv
    DEF DiskStep, WriteLog, WriteHead, InstallTrans, ReadHead, Loop, CtlInv
  <2> QED
    BY <2>3, <2>4
<1>7. ASSUME Crash PROVE CtlInv'
  <2>1. Active' = {}
    BY <1>7, ActiveStep
  <2> QED
    BY <1>7, <2>1, FS_EmptySet DEF Crash, CtlInv
<1>8. ASSUME UNCHANGED vars PROVE CtlInv'
  BY <1>8, CtlInv DEF CtlInv, vars, mem, committer, procs, Active
<1> QED
  BY <1>1, <1>2, <1>3, <1>4, <1>5, <1>6, <1>7, <1>8 DEF Next, Step

\* Every step keeps the loop index of commit() inside the log.
LEMMA TailStep ==
  ASSUME TypeOK, CtlInv, TailInv, [Next]_vars
  PROVE  TailInv'
<1> USE TypeOK, TailInv DEF TypeOK, TailInv
<1>1. ASSUME NEW p \in Proc, BeginOp(p) PROVE TailInv'
  BY <1>1 DEF BeginOp, committer
<1>2. ASSUME NEW p \in Proc, NEW b \in Block, LogWriteCheck(p, b) PROVE TailInv'
  BY <1>2 DEF LogWriteCheck, committer, mem
<1>3. ASSUME NEW p \in Proc, NEW v \in Val, LogWriteAppend(p, v) PROVE TailInv'
  <2>1. phase = "run"
    BY <1>3, ActiveCounted DEF LogWriteAppend, Active
  <2> QED
    BY <1>3, <2>1 DEF LogWriteAppend, committer
<1>4. ASSUME NEW p \in Proc, EndOp(p) PROVE TailInv'
  <2>1. phase = "run"
    BY <1>4, ActiveCounted DEF EndOp, Active
  <2> QED
    BY <1>4, <2>1 DEF EndOp
<1>5. ASSUME NEW p \in Proc, EndCommit(p) PROVE TailInv'
  BY <1>5 DEF EndCommit
<1>6. ASSUME DiskStep PROVE TailInv'
  BY <1>6 DEF DiskStep, WriteLog, WriteHead, InstallTrans, ClearHead, ReadHead, Loop, mem
<1>7. ASSUME Crash PROVE TailInv'
  BY <1>7 DEF Crash
<1>8. ASSUME UNCHANGED vars PROVE TailInv'
  BY <1>8 DEF vars, mem, committer
<1> QED
  BY <1>1, <1>2, <1>3, <1>4, <1>5, <1>6, <1>7, <1>8 DEF Next, Step

-----------------------------------------------------------------------------
\* A set of calls has at most OPBLOCKS + 2 free blocks for each of its members.
LEMMA FreeBound ==
  ASSUME NEW A, IsFiniteSet(A), NEW w
  PROVE  /\ IsFiniteSet(FreeOf(A, w))
         /\ Cardinality(FreeOf(A, w)) \in Nat
         /\ Cardinality(FreeOf(A, w)) <= Cardinality(A) * (OPBLOCKS + 2)
<1> DEFINE T == 0..(OPBLOCKS + 1)
<1>1. IsFiniteSet(T) /\ Cardinality(T) = OPBLOCKS + 2
  BY LogConstants, FS_Interval
<1>2. IsFiniteSet(A \X T) /\ Cardinality(A \X T) = Cardinality(A) * (OPBLOCKS + 2)
  BY <1>1, FS_Product, Zenon
<1>3. FreeOf(A, w) \in SUBSET (A \X T)
  BY DEF FreeOf
<1>4. IsFiniteSet(FreeOf(A, w)) /\ Cardinality(FreeOf(A, w)) <= Cardinality(A \X T)
  BY <1>2, <1>3, FS_Subset
<1> QED
  BY <1>2, <1>4, FS_CardinalityType

\* The members of a sequence that one element is appended to.
LEMMA RangeAppend ==
  ASSUME NEW S, NEW seq \in Seq(S), NEW e \in S
  PROVE  Range(Append(seq, e)) = Range(seq) \cup {e}
<1> DEFINE t == Append(seq, e)
<1>1. /\ DOMAIN t = 1..(Len(seq) + 1) /\ DOMAIN seq = 1..Len(seq) /\ Len(seq) \in Nat
      /\ \A i \in 1..Len(seq) : t[i] = seq[i]
      /\ t[Len(seq) + 1] = e
  OBVIOUS
<1>2. \A i \in DOMAIN t : i \in DOMAIN seq \/ i = Len(seq) + 1
  BY <1>1
<1>3. DOMAIN seq \subseteq DOMAIN t /\ Len(seq) + 1 \in DOMAIN t
  BY <1>1
<1> HIDE DEF t
<1>4. Range(t) = Range(seq) \cup {e}
  BY <1>1, <1>2, <1>3 DEF Range
<1> QED
  BY <1>4 DEF t

\* Two different members of a finite set make its size at least two.
LEMMA TwoMembers ==
  ASSUME NEW S, IsFiniteSet(S), NEW s \in S, NEW t \in S, s # t
  PROVE  Cardinality(S) >= 2
<1>1. IsFiniteSet(S \ {s}) /\ Cardinality(S \ {s}) = Cardinality(S) - 1
  BY FS_RemoveElement
<1>2. Cardinality(S \ {s}) \in Nat /\ Cardinality(S) \in Nat
  BY <1>1, FS_CardinalityType
<1>3. Cardinality(S \ {s}) # 0
  BY <1>1, FS_EmptySet
<1> QED
  BY <1>1, <1>2, <1>3

\* A call that wrote no more than OPBLOCKS blocks has two free blocks.
LEMMA FreeTwo ==
  ASSUME NEW A, IsFiniteSet(A), NEW w, NEW p \in A,
         Cardinality(w[p]) \in Nat, Cardinality(w[p]) <= OPBLOCKS
  PROVE  Cardinality(FreeOf(A, w)) >= 2
<1>1. <<p, OPBLOCKS>> \in FreeOf(A, w) /\ <<p, OPBLOCKS + 1>> \in FreeOf(A, w)
  BY LogConstants DEF FreeOf
<1>2. <<p, OPBLOCKS>> # <<p, OPBLOCKS + 1>>
  BY LogConstants
<1> QED
  BY <1>1, <1>2, FreeBound, TwoMembers

\* Writing one more block uses one free block.
LEMMA FreeLess ==
  ASSUME NEW A, IsFiniteSet(A), NEW w, NEW w2, NEW p \in A, NEW k \in 0..OPBLOCKS,
         Cardinality(w[p]) = k, Cardinality(w2[p]) = k + 1,
         \A q \in A \ {p} : w2[q] = w[q]
  PROVE  Cardinality(FreeOf(A, w2)) = Cardinality(FreeOf(A, w)) - 1
<1> DEFINE T == 0..(OPBLOCKS + 1)
<1>1. <<p, k>> \in FreeOf(A, w)
  BY LogConstants DEF FreeOf
<1>2. ASSUME NEW s \in A \X T
      PROVE  s \in FreeOf(A, w2) <=> s \in FreeOf(A, w) /\ s # <<p, k>>
  <2>1. s[1] \in A /\ s[2] \in T /\ s = <<s[1], s[2]>>
    OBVIOUS
  <2>2. s # <<p, k>> <=> s[1] # p \/ s[2] # k
    BY <2>1
  <2>3. CASE s[1] = p
    <3>1. Cardinality(w2[s[1]]) <= s[2] <=> Cardinality(w[s[1]]) <= s[2] /\ s[2] # k
      BY <2>1, <2>3, LogConstants
    <3> QED
      BY <2>2, <2>3, <3>1 DEF FreeOf
  <2>4. CASE s[1] # p
    BY <2>1, <2>2, <2>4 DEF FreeOf
  <2> QED
    BY <2>3, <2>4
<1>3. FreeOf(A, w2) = FreeOf(A, w) \ {<<p, k>>}
  <2>1. FreeOf(A, w2) \subseteq A \X T /\ FreeOf(A, w) \subseteq A \X T
    BY DEF FreeOf
  <2> QED
    BY <1>2, <2>1
<1> QED
  BY <1>1, <1>3, FreeBound, FS_RemoveElement, Zenon

\* Every step keeps the reservations covered by the space left in the log.
LEMMA SpaceStep ==
  ASSUME WellSized, TypeOK, CtlInv, TailInv, SpaceInv, [Next]_vars
  PROVE  SpaceInv'
<1> USE LogConstants
<1>0. Cardinality(Free) \in Nat
  BY FreeBound, ActiveFinite DEF Free
<1>1. ASSUME NEW p \in Proc, BeginOp(p) PROVE SpaceInv'
  <2>1. CASE MustWait
    <3>1. Active' = Active /\ Free' = Free
      BY <1>1, <2>1, ActiveStep DEF BeginOp, Free
    <3> QED
      BY <1>1, <2>1, <3>1, TypeOK, SpaceInv DEF BeginOp, SpaceInv, TypeOK, disk, Active
  <2>2. CASE ~MustWait
    <3>1. Active' = Active \cup {p} /\ p \notin Active
      BY <1>1, <2>2, ActiveStep DEF BeginOp, Active
    <3>2. IsFiniteSet(Active') /\ Cardinality(Active') = outstanding + 1
      BY <3>1, ActiveFinite, FS_AddElement, CtlInv DEF CtlInv
    <3>3. Cardinality(Free') <= (outstanding + 1) * (OPBLOCKS + 2)
      BY <3>2, FreeBound DEF Free
    <3>4. (outstanding + 1) * (OPBLOCKS + 2) <= (outstanding + 1) * MAXOPBLOCKS
      <4>1. \A k, m, n \in Nat : m <= n => k * m <= k * n
        BY SMTT(30)
      <4>2. outstanding + 1 \in Nat /\ OPBLOCKS + 2 \in Nat /\ MAXOPBLOCKS \in Nat
        BY LogConstants, TypeOK DEF TypeOK
      <4> QED
        BY <4>1, <4>2, WellSized, Zenon DEF WellSized
    <3>5. Cardinality(Free') \in Nat
      BY <3>2, FreeBound DEF Free
    <3>6. Len(lh) + (outstanding + 1) * MAXOPBLOCKS <= LOGSIZE
      BY <2>2, TypeOK DEF MustWait, TypeOK
    <3>7. Len(lh) + Cardinality(Free') <= LOGSIZE
      <4>1. \A a, b, c, d \in Int : a <= b /\ b <= c /\ d + c <= LOGSIZE => d + a <= LOGSIZE
        OBVIOUS
      <4> QED
        BY <3>3, <3>4, <3>5, <3>6, <4>1, TypeOK DEF TypeOK
    <3>8. wrote'[p] = {} /\ IsFiniteSet({}) /\ Cardinality({}) = 0
      BY <1>1, <2>2, FS_EmptySet, TypeOK DEF BeginOp, TypeOK
    <3>9. \A q \in Active : wrote'[q] = wrote[q] /\ pc'[q] = pc[q]
      BY <1>1, <2>2, <3>1, TypeOK DEF BeginOp, TypeOK, Active
    <3>10. pc'[p] = "op" /\ \A q \in Proc : pc'[q] # "panic"
      BY <1>1, <2>2, TypeOK, SpaceInv DEF BeginOp, TypeOK, SpaceInv
    <3>11. lh' = lh /\ hdr' = hdr /\ bp' = bp
      BY <1>1 DEF BeginOp, disk
    <3>12. Cardinality(wrote'[p]) <= OPBLOCKS /\ IsFiniteSet(wrote'[p])
      BY <3>8
    <3>13. ASSUME NEW q \in Active'
           PROVE  /\ wrote'[q] \subseteq Range(lh')
                  /\ IsFiniteSet(wrote'[q])
                  /\ Cardinality(wrote'[q]) <= OPBLOCKS
                  /\ pc'[q] = "append" =>
                       bp'[q] \in wrote'[q] \/ Cardinality(wrote'[q]) < OPBLOCKS
      <4>1. CASE q = p
        BY <3>8, <3>10, <3>12, <4>1
      <4>2. CASE q \in Active
        BY <3>9, <3>11, <4>2, SpaceInv DEF SpaceInv
      <4> QED
        BY <3>1, <4>1, <4>2
    <3> QED
      BY <3>7, <3>10, <3>11, <3>13, SpaceInv DEF SpaceInv
  <2> QED
    BY <2>1, <2>2
<1>2. ASSUME NEW p \in Proc, NEW b \in Block, LogWriteCheck(p, b) PROVE SpaceInv'
  <2>1. p \in Active
    BY <1>2 DEF LogWriteCheck, Active
  <2>2. Cardinality(wrote[p]) \in Nat /\ Cardinality(wrote[p]) <= OPBLOCKS
    BY <2>1, SpaceInv, FS_CardinalityType DEF SpaceInv
  <2>3. Cardinality(Free) >= 2
    BY <2>1, <2>2, FreeTwo, ActiveFinite DEF Free
  <2>4. ~TooBig
    BY <1>0, <2>3, SpaceInv, WellSized, TypeOK DEF SpaceInv, TooBig, WellSized, TypeOK
  <2>5. ~(outstanding < 1)
    BY <2>1, ActiveCounted
  <2>6. pc' = [pc EXCEPT ![p] = "append"] /\ bp' = [bp EXCEPT ![p] = b]
    BY <1>2, <2>4, <2>5, Zenon DEF LogWriteCheck
  <2>7. Active' = Active
    BY <1>2, <2>6, ActiveStep, TypeOK DEF TypeOK
  <2>8. wrote' = wrote /\ lh' = lh /\ hdr' = hdr
    BY <1>2 DEF LogWriteCheck, mem, disk
  <2>9. Free' = Free
    BY <2>7, <2>8 DEF Free
  <2>10. b \in wrote[p] \/ Cardinality(wrote[p]) < OPBLOCKS
    BY <1>2 DEF LogWriteCheck
  <2> QED
    BY <2>6, <2>7, <2>8, <2>9, <2>10, TypeOK, SpaceInv DEF SpaceInv, TypeOK, Active
<1>3. ASSUME NEW p \in Proc, NEW v \in Val, LogWriteAppend(p, v) PROVE SpaceInv'
  <2> DEFINE b == bp[p]
             k == Cardinality(wrote[p])
  <2>1. p \in Active /\ Active' = Active
    BY <1>3, ActiveStep DEF LogWriteAppend, Active
  <2>2. /\ wrote[p] \subseteq Range(lh) /\ IsFiniteSet(wrote[p]) /\ k \in Nat
        /\ k <= OPBLOCKS /\ (b \in wrote[p] \/ k < OPBLOCKS)
    BY <1>3, <2>1, SpaceInv, FS_CardinalityType DEF SpaceInv, LogWriteAppend
  <2>3. pc' = [pc EXCEPT ![p] = "op"] /\ bp' = bp /\ hdr' = hdr
    BY <1>3 DEF LogWriteAppend, disk
  <2>4. wrote' = [wrote EXCEPT ![p] = wrote[p] \cup {b}]
    BY <1>3 DEF LogWriteAppend
  <2>5. CASE b \in wrote[p]
    <3>1. wrote' = wrote
      BY <2>4, <2>5, TypeOK DEF TypeOK
    <3>2. lh' = lh
      BY <1>3, <2>2, <2>5 DEF LogWriteAppend
    <3>3. Free' = Free
      BY <2>1, <3>1 DEF Free
    <3> QED
      BY <2>1, <2>3, <3>1, <3>2, <3>3, TypeOK, SpaceInv DEF SpaceInv, TypeOK, Active
  <2>6. CASE b \notin wrote[p]
    <3>1. wrote'[p] = wrote[p] \cup {b} /\ \A q \in Proc \ {p} : wrote'[q] = wrote[q]
      BY <2>4, TypeOK DEF TypeOK
    <3>2. IsFiniteSet(wrote'[p]) /\ Cardinality(wrote'[p]) = k + 1
      BY <2>2, <2>6, <3>1, FS_AddElement
    <3>4. Cardinality(Free') = Cardinality(Free) - 1
      <4>1. \A q \in Active \ {p} : wrote'[q] = wrote[q]
        BY <3>1 DEF Active
      <4>2. k \in 0..OPBLOCKS
        BY <2>2
      <4> HIDE DEF k
      <4>3. Cardinality(wrote[p]) = k
        BY DEF k
      <4> QED
        BY <2>1, <3>2, <4>1, <4>2, <4>3, FreeLess, ActiveFinite DEF Free
    <3>5. Cardinality(Free) >= 2
      BY <2>1, <2>2, FreeTwo, ActiveFinite DEF Free
    <3>6. Len(lh') <= Len(lh) + 1 /\ Len(lh') \in Nat
      <4>1. b \in Block /\ lh \in Seq(Block)
        BY TypeOK DEF TypeOK
      <4>2. lh' = lh \/ lh' = Append(lh, b)
        BY <1>3 DEF LogWriteAppend
      <4> QED
        BY <4>1, <4>2
    <3>7. Range(lh) \cup {b} \subseteq Range(lh')
      <4>1. b \in Block /\ lh \in Seq(Block)
        BY TypeOK DEF TypeOK
      <4>2. Range(Append(lh, b)) = Range(lh) \cup {b}
        BY <4>1, RangeAppend
      <4> QED
        BY <1>3, <4>2 DEF LogWriteAppend
    <3>8. Len(lh') + Cardinality(Free') <= LOGSIZE /\ Len(lh') < LOGSIZE
      BY <1>0, <3>4, <3>5, <3>6, SpaceInv, TypeOK DEF SpaceInv, TypeOK
    <3>9. ASSUME NEW q \in Active
          PROVE  /\ wrote'[q] \subseteq Range(lh')
                 /\ IsFiniteSet(wrote'[q])
                 /\ Cardinality(wrote'[q]) <= OPBLOCKS
                 /\ pc'[q] = "append" =>
                      bp'[q] \in wrote'[q] \/ Cardinality(wrote'[q]) < OPBLOCKS
      <4>1. CASE q = p
        <5>1. wrote'[p] \subseteq Range(lh')
          BY <2>2, <3>1, <3>7
        <5>2. Cardinality(wrote'[p]) <= OPBLOCKS
          BY <2>2, <2>6, <3>2
        <5>3. pc'[p] = "op"
          BY <2>3, TypeOK DEF TypeOK
        <5> QED
          BY <3>2, <4>1, <5>1, <5>2, <5>3
      <4>2. CASE q # p
        BY <2>3, <3>1, <3>7, <4>2, SpaceInv, TypeOK DEF SpaceInv, Active, TypeOK
      <4> QED
        BY <4>1, <4>2
    <3>10. \A q \in Proc : pc'[q] # "panic"
      BY <2>3, TypeOK, SpaceInv DEF TypeOK, SpaceInv
    <3> QED
      BY <2>1, <2>3, <3>8, <3>9, <3>10, SpaceInv DEF SpaceInv
  <2> QED
    BY <2>5, <2>6
<1>4. ASSUME NEW p \in Proc, EndOp(p) PROVE SpaceInv'
  <2>1. p \in Active /\ ~committing
    BY <1>4, ActiveCounted DEF EndOp, Active
  <2>2. Active' = Active \ {p}
    BY <1>4, ActiveStep
  <2>3. wrote' = wrote /\ lh' = lh /\ hdr' = hdr /\ bp' = bp
    BY <1>4 DEF EndOp, disk
  <2>4. Free' \in SUBSET Free
    BY <2>2, <2>3 DEF Free, FreeOf
  <2>5. Cardinality(Free') \in Nat /\ Cardinality(Free') <= Cardinality(Free)
    BY <2>4, FreeBound, ActiveFinite, FS_Subset, FS_CardinalityType DEF Free
  <2>6. \A q \in Proc : pc'[q] # "panic"
    BY <1>4, <2>1, TypeOK, SpaceInv DEF EndOp, Woken, TypeOK, SpaceInv
  <2>7. \A q \in Active' : pc'[q] = pc[q]
    BY <1>4, <2>1, <2>2, TypeOK DEF EndOp, Woken, TypeOK, Active
  <2>8. Len(lh) + Cardinality(Free') <= LOGSIZE
    BY <1>0, <2>5, TypeOK, SpaceInv DEF TypeOK, SpaceInv
  <2> QED
    BY <2>2, <2>3, <2>6, <2>7, <2>8, SpaceInv DEF SpaceInv
<1>5. ASSUME NEW p \in Proc, EndCommit(p) PROVE SpaceInv'
  <2>1. Active' = Active
    BY <1>5, ActiveStep
  <2>2. wrote' = wrote /\ lh' = lh /\ hdr' = hdr /\ bp' = bp
    BY <1>5 DEF EndCommit, disk
  <2>3. Free' = Free
    BY <2>1, <2>2 DEF Free
  <2>4. \A q \in Proc : pc'[q] # "panic" /\ (q \in Active => pc'[q] = pc[q])
    BY <1>5, TypeOK, SpaceInv DEF EndCommit, Woken, TypeOK, SpaceInv, Active
  <2> QED
    BY <2>1, <2>2, <2>3, <2>4, SpaceInv DEF SpaceInv, Active
<1>6. ASSUME Active' = {}, Len(lh') < LOGSIZE, Len(lh') \in Nat, Len(hdr') < LOGSIZE,
             \A p \in Proc : pc'[p] # "panic"
      PROVE  SpaceInv'
  <2>1. Free' = {}
    BY <1>6 DEF Free, FreeOf
  <2>2. Cardinality(Free') = 0
    BY <2>1, FS_EmptySet
  <2>3. Len(lh') + Cardinality(Free') <= LOGSIZE
    BY <1>6, <2>2
  <2>4. \A p \in Active' : FALSE
    BY <1>6
  <2> QED
    BY <1>6, <2>3, <2>4 DEF SpaceInv
<1>7. ASSUME DiskStep PROVE SpaceInv'
  <2>1. Active = {}
    BY <1>7, CtlInv
    DEF DiskStep, WriteLog, WriteHead, InstallTrans, ClearHead, ReadHead, CtlInv, Active
  <2>2. pc' = pc /\ lh' \in {lh, <<>>, hdr} /\ hdr' \in {hdr, lh, <<>>}
    BY <1>7
    DEF DiskStep, WriteLog, WriteHead, InstallTrans, ClearHead, ReadHead, mem, disk, procs
  <2>3. Len(lh) \in Nat /\ Len(hdr) \in Nat /\ Len(<<>>) = 0 /\ 0 < LOGSIZE
    BY TypeOK DEF TypeOK
  <2> QED
    BY <1>6, <1>7, <2>1, <2>2, <2>3, ActiveStep, SpaceInv DEF SpaceInv
<1>8. ASSUME Crash PROVE SpaceInv'
  <2>1. lh' = <<>> /\ hdr' = hdr /\ \A p \in Proc : pc'[p] # "panic"
    BY <1>8 DEF Crash
  <2>2. Len(lh') = 0 /\ 0 < LOGSIZE
    BY <2>1
  <2> QED
    BY <1>6, <1>8, <2>1, <2>2, ActiveStep, SpaceInv DEF SpaceInv
<1>9. ASSUME UNCHANGED vars PROVE SpaceInv'
  BY <1>9, SpaceInv DEF SpaceInv, Free, Active, vars, disk, mem, procs
<1> QED
  BY <1>1, <1>2, <1>3, <1>4, <1>5, <1>7, <1>8, <1>9 DEF Next, Step
=============================================================================
