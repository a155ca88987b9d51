----------------------------- MODULE LogProofs -----------------------------
(***************************************************************************)
(* Proofs about Log, for any number of processes and blocks.               *)
(***************************************************************************)
EXTENDS LogInvariants

-----------------------------------------------------------------------------
\* Appending a new element to a sequence without repetitions adds none.
LEMMA InjectiveAppend ==
  ASSUME NEW S, NEW seq \in Seq(S), NEW e \in S, IsInjective(seq), e \notin Range(seq)
  PROVE  IsInjective(Append(seq, e))
<1> DEFINE t == Append(seq, e)
<1>1. /\ DOMAIN t = 1..(Len(seq) + 1) /\ DOMAIN seq = 1..Len(seq) /\ Len(seq) \in Nat
      /\ \A i \in 1..Len(seq) : t[i] = seq[i]
      /\ t[Len(seq) + 1] = e
  OBVIOUS
<1> HIDE DEF t
<1>2. IsInjective(t)
  BY <1>1 DEF IsInjective, Range
<1> QED
  BY <1>2 DEF t

\* Steps that leave the disk, the cache, the log and the committer alone.
LEMMA DataSame ==
  ASSUME DataInv, UNCHANGED <<disk, cache, lh, committer>>, Active' = {} => Active = {}
  PROVE  DataInv'
<1>1. home' = home /\ logblk' = logblk /\ hdr' = hdr /\ cache' = cache /\ lh' = lh
  BY DEF disk
<1>2. recovering' = recovering /\ phase' = phase /\ tail' = tail
  BY DEF committer
<1> QED
  BY <1>1, <1>2, DataInv DEF DataInv

\* Every step keeps cache, log blocks, header and home blocks consistent.
LEMMA DataStep ==
  ASSUME WellSized, TypeOK, CtlInv, TailInv, SpaceInv, DataInv, [Next]_vars
  PROVE  DataInv'
<1>l. lh \in Seq(Block) /\ hdr \in Seq(Block)
  BY TypeOK DEF TypeOK
<1>h. home \in [Block -> Val] /\ cache \in [Block -> Val]
  BY TypeOK DEF TypeOK
<1>k. logblk \in [LogBlocks -> Val] /\ tail \in Nat
  BY TypeOK DEF TypeOK
<1>e. IsInjective(<<>>)
  BY DEF IsInjective
<1>i. IsInjective(lh) /\ IsInjective(hdr)
  BY DataInv DEF DataInv
<1>1. ASSUME NEW p \in Proc, BeginOp(p) PROVE DataInv'
  <2>1. Active' = {} => Active = {}
    BY <1>1, ActiveStep
  <2>2. UNCHANGED <<disk, cache, lh, committer>>
    BY <1>1 DEF BeginOp
  <2> QED
    BY <2>1, <2>2, DataSame
<1>2. ASSUME NEW p \in Proc, NEW b \in Block, LogWriteCheck(p, b) PROVE DataInv'
  <2>1. p \in Active
    BY <1>2 DEF LogWriteCheck, Active
  <2>2. pc'[p] # "panic"
    BY <1>2, SpaceStep DEF SpaceInv
  <2>3. Active' = Active
    BY <1>2, <2>2, ActiveStep
  <2>4. UNCHANGED <<disk, cache, lh, committer>>
    BY <1>2 DEF LogWriteCheck, mem
  <2> QED
    BY <2>3, <2>4, DataSame
<1>3. ASSUME NEW p \in Proc, NEW v \in Val, LogWriteAppend(p, v) PROVE DataInv'
  <2>0. p \in Active
    BY <1>3 DEF LogWriteAppend, Active
  <2>1. phase = "run" /\ ~recovering /\ Active' = Active
    BY <1>3, <2>0, ActiveCounted, ActiveStep
  <2>2. bp[p] \in Block
    BY TypeOK DEF TypeOK
  <2>3. Range(lh') = Range(lh) \cup {bp[p]} /\ IsInjective(lh')
    <3>1. CASE bp[p] \in Range(lh)
      <4>1. lh' = lh
        BY <1>3, <3>1 DEF LogWriteAppend
      <4> QED
        BY <1>i, <3>1, <4>1
    <3>2. CASE bp[p] \notin Range(lh)
      <4>1. lh' = Append(lh, bp[p])
        BY <1>3, <3>2 DEF LogWriteAppend
      <4> QED
        BY <1>i, <1>l, <2>2, <3>2, <4>1, RangeAppend, InjectiveAppend
    <3> QED
      BY <3>1, <3>2
  <2>4. home' = home /\ hdr' = hdr /\ cache' = [cache EXCEPT ![bp[p]] = v]
    BY <1>3 DEF LogWriteAppend, disk
  <2>5. phase' = phase /\ recovering' = recovering
    BY <1>3 DEF LogWriteAppend, committer
  <2>6. \A c \in Block : c \notin Range(lh) => cache[c] = home[c]
    BY <2>1, DataInv DEF DataInv
  <2>7. \A c \in Block : c \notin Range(lh') => cache'[c] = home'[c]
    BY <1>h, <2>3, <2>4, <2>6
  <2>8. hdr = <<>>
    BY <2>1, DataInv DEF DataInv
  <2> QED
    BY <1>e, <2>0, <2>1, <2>3, <2>4, <2>5, <2>7, <2>8 DEF DataInv
<1>4. ASSUME NEW p \in Proc, EndOp(p) PROVE DataInv'
  <2>0. p \in Active
    BY <1>4 DEF EndOp, Active
  <2>1. phase = "run" /\ ~recovering /\ ~committing /\ outstanding \in Nat \ {0}
    BY <1>4, <2>0, ActiveCounted
  <2>2. Active' = {} => outstanding = 1
    <3>1. Cardinality(Active') = outstanding - 1
      BY <1>4, <2>0, <2>1, ActiveStep, ActiveFinite, FS_RemoveElement, CtlInv DEF CtlInv
    <3> QED
      BY <2>1, <3>1, FS_EmptySet
  <2>3. \/ phase' = "run" /\ outstanding # 1
        \/ phase' = "write_log" /\ tail' = 0
        \/ phase' = "done" /\ lh = <<>>
    BY <1>4, <2>1 DEF EndOp
  <2>4. home' = home /\ logblk' = logblk /\ hdr' = hdr /\ cache' = cache /\ lh' = lh
        /\ recovering' = recovering
    BY <1>4 DEF EndOp, disk
  <2>5. hdr = <<>> /\ \A c \in Block : c \notin Range(lh) => cache[c] = home[c]
    BY <2>1, DataInv DEF DataInv
  <2> QED
    BY <1>i, <2>1, <2>2, <2>3, <2>4, <2>5 DEF DataInv
<1>5. ASSUME NEW p \in Proc, EndCommit(p) PROVE DataInv'
  <2>1. home' = home /\ logblk' = logblk /\ hdr' = hdr /\ cache' = cache /\ lh' = lh
        /\ recovering' = recovering
    BY <1>5 DEF EndCommit, disk
  <2>2. phase = "done" /\ phase' = "run"
    BY <1>5 DEF EndCommit
  <2> QED
    BY <2>1, <2>2, DataInv DEF DataInv
<1>6. ASSUME WriteLog PROVE DataInv'
  <2>1. ~recovering
    BY <1>6, CtlInv DEF WriteLog, CtlInv
  <2>2. tail < Len(lh) /\ Len(lh) < LOGSIZE /\ LOGSIZE <= NLOG
    BY <1>6, TailInv, SpaceInv, WellSized DEF WriteLog, TailInv, SpaceInv, WellSized
  <2>3. tail + 1 \in LogBlocks
    BY <1>l, <1>k, <2>2, LogConstants DEF LogBlocks
  <2>4. \A i \in 1..tail : logblk[i] = cache[lh[i]]
    BY <1>6, DataInv DEF WriteLog, DataInv
  <2>5. logblk' = [logblk EXCEPT ![tail + 1] = cache[lh[tail + 1]]]
    BY <1>6 DEF WriteLog
  <2>6. \A i \in 1..(tail + 1) : logblk'[i] = cache[lh[i]]
    BY <1>k, <2>3, <2>4, <2>5
  <2>7. \/ phase' = "write_log" /\ tail' = tail + 1
        \/ phase' = "write_head" /\ tail' = 0 /\ Len(lh) = tail + 1
    BY <1>6, <1>l, <1>k, <2>2 DEF WriteLog, Loop
  <2>8. home' = home /\ hdr' = hdr /\ cache' = cache /\ lh' = lh /\ recovering' = recovering
    BY <1>6 DEF WriteLog, mem
  <2>9. hdr = <<>> /\ \A c \in Block : c \notin Range(lh) => cache[c] = home[c]
    BY <1>6, <2>1, DataInv DEF WriteLog, DataInv
  <2> QED
    BY <1>i, <2>1, <2>6, <2>7, <2>8, <2>9 DEF DataInv
<1>7. ASSUME WriteHead PROVE DataInv'
  <2>1. ~recovering
    BY <1>7, CtlInv DEF WriteHead, CtlInv
  <2>2. tail' = 0
    BY <1>7, TailInv DEF WriteHead, TailInv
  <2>3. home' = home /\ logblk' = logblk /\ cache' = cache /\ lh' = lh /\ recovering' = recovering
    BY <1>7 DEF WriteHead, mem
  <2>4. hdr' = lh /\ phase = "write_head" /\ phase' = "install"
    BY <1>7 DEF WriteHead
  <2>5. \A i \in 1..Len(lh) : logblk[i] = cache[lh[i]]
    BY <2>4, DataInv DEF DataInv
  <2>6. \A c \in Block : c \notin Range(lh) => cache[c] = home[c]
    BY <2>1, DataInv DEF DataInv
  <2> QED
    BY <1>i, <2>1, <2>2, <2>3, <2>4, <2>5, <2>6 DEF DataInv
<1>8. ASSUME InstallTrans PROVE DataInv'
  <2> DEFINE b == lh[tail + 1]
             v == logblk[tail + 1]
  <2>0. phase = "install" /\ hdr = lh /\ tail < Len(lh)
    BY <1>8, TailInv, DataInv DEF InstallTrans, TailInv, DataInv
  <2>1. tail + 1 \in DOMAIN lh /\ b \in Block
    BY <1>l, <1>k, <2>0
  <2>2. home' = [home EXCEPT ![b] = v] /\ cache' = [cache EXCEPT ![b] = v]
    BY <1>8 DEF InstallTrans
  <2>3. logblk' = logblk /\ hdr' = hdr /\ lh' = lh /\ recovering' = recovering
    BY <1>8 DEF InstallTrans
  <2>4. \/ phase' = "install" /\ tail' = tail + 1
        \/ phase' = "clear" /\ tail' = 0 /\ Len(lh) = tail + 1
    BY <1>8, <1>l, <1>k, <2>0 DEF InstallTrans, Loop
  <2>5. \A i \in 1..Len(lh) : lh[i] \in Block /\ (i # tail + 1 => lh[i] # b)
    BY <1>i, <1>l, <2>1 DEF IsInjective
  <2>6. \A i \in 1..(tail + 1) : home'[lh[i]] = logblk[i]
    <3>1. \A i \in 1..tail : home[lh[i]] = logblk[i]
      BY <2>0, DataInv DEF DataInv
    <3>2. \A i \in 1..tail : i \in 1..Len(lh) /\ i # tail + 1
      BY <1>l, <1>k, <2>0
    <3>3. \A i \in 1..tail : home'[lh[i]] = logblk[i]
      BY <1>h, <2>2, <2>5, <3>1, <3>2
    <3>4. home'[lh[tail + 1]] = logblk[tail + 1]
      BY <1>h, <2>1, <2>2
    <3> QED
      BY <1>k, <3>3, <3>4
  <2>7. ~recovering => \A i \in 1..Len(lh) : logblk[i] = cache'[lh[i]]
    <3>1. ~recovering => \A i \in 1..Len(lh) : logblk[i] = cache[lh[i]]
      BY <2>0, DataInv DEF DataInv
    <3> QED
      BY <1>h, <2>2, <2>5, <3>1
  <2>8. ~recovering => \A c \in Block : c \notin Range(lh) => cache'[c] = home'[c]
    <3>1. ~recovering => \A c \in Block : c \notin Range(lh) => cache[c] = home[c]
      BY DataInv DEF DataInv
    <3> QED
      BY <1>h, <2>2, <3>1
  <2>9. recovering => cache' = home'
    BY <2>2, DataInv DEF DataInv
  <2> HIDE DEF b, v
  <2>10. phase' = "install" => \A i \in 1..tail' : home'[lh'[i]] = logblk'[i]
    BY <2>3, <2>4, <2>6
  <2>11. phase' = "clear" => \A i \in 1..Len(lh') : home'[lh'[i]] = logblk'[i]
    BY <2>3, <2>4, <2>6
  <2>12. phase' \in {"install", "clear"}
    BY <2>4
  <2> QED
    BY <1>i, <2>0, <2>3, <2>7, <2>8, <2>9, <2>10, <2>11, <2>12 DEF DataInv
<1>9. ASSUME ClearHead PROVE DataInv'
  <2>1. \A b \in Block : cache[b] = home[b]
    <3>1. CASE recovering
      BY <3>1, DataInv DEF DataInv
    <3>2. CASE ~recovering
      <4>1. \A c \in Block : c \notin Range(lh) => cache[c] = home[c]
        BY <3>2, DataInv DEF DataInv
      <4>2. \A i \in 1..Len(lh) : logblk[i] = cache[lh[i]] /\ home[lh[i]] = logblk[i]
        BY <1>9, <3>2, DataInv DEF DataInv, ClearHead
      <4>3. \A c \in Range(lh) : \E i \in 1..Len(lh) : c = lh[i]
        BY <1>l DEF Range
      <4> QED
        BY <4>1, <4>2, <4>3
    <3> QED
      BY <3>1, <3>2
  <2>2. home' = home /\ cache' = cache /\ lh' = <<>> /\ hdr' = <<>> /\ recovering' = FALSE
    BY <1>9 DEF ClearHead
  <2>3. phase' \in {"run", "done"}
    BY <1>9 DEF ClearHead
  <2> QED
    BY <1>e, <2>1, <2>2, <2>3 DEF DataInv
<1>10. ASSUME ReadHead PROVE DataInv'
  <2>1. recovering
    BY <1>10, CtlInv DEF ReadHead, CtlInv
  <2>2. tail' = 0
    BY <1>10, TailInv DEF ReadHead, TailInv
  <2>3. hdr = <<>> => Len(hdr) = 0
    OBVIOUS
  <2>4. home' = home /\ logblk' = logblk /\ hdr' = hdr /\ cache' = cache
        /\ recovering' = recovering /\ lh' = hdr
    BY <1>10 DEF ReadHead, disk
  <2>5. phase' = "install" \/ (phase' = "clear" /\ hdr = <<>>)
    BY <1>10 DEF ReadHead
  <2>6. cache = home
    BY <2>1, DataInv DEF DataInv
  <2>7. phase' = "install" => \A i \in 1..tail' : home'[lh'[i]] = logblk'[i]
    BY <2>2
  <2>8. phase' = "clear" => \A i \in 1..Len(lh') : home'[lh'[i]] = logblk'[i]
    BY <2>3, <2>4, <2>5
  <2>9. IsInjective(lh') /\ IsInjective(hdr') /\ hdr' = lh' /\ cache' = home'
    BY <1>i, <2>4, <2>6
  <2> QED
    BY <2>1, <2>4, <2>5, <2>7, <2>8, <2>9 DEF DataInv
<1>11. ASSUME Crash PROVE DataInv'
  <2>1. cache' = home' /\ lh' = <<>> /\ recovering' = TRUE /\ phase' = "read_head" /\ hdr' = hdr
    BY <1>11 DEF Crash
  <2> QED
    BY <1>e, <1>i, <2>1 DEF DataInv
<1>12. ASSUME UNCHANGED vars PROVE DataInv'
  <2>1. UNCHANGED <<disk, cache, lh, committer>> /\ Active' = Active
    BY <1>12 DEF vars, mem, procs, Active
  <2> QED
    BY <2>1, DataSame
<1> QED
  BY <1>1, <1>2, <1>3, <1>4, <1>5, <1>6, <1>7, <1>8, <1>9, <1>10, <1>11, <1>12
  DEF Next, Step, DiskStep

\* Every step leaves somebody to wake the calls that sleep in begin_op().
LEMMA SleepStep ==
  ASSUME WellSized, TypeOK, CtlInv, TailInv, SpaceInv, DataInv, SleepInv, [Next]_vars
  PROVE  SleepInv'
<1>t. outstanding \in Nat /\ committing \in BOOLEAN
  BY TypeOK, Zenon DEF TypeOK
<1>c. pc \in [Proc -> {"user", "sleep", "begin", "op", "append", "commit", "panic"}]
  BY TypeOK DEF TypeOK
<1>1. ASSUME NEW p \in Proc, BeginOp(p) PROVE SleepInv'
  <2>1. CASE MustWait
    <3>1. Active' = Active /\ committing' = committing
      BY <1>1, <2>1, ActiveStep DEF BeginOp
    <3>2. ~recovering /\ (~committing => phase = "run")
      BY <1>1, CtlInv DEF BeginOp, CtlInv
    <3>3. ASSUME Active = {}, ~committing PROVE FALSE
      <4>1. lh = <<>> /\ outstanding = 0
        BY <3>2, <3>3, CtlInv, DataInv, FS_EmptySet DEF CtlInv, DataInv
      <4>2. Len(lh) = 0
        BY <4>1
      <4> QED
        BY <1>t, <2>1, <3>3, <4>1, <4>2, LogConstants DEF MustWait
    <3> QED
      BY <3>1, <3>3 DEF SleepInv
  <2>2. CASE ~MustWait
    BY <1>1, <2>2, ActiveStep, Zenon DEF SleepInv
  <2> QED
    BY <2>1, <2>2
<1>2. ASSUME NEW p \in Proc, NEW b \in Block, LogWriteCheck(p, b) PROVE SleepInv'
  <2>1. pc'[p] # "panic" /\ p \in Active
    BY <1>2, SpaceStep DEF SpaceInv, LogWriteCheck, Active
  <2> QED
    BY <1>2, <2>1, ActiveStep DEF SleepInv
<1>3. ASSUME NEW p \in Proc, NEW v \in Val, LogWriteAppend(p, v) PROVE SleepInv'
  <2>1. p \in Active
    BY <1>3 DEF LogWriteAppend, Active
  <2> QED
    BY <1>3, <2>1, ActiveStep DEF SleepInv
<1>4. ASSUME NEW p \in Proc, EndOp(p) PROVE SleepInv'
  <2>1. ~committing
    BY <1>4, ActiveCounted DEF EndOp, Active
  <2> QED
    BY <1>4, <2>1, Zenon DEF EndOp, Woken, SleepInv
<1>5. ASSUME NEW p \in Proc, EndCommit(p) PROVE SleepInv'
  BY <1>5 DEF EndCommit, Woken, SleepInv
<1>6. ASSUME DiskStep PROVE SleepInv'
  BY <1>6, ActiveStep, SleepInv, Zenon
  DEF DiskStep, WriteLog, WriteHead, InstallTrans, ClearHead, ReadHead, SleepInv, mem, procs
<1>7. ASSUME Crash PROVE SleepInv'
  BY <1>7 DEF Crash, SleepInv
<1>8. ASSUME UNCHANGED vars PROVE SleepInv'
  BY <1>8, SleepInv DEF SleepInv, vars, mem, procs, Active
<1> QED
  BY <1>1, <1>2, <1>3, <1>4, <1>5, <1>6, <1>7, <1>8 DEF Next, Step

-----------------------------------------------------------------------------
\* The inductive invariant of the logging layer.
IInv == TypeOK /\ CtlInv /\ TailInv /\ SpaceInv /\ DataInv /\ SleepInv

\* The machine boots in a state of the inductive invariant.
LEMMA InitIInv == ASSUME WellSized, Init PROVE IInv
<1> USE LogConstants
<1>1. TypeOK
  <2>1. logblk \in [LogBlocks -> Val] /\ bp \in [Proc -> Block]
    BY Init DEF Init
  <2>2. pc \in [Proc -> {"user", "sleep", "begin", "op", "append", "commit", "panic"}]
    BY Init DEF Init
  <2>3. wrote \in [Proc -> SUBSET Block] /\ lh \in Seq(Block) /\ hdr \in Seq(Block)
    BY Init DEF Init
  <2>4. phase \in Phases /\ tail \in Nat /\ outstanding \in Nat
    BY Init DEF Init, Phases
  <2>5. home \in [Block -> Val] /\ cache \in [Block -> Val]
    BY Init DEF Init
  <2>6. recovering \in BOOLEAN /\ committing \in BOOLEAN
    BY Init, Zenon DEF Init
  <2> QED
    BY <2>1, <2>2, <2>3, <2>4, <2>5, <2>6 DEF TypeOK
<1>2. Active = {}
  BY Init DEF Init, Active
<1>3. CtlInv
  BY <1>2, Init, FS_EmptySet DEF Init, CtlInv
<1>4. TailInv
  BY Init DEF Init, TailInv
<1>5. SpaceInv
  <2>1. Free = {}
    BY <1>2 DEF Free, FreeOf
  <2>2. Cardinality(Free) = 0 /\ Len(lh) = 0 /\ Len(hdr) = 0
    BY <2>1, FS_EmptySet, Init DEF Init
  <2> QED
    BY <1>2, <2>2, Init DEF Init, SpaceInv
<1>6. DataInv
  BY Init DEF Init, DataInv, IsInjective
<1>7. SleepInv
  BY Init DEF Init, SleepInv
<1> QED
  BY <1>1, <1>3, <1>4, <1>5, <1>6, <1>7 DEF IInv

\* Every step preserves the inductive invariant.
LEMMA NextIInv == ASSUME WellSized, IInv, [Next]_vars PROVE IInv'
<1>1. SpaceInv'
  BY SpaceStep DEF IInv
<1>2. CtlInv'
  BY <1>1, CtlStep DEF IInv, SpaceInv
<1> QED
  BY <1>1, <1>2, TypeStep, TailStep, DataStep, SleepStep DEF IInv

\* The data structures of log.c keep their types, and commit() and recovery
\* index only blocks that are logged.
THEOREM TypeCorrect == ASSUME WellSized PROVE Spec => []TypeOK
<1>1. Init => IInv
  BY InitIInv
<1>2. IInv /\ [Next]_vars => IInv'
  BY NextIInv
<1>3. IInv => TypeOK
  BY DEF IInv
<1> QED
  BY <1>1, <1>2, <1>3, PTL DEF Spec

\* The reservations of begin_op() are enough: log_write() never panics and the
\* log never outgrows its blocks, with any number of concurrent system calls.
THEOREM LogAlwaysFits == ASSUME WellSized PROVE Spec => []LogFits
<1>1. Init => IInv
  BY InitIInv
<1>2. IInv /\ [Next]_vars => IInv'
  BY NextIInv
<1>3. IInv => LogFits
  <2> SUFFICES ASSUME IInv PROVE Len(lh) <= NLOG - 1
    BY DEF IInv, LogFits, SpaceInv
  <2>1. Len(lh) < LOGSIZE /\ Len(lh) \in Nat
    BY DEF IInv, SpaceInv, TypeOK
  <2> QED
    BY <2>1, LogConstants, WellSized DEF WellSized
<1> QED
  BY <1>1, <1>2, <1>3, PTL DEF Spec

\* No system call sleeps in begin_op() with nobody left to wake it.
THEOREM NoLostSleeper == ASSUME WellSized PROVE Spec => []SleeperHasWaker
<1>1. Init => IInv
  BY InitIInv
<1>2. IInv /\ [Next]_vars => IInv'
  BY NextIInv
<1>3. IInv => SleeperHasWaker
  <2> SUFFICES ASSUME IInv, Active # {} PROVE outstanding > 0
    BY DEF IInv, SleepInv, SleeperHasWaker
  <2> QED
    BY ActiveCounted DEF IInv
<1> QED
  BY <1>1, <1>2, <1>3, PTL DEF Spec

-----------------------------------------------------------------------------
(* Log implements AtomicDisk: what replaying the log yields. *)

\* An empty header replays nothing.
LEMMA ReplayEmpty ==
  ASSUME NEW l, NEW d \in [Block -> Val] PROVE Replay(<<>>, l, d) = d
BY DEF Replay, Range

\* A logged block is replayed from its copy in the log.
LEMMA ReplayAt ==
  ASSUME NEW h \in Seq(Block), IsInjective(h), NEW l, NEW d, NEW i \in DOMAIN h
  PROVE  Replay(h, l, d)[h[i]] = l[i]
<1>1. h[i] \in Block /\ h[i] \in Range(h)
  BY DEF Range
<1>2. (CHOOSE j \in DOMAIN h : h[j] = h[i]) = i
  BY DEF IsInjective
<1> QED
  BY <1>1, <1>2, Zenon DEF Replay

\* The log l of the blocks h and, for the other blocks, d hold the contents c.
Holds(h, l, d, c) ==
  /\ h \in Seq(Block) /\ IsInjective(h) /\ c \in [Block -> Val]
  /\ \A i \in 1..Len(h) : l[i] = c[h[i]]
  /\ \A b \in Block : b \notin Range(h) => d[b] = c[b]

\* Replaying such a log yields c.
LEMMA ReplayEq ==
  ASSUME NEW h, NEW l, NEW d, NEW c, Holds(h, l, d, c)
  PROVE  Replay(h, l, d) = c
<1> USE DEF Holds
<1>1. ASSUME NEW b \in Block PROVE Replay(h, l, d)[b] = c[b]
  <2>1. CASE b \in Range(h)
    <3>1. PICK i \in DOMAIN h : h[i] = b
      BY <2>1 DEF Range
    <3>2. i \in 1..Len(h)
      OBVIOUS
    <3> QED
      BY <3>1, <3>2, ReplayAt
  <2>2. CASE b \notin Range(h)
    BY <2>2 DEF Replay
  <2> QED
    BY <2>1, <2>2
<1>2. Replay(h, l, d) = [b \in Block |-> Replay(h, l, d)[b]]
  BY DEF Replay
<1> QED
  BY <1>1, <1>2

\* The home contents of logged blocks do not matter to the replay.
LEMMA ReplaySame ==
  ASSUME NEW h, NEW l, NEW d, NEW e, \A b \in Block : b \notin Range(h) => d[b] = e[b]
  PROVE  Replay(h, l, d) = Replay(h, l, e)
BY DEF Replay

\* What the refinement mapping makes of each step.
LEMMA RefineStep ==
  ASSUME WellSized, IInv, IInv', [Next]_vars
  PROVE  [AD!Next]_(AD!vars)
<1> DEFINE M == IF recovering THEN Recovered ELSE cache
<1> USE DEF AD!vars, Active
<1>t. TypeOK /\ TypeOK'
  BY DEF IInv
<1>1. ASSUME NEW p \in Proc, BeginOp(p) PROVE [AD!Next]_(AD!vars)
  <2>1. Recovered' = Recovered /\ M' = M /\ ~recovering
    BY <1>1 DEF BeginOp, Recovered, disk, committer
  <2>2. CASE MustWait
    BY <1>1, <2>1, <2>2, <1>t, ActiveStep DEF IInv
  <2>3. CASE ~MustWait
    <3>1. Active' = Active \cup {p} /\ p \notin Active
      BY <1>1, <2>3, ActiveStep DEF BeginOp, IInv
    <3>2. Active = {} => Recovered = cache
      <4> SUFFICES ASSUME Active = {} PROVE Recovered = cache
        OBVIOUS
      <4>1. phase = "run"
        BY <2>1, <2>3 DEF MustWait, IInv, CtlInv
      <4>2. lh = <<>> /\ hdr = <<>>
        BY <4>1 DEF IInv, DataInv
      <4>3. \A b \in Block : cache[b] = home[b]
        <5>1. ~recovering => \A b \in Block : b \notin Range(lh) => cache[b] = home[b]
          BY DEF IInv, DataInv
        <5>2. \A b \in Block : b \notin Range(lh)
          BY <4>2 DEF Range
        <5> QED
          BY <2>1, <5>1, <5>2, Zenon
      <4>4. cache = home
        BY <4>3, <1>t DEF TypeOK
      <4> QED
        BY <4>2, <4>4, <1>t, ReplayEmpty DEF Recovered, TypeOK
    <3>3. AD!Begin(p)
      BY <2>1, <3>1, <3>2 DEF AD!Begin
    <3> QED
      BY <3>3 DEF AD!Next
  <2> QED
    BY <2>2, <2>3
<1>2. ASSUME NEW p \in Proc, NEW b \in Block, LogWriteCheck(p, b) PROVE [AD!Next]_(AD!vars)
  <2>1. Active' = Active
    BY <1>2, ActiveStep DEF IInv, SpaceInv
  <2> QED
    BY <1>2, <2>1 DEF LogWriteCheck, Recovered, disk, mem, committer
<1>3. ASSUME NEW p \in Proc, NEW v \in Val, LogWriteAppend(p, v) PROVE [AD!Next]_(AD!vars)
  <2>1. p \in Active /\ Active' = Active
    BY <1>3, ActiveStep DEF LogWriteAppend, IInv
  <2>2. ~recovering
    BY <2>1, ActiveCounted DEF IInv
  <2>3. Recovered' = Recovered /\ recovering' = recovering /\ bp[p] \in Block
    BY <1>3, <1>t DEF LogWriteAppend, Recovered, disk, committer, TypeOK
  <2>4. cache' = [cache EXCEPT ![bp[p]] = v]
    BY <1>3 DEF LogWriteAppend
  <2>5. AD!Write(p, bp[p], v)
    BY <2>1, <2>2, <2>3, <2>4 DEF AD!Write
  <2> QED
    BY <2>3, <2>5 DEF AD!Next
<1>4. ASSUME NEW p \in Proc, EndOp(p) PROVE [AD!Next]_(AD!vars)
  <2>1. p \in Active /\ Active' = Active \ {p}
    BY <1>4, ActiveStep, Zenon DEF EndOp, IInv
  <2>2. AD!End(p)
    BY <1>4, <2>1 DEF AD!End, EndOp, Recovered, disk
  <2> QED
    BY <2>2 DEF AD!Next
<1>5. ASSUME NEW p \in Proc, EndCommit(p) PROVE [AD!Next]_(AD!vars)
  <2>1. Active' = Active
    BY <1>5, ActiveStep DEF IInv
  <2> QED
    BY <1>5, <2>1 DEF EndCommit, Recovered, disk
<1>6. ASSUME WriteLog PROVE [AD!Next]_(AD!vars)
  <2>1. hdr = <<>> /\ hdr' = hdr /\ home' = home
    BY <1>6 DEF WriteLog, IInv, DataInv
  <2>2. Recovered' = home /\ Recovered = home
    BY <2>1, <1>t, ReplayEmpty DEF Recovered, TypeOK
  <2> QED
    BY <1>6, <2>2 DEF WriteLog, mem, procs
<1>7. ASSUME WriteHead PROVE [AD!Next]_(AD!vars)
  <2>1. ~recovering /\ Active = {}
    BY <1>7 DEF WriteHead, IInv, CtlInv
  <2>2. Recovered' = cache
    <3>1. \A i \in 1..Len(lh) : logblk[i] = cache[lh[i]]
      BY <1>7 DEF WriteHead, IInv, DataInv
    <3>2. \A b \in Block : b \notin Range(lh) => home[b] = cache[b]
      BY <2>1 DEF IInv, DataInv
    <3>3. IsInjective(lh) /\ lh \in Seq(Block) /\ cache \in [Block -> Val]
      BY <1>t DEF IInv, DataInv, TypeOK
    <3>4. Replay(lh, logblk, home) = cache
      <4>1. Holds(lh, logblk, home, cache)
        BY <3>1, <3>2, <3>3 DEF Holds
      <4> QED
        BY <4>1, ReplayEq, Zenon
    <3> QED
      BY <1>7, <3>4 DEF WriteHead, Recovered
  <2>3. AD!Commit
    BY <1>7, <2>1, <2>2 DEF WriteHead, AD!Commit, mem, procs
  <2> QED
    BY <2>3 DEF AD!Next
<1>8. ASSUME InstallTrans PROVE [AD!Next]_(AD!vars)
  <2> DEFINE b == lh[tail + 1]
             v == logblk[tail + 1]
  <2>0. tail < Len(lh) /\ hdr = lh
    BY <1>8 DEF InstallTrans, IInv, TailInv, DataInv
  <2>a. lh \in Seq(Block) /\ tail \in Nat
    BY <1>t DEF TypeOK
  <2>1. tail + 1 \in DOMAIN lh /\ tail + 1 \in 1..Len(lh) /\ hdr = lh
    BY <2>0, <2>a
  <2>b. b \in Block
    BY <2>1, <2>a
  <2>c. b \in Range(hdr)
    BY <2>1 DEF Range
  <2>2. b \in Range(hdr) /\ b \in Block
    BY <2>b, <2>c
  <2>3. home' = [home EXCEPT ![b] = v] /\ cache' = [cache EXCEPT ![b] = v]
    BY <1>8 DEF InstallTrans
  <2>4. \A c \in Block : c \notin Range(hdr) => home'[c] = home[c]
    BY <2>2, <2>3, <1>t DEF TypeOK
  <2>5. Recovered' = Recovered
    <3>1. hdr' = hdr /\ logblk' = logblk
      BY <1>8 DEF InstallTrans
    <3> QED
      BY <2>4, <3>1, ReplaySame DEF Recovered
  <2>6. ~recovering => cache' = cache
    <3>1. ~recovering => v = cache[b]
      BY <1>8, <2>1 DEF InstallTrans, IInv, DataInv
    <3> QED
      BY <2>3, <3>1, <1>t DEF TypeOK
  <2> QED
    BY <1>8, <2>5, <2>6, Zenon DEF InstallTrans, procs
<1>9. ASSUME ClearHead PROVE [AD!Next]_(AD!vars)
  <2>1. hdr = lh /\ \A i \in 1..Len(hdr) : logblk[i] = home[hdr[i]]
    <3>1. phase = "clear" /\ DataInv
      BY <1>9 DEF ClearHead, IInv
    <3>2. hdr = lh /\ \A i \in 1..Len(lh) : home[lh[i]] = logblk[i]
      BY <3>1 DEF DataInv
    <3> QED
      BY <3>2
  <2>2. Recovered = home
    <3>1. hdr \in Seq(Block) /\ IsInjective(hdr) /\ home \in [Block -> Val]
      BY <1>t DEF IInv, DataInv, TypeOK
    <3>2. \A b \in Block : b \notin Range(hdr) => home[b] = home[b]
      OBVIOUS
    <3>3. Replay(hdr, logblk, home) = home
      <4>1. Holds(hdr, logblk, home, home)
        BY <2>1, <3>1, <3>2 DEF Holds
      <4> QED
        BY <4>1, ReplayEq, Zenon
    <3> QED
      BY <3>3 DEF Recovered
  <2>3. Recovered' = home
    BY <1>9, <1>t, ReplayEmpty DEF ClearHead, Recovered, TypeOK
  <2>4. ~recovering' /\ cache' = cache
    BY <1>9 DEF ClearHead
  <2>5. recovering => cache = home
    BY DEF IInv, DataInv
  <2> QED
    BY <1>9, <2>2, <2>3, <2>4, <2>5 DEF ClearHead, procs
<1>10. ASSUME ReadHead PROVE [AD!Next]_(AD!vars)
  BY <1>10 DEF ReadHead, Recovered, disk, procs
<1>11. ASSUME Crash PROVE [AD!Next]_(AD!vars)
  <2>1. Recovered' = Recovered
    <3>1. CASE UNCHANGED <<home, logblk>>
      BY <1>11, <3>1 DEF Crash, Recovered
    <3>2. ASSUME NEW v \in Val, Torn(v) PROVE Recovered' = Recovered
      <4>1. CASE phase = "write_log"
        <5>1. hdr = <<>> /\ hdr' = <<>> /\ home' = home
          BY <1>11, <3>2, <4>1 DEF Crash, Torn, IInv, DataInv
        <5> QED
          BY <5>1, <1>t, ReplayEmpty DEF Recovered, TypeOK
      <4>2. CASE phase = "install"
        <5>1. lh[tail + 1] \in Range(hdr)
          <6>1. tail + 1 \in DOMAIN lh /\ hdr = lh
            <7>1. tail < Len(lh) /\ hdr = lh
              BY <4>2 DEF IInv, TailInv, DataInv
            <7> QED
              BY <7>1, <1>t DEF TypeOK
          <6> QED
            BY <6>1 DEF Range
        <5>2. home' = [home EXCEPT ![lh[tail + 1]] = v] /\ logblk' = logblk /\ hdr' = hdr
          BY <1>11, <3>2, <4>2 DEF Crash, Torn
        <5>3. \A c \in Block : c \notin Range(hdr) => home'[c] = home[c]
          BY <5>1, <5>2, <1>t DEF TypeOK
        <5>4. logblk' = logblk /\ hdr' = hdr
          BY <5>2
        <5> QED
          BY <5>3, <5>4, ReplaySame DEF Recovered
      <4>3. CASE phase \notin {"write_log", "install"}
        BY <1>11, <3>2, <4>3 DEF Crash, Torn, Recovered
      <4> QED
        BY <4>1, <4>2, <4>3
    <3> QED
      BY <1>11, <3>1, <3>2 DEF Crash
  <2>2. Active' = {} /\ recovering'
    BY <1>11 DEF Crash
  <2>3. AD!Crash
    BY <2>1, <2>2 DEF AD!Crash
  <2> QED
    BY <2>3 DEF AD!Next
<1>12. ASSUME UNCHANGED vars PROVE [AD!Next]_(AD!vars)
  BY <1>12 DEF vars, disk, mem, committer, procs, Recovered
<1> QED
  BY <1>1, <1>2, <1>3, <1>4, <1>5, <1>6, <1>7, <1>8, <1>9, <1>10, <1>11, <1>12
  DEF Next, Step, DiskStep

\* Crash safety: the redo log of log.c implements a disk that groups of system
\* calls update atomically, whatever the point at which the machine stops.
THEOREM CrashSafe == ASSUME WellSized PROVE Spec => AtomicGroups
<1>1. Init => IInv
  BY InitIInv
<1>2. IInv /\ [Next]_vars => IInv'
  BY NextIInv
<1>3. Init => AD!Init
  <2> SUFFICES ASSUME Init PROVE AD!Init
    OBVIOUS
  <2>1. home \in [Block -> Val] /\ hdr = <<>> /\ recovering
    BY DEF Init
  <2>2. Recovered = home
    BY <2>1, ReplayEmpty DEF Recovered
  <2>3. {p \in Proc : pc[p] \in {"op", "append"}} = {}
    BY DEF Init
  <2> QED
    BY <2>1, <2>2, <2>3 DEF AD!Init
<1>4. IInv /\ IInv' /\ [Next]_vars => [AD!Next]_(AD!vars)
  BY RefineStep
<1> QED
  BY <1>1, <1>2, <1>3, <1>4, PTL DEF Spec, AtomicGroups, AD!Spec
=============================================================================
