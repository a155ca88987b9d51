-------------------------------- MODULE Log --------------------------------
(***************************************************************************)
(* kernel/log.c: the redo log under the file system, its group commit, and *)
(* recovery after a crash at any point.                                    *)
(*                                                                         *)
(* The buffer cache is taken at its word here (BufferedLog looks inside    *)
(* it): cache[b] is what bread(b) returns.  A bwrite() is one step, because*)
(* virtio_disk_rw() waits for the device; a crash in the middle of it      *)
(* leaves a data block with any content, while the header fits one sector  *)
(* and is written whole or not at all.                                     *)
(***************************************************************************)
EXTENDS Integers, Sequences, FiniteSets, Functions

CONSTANTS
  Proc,         \* processes making FS system calls
  Block,        \* home blocks of the file system
  Val,          \* contents of a block
  MAXOPBLOCKS,  \* blocks begin_op() reserves for a system call
  LOGSIZE,      \* blocks begin_op() believes the log can hold
  NLOG,         \* sb.nlog: blocks of the on-disk log, its header included
  OPBLOCKS      \* distinct blocks a system call really writes

ASSUME LogConstants ==
  /\ MAXOPBLOCKS \in Nat \ {0}
  /\ LOGSIZE \in Nat
  /\ NLOG \in Nat
  /\ OPBLOCKS \in Nat
  /\ MAXOPBLOCKS <= LOGSIZE
  /\ IsFiniteSet(Proc)

VARIABLES
  home, logblk, hdr,          \* disk: home blocks, log blocks, log header
  cache,                      \* what bread() returns for each home block
  lh, outstanding, committing,\* struct log (lh.n is Len(lh))
  recovering, phase, tail,    \* where commit() or recover_from_log() is
  pc, wrote, bp               \* each process: where it is, what its call wrote

disk == <<home, logblk, hdr>>
mem == <<cache, lh, outstanding, committing>>
committer == <<recovering, phase, tail>>
procs == <<pc, wrote, bp>>
vars == <<disk, mem, committer, procs>>

\* Blocks that fit between the header and the first inode block.
LogBlocks == 1..(NLOG - 1)

Phases == {"run", "write_log", "write_head", "install", "clear", "done", "read_head"}

TypeOK ==
  /\ home \in [Block -> Val]
  /\ cache \in [Block -> Val]
  /\ logblk \in [LogBlocks -> Val]
  /\ hdr \in Seq(Block)
  /\ lh \in Seq(Block)
  /\ outstanding \in Nat
  /\ committing \in BOOLEAN
  /\ recovering \in BOOLEAN
  /\ phase \in Phases
  /\ tail \in Nat
  /\ pc \in [Proc -> {"user", "sleep", "begin", "op", "append", "commit", "panic"}]
  /\ wrote \in [Proc -> SUBSET Block]
  /\ bp \in [Proc -> Block]

\* A booting machine with the disk mkfs made: the log is empty.
Init ==
  /\ home \in [Block -> Val]
  /\ \E v \in Val : logblk = [i \in LogBlocks |-> v]
  /\ hdr = <<>>
  /\ cache = home
  /\ lh = <<>>
  /\ outstanding = 0
  /\ committing = FALSE
  /\ recovering = TRUE
  /\ phase = "read_head"
  /\ tail = 0
  /\ pc = [p \in Proc |-> "user"]
  /\ wrote = [p \in Proc |-> {}]
  /\ \E b \in Block : bp = [p \in Proc |-> b]

-----------------------------------------------------------------------------
(* The system-call side. *)

\* pc after p moves to s and wakes every process that sleeps on &log.
Woken(p, s) == [q \in Proc |-> IF q = p THEN s
                               ELSE IF pc[q] = "sleep" THEN "begin" ELSE pc[q]]

\* Faulty: begin_op() does not look at log.committing.
MustWaitIgnoringCommit == Len(lh) + (outstanding + 1) * MAXOPBLOCKS > LOGSIZE

\* Faulty: no space is reserved for the calling system call itself.
MustWaitOffByOne == committing \/ Len(lh) + outstanding * MAXOPBLOCKS > LOGSIZE

\* begin_op() reserves MAXOPBLOCKS or sleeps on &log, and tries again when woken.
MustWait == committing \/ Len(lh) + (outstanding + 1) * MAXOPBLOCKS > LOGSIZE

\* Faulty: log.outstanding is not incremented.
BeginOpUncounted(p) ==
  /\ ~recovering
  /\ pc[p] \in {"user", "begin"}
  /\ ~MustWait
  /\ pc' = [pc EXCEPT ![p] = "op"]
  /\ wrote' = [wrote EXCEPT ![p] = {}]
  /\ UNCHANGED <<disk, mem, committer, bp>>

BeginOp(p) ==
  /\ ~recovering
  /\ pc[p] \in {"user", "begin"}
  /\ \/ /\ MustWait
        /\ pc' = [pc EXCEPT ![p] = "sleep"]
        /\ UNCHANGED <<outstanding, wrote>>
     \/ /\ ~MustWait
        /\ outstanding' = outstanding + 1
        /\ pc' = [pc EXCEPT ![p] = "op"]
        /\ wrote' = [wrote EXCEPT ![p] = {}]
  /\ UNCHANGED <<disk, cache, lh, committing, committer, bp>>

\* The checks of log_write(), made without log.lock.  The caller holds the lock
\* of the buffer, so no one else is at the same block.
TooBig == Len(lh) >= LOGSIZE \/ Len(lh) >= NLOG - 1

LogWriteCheck(p, b) ==
  /\ pc[p] = "op"
  /\ b \in wrote[p] \/ Cardinality(wrote[p]) < OPBLOCKS
  /\ \A q \in Proc : ~(pc[q] = "append" /\ bp[q] = b)
  /\ pc' = [pc EXCEPT ![p] = IF TooBig \/ outstanding < 1 THEN "panic" ELSE "append"]
  /\ bp' = [bp EXCEPT ![p] = b]
  /\ UNCHANGED <<disk, mem, committer, wrote>>

\* The rest of log_write(), under log.lock: the block is recorded once.
LogWriteAppend(p, v) ==
  /\ pc[p] = "append"
  /\ lh' = IF bp[p] \in Range(lh) THEN lh ELSE Append(lh, bp[p])
  /\ cache' = [cache EXCEPT ![bp[p]] = v]
  /\ wrote' = [wrote EXCEPT ![p] = @ \cup {bp[p]}]
  /\ pc' = [pc EXCEPT ![p] = "op"]
  /\ UNCHANGED <<disk, outstanding, committing, committer, bp>>

\* end_op(), up to the call of commit() by the last outstanding system call.
EndOp(p) ==
  LET docommit == outstanding = 1 /\ ~committing
  IN  /\ pc[p] = "op"
      /\ outstanding' = outstanding - 1
      /\ committing' = (committing \/ docommit)
      /\ pc' = IF committing THEN [pc EXCEPT ![p] = "panic"]
               ELSE IF docommit THEN [pc EXCEPT ![p] = "commit"]
               ELSE Woken(p, "user")
      /\ phase' = IF ~docommit THEN phase ELSE IF lh # <<>> THEN "write_log" ELSE "done"
      /\ tail' = IF docommit THEN 0 ELSE tail
      /\ UNCHANGED <<disk, cache, lh, recovering, wrote, bp>>

-----------------------------------------------------------------------------
(* commit(), one disk write per step, and recover_from_log(). *)

\* The for loops over tail of write_log() and install_trans(): go on or leave.
Loop(next) ==
  IF tail + 1 < Len(lh) THEN tail' = tail + 1 /\ phase' = phase
                        ELSE tail' = 0 /\ phase' = next

WriteLog ==
  /\ phase = "write_log"
  /\ logblk' = [logblk EXCEPT ![tail + 1] = cache[lh[tail + 1]]]
  /\ Loop("write_head")
  /\ UNCHANGED <<home, hdr, mem, recovering, procs>>

\* The commit point.
WriteHead ==
  /\ phase = "write_head"
  /\ hdr' = lh
  /\ phase' = "install"
  /\ UNCHANGED <<home, logblk, mem, recovering, tail, procs>>

InstallTrans ==
  /\ phase = "install"
  /\ home' = [home EXCEPT ![lh[tail + 1]] = logblk[tail + 1]]
  /\ cache' = [cache EXCEPT ![lh[tail + 1]] = logblk[tail + 1]]
  /\ Loop("clear")
  /\ UNCHANGED <<logblk, hdr, lh, outstanding, committing, recovering, procs>>

\* log.lh.n = 0; write_head(): the end of commit() and of recover_from_log().
ClearHead ==
  /\ phase = "clear"
  /\ lh' = <<>>
  /\ hdr' = <<>>
  /\ phase' = IF recovering THEN "run" ELSE "done"
  /\ recovering' = FALSE
  /\ UNCHANGED <<home, logblk, cache, outstanding, committing, tail, procs>>

\* Faulty: end_op() does not wake the sleepers after the commit.
EndCommitSilent(p) ==
  /\ pc[p] = "commit"
  /\ phase = "done"
  /\ committing' = FALSE
  /\ phase' = "run"
  /\ pc' = [pc EXCEPT ![p] = "user"]
  /\ UNCHANGED <<disk, cache, lh, outstanding, recovering, tail, wrote, bp>>

\* The end of end_op(): admit the system calls that waited for the commit.
EndCommit(p) ==
  /\ pc[p] = "commit"
  /\ phase = "done"
  /\ committing' = FALSE
  /\ phase' = "run"
  /\ pc' = Woken(p, "user")
  /\ UNCHANGED <<disk, cache, lh, outstanding, recovering, tail, wrote, bp>>

ReadHead ==
  /\ phase = "read_head"
  /\ lh' = hdr
  /\ phase' = IF hdr = <<>> THEN "clear" ELSE "install"
  /\ UNCHANGED <<disk, cache, outstanding, committing, recovering, tail, procs>>

-----------------------------------------------------------------------------
(* The machine stops; memory is lost and the next boot starts recovery. *)

\* The block a crash interrupts the write of may hold anything afterwards.
Torn(v) ==
  /\ logblk' = IF phase = "write_log" THEN [logblk EXCEPT ![tail + 1] = v] ELSE logblk
  /\ home' = IF phase = "install" THEN [home EXCEPT ![lh[tail + 1]] = v] ELSE home

Crash ==
  /\ \/ UNCHANGED <<home, logblk>>
     \/ \E v \in Val : Torn(v)
  /\ cache' = home'
  /\ lh' = <<>>
  /\ outstanding' = 0
  /\ committing' = FALSE
  /\ recovering' = TRUE
  /\ phase' = "read_head"
  /\ tail' = 0
  /\ pc' = [p \in Proc |-> "user"]
  /\ wrote' = [p \in Proc |-> {}]
  /\ UNCHANGED <<hdr, bp>>

Step(p) ==
  \/ BeginOp(p)
  \/ \E b \in Block : LogWriteCheck(p, b)
  \/ \E v \in Val : LogWriteAppend(p, v)
  \/ EndOp(p)
  \/ EndCommit(p)

DiskStep == WriteLog \/ WriteHead \/ InstallTrans \/ ClearHead \/ ReadHead

Next == (\E p \in Proc : Step(p)) \/ DiskStep \/ Crash

Spec == Init /\ [][Next]_vars

\* A started commit or recovery goes on, woken processes run, and every FS system
\* call reaches its end_op().
Fairness ==
  /\ WF_vars(DiskStep)
  /\ \A p \in Proc : /\ WF_vars(pc[p] = "begin" /\ BeginOp(p))
                      /\ WF_vars(\E v \in Val : LogWriteAppend(p, v))
                      /\ SF_vars(EndOp(p))
                      /\ WF_vars(EndCommit(p))

FairSpec == Spec /\ Fairness

-----------------------------------------------------------------------------
(* Properties. *)

\* The file system a reboot would find: the home blocks d with the log l replayed
\* as the header h says.
Replay(h, l, d) ==
  [b \in Block |-> IF b \in Range(h) THEN l[CHOOSE i \in DOMAIN h : h[i] = b] ELSE d[b]]

Recovered == Replay(hdr, logblk, home)

\* The log implements a disk with atomic groups of system calls: a crash at any
\* step, torn block writes and crashes of the recovery included, leaves all the
\* updates of a group or none (log.c: "The logging system only commits when there
\* are no FS system calls active").
AD == INSTANCE AtomicDisk WITH
        durable <- Recovered,
        mem <- IF recovering THEN Recovered ELSE cache,
        active <- {p \in Proc : pc[p] \in {"op", "append"}}

AtomicGroups == AD!Spec

\* A process that sleeps in begin_op() has someone to wake it: a system call is
\* outstanding, or a commit is running (the wakeup(&log) calls of end_op()).
SleeperHasWaker ==
  (\E p \in Proc : pc[p] = "sleep") => outstanding > 0 \/ committing

\* The reservations of begin_op() keep log_write() and end_op() from panicking
\* and the log from growing into the inode blocks, although log_write() checks
\* the space without the lock.
LogFits ==
  /\ \A p \in Proc : pc[p] # "panic"
  /\ Len(lh) <= NLOG - 1

\* Waiting for log space ends: every sleeper in begin_op() is woken, and while
\* calls wait, some call is admitted, unless the machine goes down.
WaitersProgress ==
  /\ \A p \in Proc : pc[p] = "sleep" ~> pc[p] # "sleep"
  /\ (\E p \in Proc : pc[p] \in {"sleep", "begin"})
       ~> recovering \/ (\E p \in Proc : pc[p] = "op")
=============================================================================
