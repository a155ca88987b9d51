---------------------------- MODULE BufferedLog ----------------------------
(***************************************************************************)
(* kernel/log.c on top of kernel/bio.c: what Log takes on trust.  The log  *)
(* relies on pins (an extra reference) to keep the blocks of a transaction *)
(* in the cache until they are installed.  Processes read blocks outside   *)
(* transactions (fileread() does) while others log and commit.             *)
(***************************************************************************)
EXTENDS Bcache

CONSTANTS
  FsBlock,    \* blocks of the file system
  LogBlock,   \* the blocks of the on-disk log, as a sequence
  Header,     \* the log's header block
  BootLog     \* what the header lists when the machine boots

ASSUME BufferedLogConstants == Blocks = FsBlock \cup Range(LogBlock) \cup {Header}

VARIABLES
  lh, outstanding, committing,   \* struct log
  booting,                       \* initlog() has not returned yet
  truth                          \* the contents the file system gave each block

logVars == <<lh, outstanding, committing, booting>>
vars == <<cacheVars, logVars, truth>>

TypeOK ==
  /\ CacheTypeOK
  /\ lh \in Seq(FsBlock) /\ Len(lh) <= Len(LogBlock)
  /\ outstanding \in Nat
  /\ committing \in BOOLEAN /\ booting \in BOOLEAN
  /\ truth \in [FsBlock -> Val]

-----------------------------------------------------------------------------
(* The functions of log.c as lists of cache calls. *)

ForEach(body(_), n) == FlattenSeq([i \in 1..n |-> body(i)])

WriteLogBody(i) ==
  BreadInto(1, LogBlock[i]) \o BreadInto(2, lh[i])
    \o <<<<"copy", 1, 2>>, <<"bwrite", 1>>>> \o BrelseOf(2) \o BrelseOf(1)

WriteHead == BreadInto(1, Header) \o <<<<"bwrite", 1>>>> \o BrelseOf(1)

InstallBody(blocks, i) ==
  BreadInto(1, LogBlock[i]) \o BreadInto(2, blocks[i])
    \o <<<<"copy", 2, 1>>, <<"bwrite", 2>>, <<"bunpin", 2>>>> \o BrelseOf(1) \o BrelseOf(2)

InstallTrans(blocks) == ForEach(LAMBDA i : InstallBody(blocks, i), Len(blocks))

Commit ==
  IF lh = <<>> THEN <<>>
  ELSE ForEach(WriteLogBody, Len(lh)) \o WriteHead \o InstallTrans(lh)
         \o <<<<"clear">>>> \o WriteHead

ReadHead == BreadInto(1, Header) \o <<<<"read_head">>>> \o BrelseOf(1)

RecoverFromLog == ReadHead \o InstallTrans(BootLog) \o <<<<"clear">>>> \o WriteHead

\* The first process runs initlog() before any other one exists.  The disk is the one
\* mkfs zeroed, or its log has contents of its own.
Init ==
  /\ CacheInit
  /\ \E v, w \in Val : /\ disk = [b \in Blocks |-> IF b \in FsBlock THEN v ELSE w]
                       /\ BootLog = <<>> => v = w
  /\ truth = [b \in FsBlock |->
                IF b \in Range(BootLog)
                THEN disk[LogBlock[CHOOSE i \in DOMAIN BootLog : BootLog[i] = b]]
                ELSE disk[b]]
  /\ \E p \in Proc :
       todo = [q \in Proc |-> IF q = p THEN RecoverFromLog \o <<<<"booted">>>> ELSE <<>>]
  /\ lh = <<>>
  /\ outstanding = 0
  /\ committing = FALSE
  /\ booting = TRUE

-----------------------------------------------------------------------------
Booted(p) ==
  /\ At(p, "booted")
  /\ booting' = FALSE
  /\ Go(p, TRUE)
  /\ UNCHANGED <<disk, buf, lru, held, lh, outstanding, committing, truth>>

\* A read outside a transaction.
StartRead(p, b) ==
  /\ ~booting /\ todo[p] = <<>>
  /\ todo' = [todo EXCEPT ![p] = BreadInto(1, b) \o BrelseOf(1)]
  /\ UNCHANGED <<disk, buf, lru, held, logVars, truth>>

\* begin_op() admits a system call that writes one block (MAXOPBLOCKS = 1); the
\* waiting is Log's subject.
StartOp(p, b) ==
  /\ ~booting /\ todo[p] = <<>>
  /\ ~committing /\ Len(lh) + outstanding + 1 <= Len(LogBlock)
  /\ outstanding' = outstanding + 1
  /\ todo' = [todo EXCEPT ![p] = BreadInto(1, b) \o <<<<"log_write", 1>>>>
                                   \o BrelseOf(1) \o <<<<"end_op">>>>]
  /\ UNCHANGED <<disk, buf, lru, held, lh, committing, booting, truth>>

\* Faulty: log_write() records the block without pinning the buffer.
LogWriteNoPin(p, v) ==
  LET i == Mine(p)
      b == buf[i].blockno
  IN  /\ At(p, "log_write")
      /\ lh' = IF b \in Range(lh) THEN lh ELSE Append(lh, b)
      /\ buf' = [buf EXCEPT ![i].data = v]
      /\ truth' = [truth EXCEPT ![b] = v]
      /\ Go(p, TRUE)
      /\ UNCHANGED <<disk, lru, held, outstanding, committing, booting>>

\* Faulty: log_write() pins the buffer again when the block is already logged.
LogWritePinTwice(p, v) ==
  LET i == Mine(p)
      b == buf[i].blockno
  IN  /\ At(p, "log_write")
      /\ lh' = IF b \in Range(lh) THEN lh ELSE Append(lh, b)
      /\ buf' = [buf EXCEPT ![i].data = v, ![i].refcnt = (@ + 1) % REFMOD]
      /\ truth' = [truth EXCEPT ![b] = v]
      /\ Go(p, TRUE)
      /\ UNCHANGED <<disk, lru, held, outstanding, committing, booting>>

\* The caller, who holds the buffer's lock, changes the data to v and calls
\* log_write(): a block that is new to the transaction is recorded and pinned.  It panics
\* when the transaction is too big, or when there is none.
LogWrite(p, v) ==
  LET i == Mine(p)
      b == buf[i].blockno
      ok == Len(lh) < Len(LogBlock) /\ outstanding >= 1
      new == ok /\ b \notin Range(lh)
  IN  /\ At(p, "log_write")
      /\ lh' = IF new THEN Append(lh, b) ELSE lh
      /\ buf' = [buf EXCEPT ![i].data = v, ![i].refcnt = (@ + IF new THEN 1 ELSE 0) % REFMOD]
      /\ truth' = [truth EXCEPT ![b] = v]
      /\ Go(p, ok)
      /\ UNCHANGED <<disk, lru, held, outstanding, committing, booting>>

\* end_op(): the last outstanding system call commits.
EndOp(p) ==
  /\ At(p, "end_op")
  /\ outstanding' = outstanding - 1
  /\ committing' = (outstanding = 1)
  /\ todo' = [todo EXCEPT ![p] = IF outstanding = 1 THEN Commit \o <<<<"committed">>>>
                                 ELSE <<>>]
  /\ UNCHANGED <<disk, buf, lru, held, lh, booting, truth>>

\* memmove() between two held buffers.
Copy(p) ==
  LET to == Mine(p)
      from == held[p][Head(todo[p])[3]]
  IN  /\ At(p, "copy")
      /\ buf' = [buf EXCEPT ![to].data = buf[from].data]
      /\ Go(p, TRUE)
      /\ UNCHANGED <<disk, lru, held, logVars, truth>>

ReadHeadCopy(p) ==
  /\ At(p, "read_head")
  /\ lh' = BootLog
  /\ Go(p, TRUE)
  /\ UNCHANGED <<disk, buf, lru, held, outstanding, committing, booting, truth>>

\* log.lh.n = 0
Clear(p) ==
  /\ At(p, "clear")
  /\ lh' = <<>>
  /\ Go(p, TRUE)
  /\ UNCHANGED <<disk, buf, lru, held, outstanding, committing, booting, truth>>

Committed(p) ==
  /\ At(p, "committed")
  /\ committing' = FALSE
  /\ Go(p, TRUE)
  /\ UNCHANGED <<disk, buf, lru, held, lh, outstanding, booting, truth>>

Step(p) ==
  \/ CacheStep(p) /\ UNCHANGED <<logVars, truth>>
  \/ Booted(p) \/ EndOp(p) \/ Copy(p) \/ ReadHeadCopy(p) \/ Clear(p) \/ Committed(p)
  \/ \E b \in FsBlock : StartRead(p, b) \/ StartOp(p, b)
  \/ \E v \in Val : LogWrite(p, v)

\* panic() never returns; the other CPUs go on.
Panicked(p) == At(p, "panic") /\ UNCHANGED vars

Next == \E p \in Proc : Step(p) \/ Panicked(p)

Spec == Init /\ [][Next]_vars

-----------------------------------------------------------------------------
(* Properties. *)

\* A block has at most one copy in the cache (bget() looks before it recycles).
OneCopy ==
  \A i, j \in Bufs : buf[i].blockno = buf[j].blockno /\ buf[i].blockno # NoBlock => i = j

\* The blocks that are pinned: those of the running transaction, but for the ones that the
\* committer has installed already (it has `left' calls of bunpin() to make).
Pinned ==
  LET unpins(p) == Len(SelectSeq(todo[p], LAMBDA call : call[1] = "bunpin"))
      left == IF committing THEN Max({unpins(p) : p \in Proc}) ELSE Len(lh)
  IN  {lh[i] : i \in {j \in DOMAIN lh : j > Len(lh) - left}}

\* The blocks of the running transaction are in the cache until they are installed
\* (log_write(): "pin in the cache by increasing refcnt").
PinnedStaysCached ==
  ~booting => \A b \in Pinned : \E i \in Bufs : buf[i].blockno = b /\ buf[i].valid

\* A reference count counts exactly the processes that have the buffer and the pin of the
\* log: no commit, absorbed write or race of brelse() with bget() leaks a reference or
\* drops one too many, until the kernel panics.
RefcntExact ==
  ~booting /\ (\A p \in Proc : ~At(p, "panic")) =>
    \A i \in Bufs : buf[i].refcnt = References(i, Pinned)

\* Nothing a system call wrote is forgotten: a read returns what was last
\* written, whatever was evicted, committed or installed in between.
NoLostUpdate == ~booting => \A b \in FsBlock : Content(b) = truth[b]

\* The only panic is that of bget(), and only when the cache is really too small for what
\* runs: no buffer is lost to a reference that nobody has.  bwrite() and brelse() have the
\* lock of their buffer, and log_write() has room in the log.
PanicOnlyWhenFull ==
  [][\A p \in Proc : ~At(p, "panic") /\ At(p, "panic")' =>
       At(p, "bget") /\ \A i \in Bufs : References(i, Pinned) > 0]_vars
=============================================================================
