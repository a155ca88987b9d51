------------------------------- MODULE Bcache -------------------------------
(***************************************************************************)
(* kernel/bio.c: the cache of disk blocks.  Each process carries the list  *)
(* of cache calls its kernel code still has to make (todo), and each       *)
(* action is the next call of one process, split where the code lets go of *)
(* bcache.lock or of the buffer.  BufferedLog supplies the lists.          *)
(***************************************************************************)
EXTENDS Integers, Sequences, FiniteSets, SequencesExt

CONSTANTS
  Proc,      \* processes
  Blocks,    \* disk blocks, those of the log included
  Val,       \* contents of a block
  NBUF,      \* number of buffers
  REFMOD,    \* refcnt is an unsigned integer modulo REFMOD
  NoBlock,   \* the blockno of a buffer that was never used
  NoProc     \* the holder of a free sleep-lock

ASSUME BcacheConstants ==
  /\ NBUF \in Nat \ {0} /\ REFMOD \in Nat /\ REFMOD > 1
  /\ NoBlock \notin Blocks /\ NoProc \notin Proc

VARIABLES
  disk,      \* contents of the disk
  buf,       \* the buffers: blockno, valid, refcnt, data, and who holds the lock
  lru,       \* the buffers from bcache.head.next (most recent) to head.prev
  todo,      \* calls still to be made by each process
  held       \* the buffers bread() returned to each process, by local variable

cacheVars == <<disk, buf, lru, todo, held>>

Bufs == 1..NBUF
Slots == 1..2   \* a kernel function holds at most two buffers

CacheTypeOK ==
  /\ disk \in [Blocks -> Val]
  /\ buf \in [Bufs -> [blockno : Blocks \cup {NoBlock}, valid : BOOLEAN,
                       refcnt : 0..(REFMOD - 1), data : Val, lock : Proc \cup {NoProc}]]
  /\ lru \in [Bufs -> Bufs] /\ IsInjective(lru)
  /\ held \in [Proc -> [Slots -> 0..NBUF]]
  /\ DOMAIN todo = Proc

\* binit() pushes the buffers one by one in front of the list.
CacheInit ==
  /\ \E v \in Val : buf = [i \in Bufs |-> [blockno |-> NoBlock, valid |-> FALSE,
                                           refcnt |-> 0, data |-> v, lock |-> NoProc]]
  /\ lru = [i \in Bufs |-> NBUF + 1 - i]
  /\ held = [p \in Proc |-> [k \in Slots |-> 0]]

-----------------------------------------------------------------------------
\* The call p is at; after it p goes on with the next one, or panics.
At(p, call) == todo[p] # <<>> /\ Head(todo[p])[1] = call
Arg(p) == Head(todo[p])[2]
Go(p, ok) == todo' = [todo EXCEPT ![p] = IF ok THEN Tail(@) ELSE <<<<"panic">>>>]

\* The buffer in the local variable the call of p names.
Mine(p) == held[p][Arg(p)]

\* bread(b) into local variable k, and brelse() of it.
BreadInto(k, b) == <<<<"bget", k, b>>, <<"bread", k>>>>
BrelseOf(k) == <<<<"releasesleep", k>>, <<"unref", k>>>>

\* Faulty: the block is not looked for among the cached ones.
BgetNoLookup(p) ==
  LET b == Head(todo[p])[3]
      unused == {j \in Bufs : buf[lru[j]].refcnt = 0}
      i == lru[Max(unused)]
  IN  /\ At(p, "bget")
      /\ unused # {}
      /\ buf' = [buf EXCEPT ![i].blockno = b, ![i].valid = FALSE, ![i].refcnt = 1]
      /\ held' = [held EXCEPT ![p][Arg(p)] = i]
      /\ Go(p, TRUE)
      /\ UNCHANGED <<disk, lru>>

\* Faulty: the search for an unused buffer ends before the most recently used one.
BgetSkipsFirst(p) ==
  LET b == Head(todo[p])[3]
      hits == {i \in Bufs : buf[i].blockno = b}
      unused == {j \in Bufs \ {1} : buf[lru[j]].refcnt = 0}
      i == IF hits # {} THEN CHOOSE i \in hits : TRUE ELSE lru[Max(unused)]
  IN  /\ At(p, "bget")
      /\ Go(p, hits # {} \/ unused # {})
      /\ IF hits = {} /\ unused = {} THEN UNCHANGED <<buf, held>>
         ELSE /\ held' = [held EXCEPT ![p][Arg(p)] = i]
              /\ buf' = IF hits # {}
                        THEN [buf EXCEPT ![i].refcnt = (@ + 1) % REFMOD]
                        ELSE [buf EXCEPT ![i].blockno = b, ![i].valid = FALSE,
                                         ![i].refcnt = 1]
      /\ UNCHANGED <<disk, lru>>

\* bget() under bcache.lock: the cached buffer, else the least recently used
\* unreferenced one, else panic("bget: no buffers").
Bget(p) ==
  LET b == Head(todo[p])[3]
      hits == {i \in Bufs : buf[i].blockno = b}
      unused == {j \in Bufs : buf[lru[j]].refcnt = 0}
      i == IF hits # {} THEN CHOOSE i \in hits : TRUE ELSE lru[Max(unused)]
  IN  /\ At(p, "bget")
      /\ Go(p, hits # {} \/ unused # {})
      /\ IF hits = {} /\ unused = {} THEN UNCHANGED <<buf, held>>
         ELSE /\ held' = [held EXCEPT ![p][Arg(p)] = i]
              /\ buf' = IF hits # {}
                        THEN [buf EXCEPT ![i].refcnt = (@ + 1) % REFMOD]
                        ELSE [buf EXCEPT ![i].blockno = b, ![i].valid = FALSE,
                                         ![i].refcnt = 1]
      /\ UNCHANGED <<disk, lru>>

\* The end of bget() and the rest of bread(): the buffer is locked, and read from disk
\* unless it is valid.  Only the holder of the lock reads or writes that disk block.
Bread(p) ==
  LET i == Mine(p)
      b == [buf[i] EXCEPT !.lock = p]
  IN  /\ At(p, "bread")
      /\ buf[i].lock = NoProc
      /\ buf' = [buf EXCEPT ![i] = IF b.valid THEN b
                                   ELSE [b EXCEPT !.data = disk[b.blockno], !.valid = TRUE]]
      /\ Go(p, TRUE)
      /\ UNCHANGED <<disk, lru, held>>

Bwrite(p) ==
  LET i == Mine(p)
  IN  /\ At(p, "bwrite")
      /\ Go(p, buf[i].lock = p)
      /\ disk' = IF buf[i].lock = p THEN [disk EXCEPT ![buf[i].blockno] = buf[i].data]
                 ELSE disk
      /\ UNCHANGED <<buf, lru, held>>

\* brelse() first gives up the sleep-lock, then the reference.
ReleaseSleep(p) ==
  /\ At(p, "releasesleep")
  /\ Go(p, buf[Mine(p)].lock = p)
  /\ buf' = [buf EXCEPT ![Mine(p)].lock = IF @ = p THEN NoProc ELSE @]
  /\ UNCHANGED <<disk, lru, held>>

\* Faulty: the buffer is put in front of the list without being unlinked first.
UnrefNoUnlink(p) ==
  LET i == Mine(p)
      n == (buf[i].refcnt - 1) % REFMOD
  IN  /\ At(p, "unref")
      /\ buf' = [buf EXCEPT ![i].refcnt = n]
      /\ lru' = IF n = 0 THEN <<i>> \o lru ELSE lru
      /\ held' = [held EXCEPT ![p][Arg(p)] = 0]
      /\ Go(p, TRUE)
      /\ UNCHANGED disk

Unref(p) ==
  LET i == Mine(p)
      n == (buf[i].refcnt - 1) % REFMOD
  IN  /\ At(p, "unref")
      /\ buf' = [buf EXCEPT ![i].refcnt = n]
      /\ lru' = IF n = 0 THEN <<i>> \o Remove(lru, i) ELSE lru
      /\ held' = [held EXCEPT ![p][Arg(p)] = 0]
      /\ Go(p, TRUE)
      /\ UNCHANGED disk

Bunpin(p) ==
  /\ At(p, "bunpin")
  /\ buf' = [buf EXCEPT ![Mine(p)].refcnt = (@ - 1) % REFMOD]
  /\ Go(p, TRUE)
  /\ UNCHANGED <<disk, lru, held>>

CacheStep(p) ==
  \/ Bget(p) \/ Bread(p) \/ Bwrite(p)
  \/ ReleaseSleep(p) \/ Unref(p) \/ Bunpin(p)

-----------------------------------------------------------------------------
\* The reference count of a buffer when `pins' pins it: one for each process that
\* has it in a local variable, one for the pin.
References(i, pins) ==
  Cardinality({pk \in Proc \X Slots : held[pk[1]][pk[2]] = i})
    + (IF buf[i].blockno \in pins THEN 1 ELSE 0)

\* What bread(b) would return.
Content(b) ==
  LET copies == {i \in Bufs : buf[i].blockno = b /\ buf[i].valid}
  IN  IF copies = {} THEN disk[b] ELSE buf[CHOOSE i \in copies : TRUE].data
=============================================================================
