-------------------------------- MODULE Pipe --------------------------------
(***************************************************************************)
(* kernel/pipe.c: processes that read from and write to one pipe, close    *)
(* its ends and are killed.  All of it runs under pi->lock, which sleep()  *)
(* gives up (Sleeplock shows that this loses no wakeup); only kill() does  *)
(* not take it.  A process holds an end open as long as it has a           *)
(* descriptor for it, so pipeclose() is what the last one to close does.   *)
(***************************************************************************)
EXTENDS Integers, Sequences, FiniteSets

CONSTANTS
  Proc,       \* processes that have the pipe
  Victims,    \* those among them that kill() may be called on
  Byte,       \* bytes
  PIPESIZE,   \* size of the buffer
  WRAP,       \* nread and nwrite are unsigned integers modulo WRAP
  MAXREQ,     \* bound: bytes asked for in one read() or write()
  NoProc      \* the holder of a free pi->lock

ASSUME PipeConstants ==
  /\ PIPESIZE \in Nat \ {0} /\ MAXREQ \in Nat /\ NoProc \notin Proc
  /\ \E k \in 2..WRAP : WRAP = k * PIPESIZE   \* PIPESIZE divides 2^32

VARIABLES
  data, nread, nwrite, readopen, writeopen,   \* struct pipe
  lock,     \* the process that holds pi->lock, or NoProc
  fd,       \* the ends each process has open
  killed,   \* p->killed
  pc,       \* where each process is
  todo,     \* bytes its call has still to transfer (n - i)
  got,      \* history: the byte that copyout() delivered last
  left      \* history: a killed writer left bytes in the pipe that no reader was woken for

pipe == <<data, nread, nwrite, readopen, writeopen>>
history == <<got, left>>
vars == <<pipe, lock, fd, killed, pc, todo, history>>

TypeOK ==
  /\ data \in [0..(PIPESIZE - 1) -> Byte]
  /\ nread \in 0..(WRAP - 1) /\ nwrite \in 0..(WRAP - 1)
  /\ readopen \in BOOLEAN /\ writeopen \in BOOLEAN
  /\ lock \in Proc \cup {NoProc}
  /\ fd \in [Proc -> SUBSET {"read", "write"}]
  /\ killed \in [Proc -> BOOLEAN]
  /\ pc \in [Proc -> {"user", "write", "write_sleep", "write_asleep", "write_woken",
                      "read", "read_sleep", "read_asleep", "read_woken", "copy"}]
  /\ todo \in [Proc -> 0..MAXREQ]
  /\ got \in Byte /\ left \in BOOLEAN

\* pipealloc(), and every process has inherited both ends.
Init ==
  /\ data \in [0..(PIPESIZE - 1) -> Byte]
  /\ nread = 0 /\ nwrite = 0
  /\ readopen = TRUE /\ writeopen = TRUE
  /\ lock = NoProc
  /\ fd = [p \in Proc |-> {"read", "write"}]
  /\ killed = [p \in Proc |-> FALSE]
  /\ pc = [p \in Proc |-> "user"]
  /\ todo = [p \in Proc |-> 0]
  /\ got \in Byte /\ left = FALSE

-----------------------------------------------------------------------------
\* Bytes in the buffer, as the code's unsigned arithmetic sees them.
Count == (nwrite - nread) % WRAP
Full == nwrite = (nread + PIPESIZE) % WRAP
Empty == nread = nwrite

\* wakeup() of the sleepers of one channel, while p goes to l.
Wake(from, to, p, l) ==
  pc' = [q \in Proc |-> IF q = p THEN l ELSE IF pc[q] = from THEN to ELSE pc[q]]
WakeReaders(p, l) == Wake("read_asleep", "read_woken", p, l) /\ left' = FALSE
WakeWriters(p, l) == Wake("write_asleep", "write_woken", p, l)
Goto(p, l) == pc' = [pc EXCEPT ![p] = l]

\* Faulty: the loops run to i <= n.
StartOffByOne(p, end, n) ==
  /\ pc[p] = "user" /\ ~killed[p] /\ end \in fd[p]
  /\ lock = NoProc
  /\ lock' = p
  /\ todo' = [todo EXCEPT ![p] = n + 1]
  /\ Goto(p, end)
  /\ UNCHANGED <<pipe, fd, killed, history>>

\* A read or write system call of n bytes takes pi->lock.
Start(p, end, n) ==
  /\ pc[p] = "user" /\ ~killed[p] /\ end \in fd[p]
  /\ lock = NoProc
  /\ lock' = p
  /\ todo' = [todo EXCEPT ![p] = n]
  /\ Goto(p, end)
  /\ UNCHANGED <<pipe, fd, killed, history>>

\* A woken process gets pi->lock back and tests its condition again.
Reacquire(p) ==
  /\ pc[p] \in {"write_woken", "read_woken"}
  /\ lock = NoProc
  /\ lock' = p
  /\ Goto(p, IF pc[p] = "write_woken" THEN "write" ELSE "read")
  /\ UNCHANGED <<pipe, fd, killed, todo, history>>

\* sleep(): pi->lock is released.  A kill() that came after the test of killed is
\* not seen any more.
Sleep(p) ==
  /\ pc[p] \in {"write_sleep", "read_sleep"}
  /\ lock' = NoProc
  /\ Goto(p, IF pc[p] = "write_sleep" THEN "write_asleep" ELSE "read_asleep")
  /\ UNCHANGED <<pipe, fd, killed, todo, history>>

-----------------------------------------------------------------------------
(* pipewrite(). *)

\* Faulty: the readers are not woken before the writer sleeps.
WriteFullSilent(p) ==
  /\ pc[p] = "write" /\ todo[p] > 0 /\ Full
  /\ IF ~readopen \/ killed[p]
     THEN lock' = NoProc /\ Goto(p, "user") /\ todo' = [todo EXCEPT ![p] = 0]
            /\ left' = (left \/ killed[p])
     ELSE Goto(p, "write_sleep") /\ UNCHANGED <<lock, todo, left>>
  /\ UNCHANGED <<pipe, fd, killed, got>>

\* The pipe is full: give up, or wake the readers and sleep.
WriteFull(p) ==
  /\ pc[p] = "write" /\ todo[p] > 0 /\ Full
  /\ IF ~readopen \/ killed[p]
     THEN lock' = NoProc /\ Goto(p, "user") /\ todo' = [todo EXCEPT ![p] = 0]
            /\ left' = (left \/ killed[p])
     ELSE WakeReaders(p, "write_sleep") /\ UNCHANGED <<lock, todo>>
  /\ UNCHANGED <<pipe, fd, killed, got>>

WriteByte(p, v) ==
  /\ pc[p] = "write" /\ todo[p] > 0 /\ ~Full
  /\ data' = [data EXCEPT ![nwrite % PIPESIZE] = v]
  /\ nwrite' = (nwrite + 1) % WRAP
  /\ todo' = [todo EXCEPT ![p] = @ - 1]
  /\ UNCHANGED <<nread, readopen, writeopen, lock, fd, killed, pc, history>>

\* All bytes are written, or copyin() fails.
WriteEnd(p) ==
  /\ pc[p] = "write" /\ (todo[p] = 0 \/ ~Full)
  /\ WakeReaders(p, "user")
  /\ todo' = [todo EXCEPT ![p] = 0]
  /\ lock' = NoProc
  /\ UNCHANGED <<pipe, fd, killed, got>>

-----------------------------------------------------------------------------
(* piperead(). *)

\* The loop that waits for data or for the end of the file.
ReadTest(p) ==
  /\ pc[p] = "read"
  /\ IF Empty /\ writeopen /\ killed[p]
     THEN lock' = NoProc /\ Goto(p, "user") /\ todo' = [todo EXCEPT ![p] = 0]
     ELSE Goto(p, IF Empty /\ writeopen THEN "read_sleep" ELSE "copy") /\ UNCHANGED <<lock, todo>>
  /\ UNCHANGED <<pipe, fd, killed, history>>

\* Faulty: the index is advanced before the byte is read (++pi->nread).
ReadByteNext(p) ==
  /\ pc[p] = "copy" /\ todo[p] > 0 /\ ~Empty
  /\ nread' = (nread + 1) % WRAP
  /\ left' = (left /\ nread' # nwrite)
  /\ todo' = [todo EXCEPT ![p] = @ - 1]
  /\ got' = data[nread' % PIPESIZE]
  /\ UNCHANGED <<data, nwrite, readopen, writeopen, lock, fd, killed, pc>>

\* A byte leaves the pipe and copyout() delivers it, or fails: the byte is lost then and
\* the loop ends.
ReadByte(p) ==
  /\ pc[p] = "copy" /\ todo[p] > 0 /\ ~Empty
  /\ nread' = (nread + 1) % WRAP
  /\ left' = (left /\ nread' # nwrite)
  /\ \/ got' = data[nread % PIPESIZE] /\ todo' = [todo EXCEPT ![p] = @ - 1]
     \/ UNCHANGED got /\ todo' = [todo EXCEPT ![p] = 0]
  /\ UNCHANGED <<data, nwrite, readopen, writeopen, lock, fd, killed, pc>>

\* Faulty: the writers are not woken.
ReadEndSilent(p) ==
  /\ pc[p] = "copy" /\ (todo[p] = 0 \/ Empty)
  /\ Goto(p, "user")
  /\ todo' = [todo EXCEPT ![p] = 0]
  /\ lock' = NoProc
  /\ UNCHANGED <<pipe, fd, killed, history>>

ReadEnd(p) ==
  /\ pc[p] = "copy" /\ (todo[p] = 0 \/ Empty)
  /\ WakeWriters(p, "user")
  /\ todo' = [todo EXCEPT ![p] = 0]
  /\ lock' = NoProc
  /\ UNCHANGED <<pipe, fd, killed, history>>

-----------------------------------------------------------------------------
\* Faulty: pipeclose() does not wake the other side.
CloseSilent(p, end) ==
  LET last == \A q \in Proc \ {p} : end \notin fd[q]
  IN  /\ pc[p] = "user" /\ end \in fd[p]
      /\ last => lock = NoProc
      /\ fd' = [fd EXCEPT ![p] = @ \ {end}]
      /\ readopen' = (readopen /\ ~(last /\ end = "read"))
      /\ writeopen' = (writeopen /\ ~(last /\ end = "write"))
      /\ UNCHANGED <<data, nread, nwrite, lock, killed, pc, todo, history>>

\* close(), or exit(); pipeclose() when p was the last process with that end.
Close(p, end) ==
  LET last == \A q \in Proc \ {p} : end \notin fd[q]
  IN  /\ pc[p] = "user" /\ end \in fd[p]
      /\ last => lock = NoProc
      /\ fd' = [fd EXCEPT ![p] = @ \ {end}]
      /\ readopen' = (readopen /\ ~(last /\ end = "read"))
      /\ writeopen' = (writeopen /\ ~(last /\ end = "write"))
      /\ IF ~last THEN UNCHANGED <<pc, left>>
         ELSE IF end = "write" THEN WakeReaders(p, "user")
         ELSE WakeWriters(p, "user") /\ UNCHANGED left
      /\ UNCHANGED <<data, nread, nwrite, lock, killed, todo, got>>

Kill(p) ==
  /\ p \in Victims /\ ~killed[p]
  /\ killed' = [killed EXCEPT ![p] = TRUE]
  /\ Goto(p, CASE pc[p] = "write_asleep" -> "write_woken"
               [] pc[p] = "read_asleep" -> "read_woken"
               [] OTHER -> pc[p])
  /\ UNCHANGED <<pipe, lock, fd, todo, history>>

\* What a process does inside pipewrite() or piperead().
Inside(p) ==
  \/ Reacquire(p) \/ Sleep(p) \/ WriteFull(p) \/ WriteEnd(p)
  \/ ReadTest(p) \/ ReadByte(p) \/ ReadEnd(p)
  \/ \E v \in Byte : WriteByte(p, v)

Next ==
  \E p \in Proc :
    \/ Inside(p) \/ Kill(p)
    \/ \E end \in {"read", "write"} :
         Close(p, end) \/ \E n \in 0..MAXREQ : Start(p, end, n)

Spec == Init /\ [][Next]_vars

\* CPUs execute what processes do in the kernel, and a spinning acquire() gets
\* pi->lock if it is free again and again.
FairSpec == Spec /\ \A p \in Proc : SF_vars(Inside(p))

-----------------------------------------------------------------------------
(* Properties. *)

\* The ring buffer is a queue: the bytes between nread and nwrite, also when the
\* counters have wrapped around or the buffer is full.
Fifo == INSTANCE BoundedFifo WITH
  Size <- PIPESIZE, ropen <- readopen, wopen <- writeopen, out <- got,
  queue <- [k \in 1..Count |-> data[(nread + k - 1) % PIPESIZE]]

\* pipewrite() and piperead() of several processes deliver the bytes in the order they
\* were written and each at most once (one that copyout() fails on is lost), and use no
\* end that pipeclose() has closed.
IsFifo == Fifo!Spec

\* A reader sleeps on a pipe that can still be written to and is empty, or the writer
\* that has the lock will wake it.  There is one way to sleep beside data: a killed writer
\* has given up on a full pipe without waking anybody, and since then the pipe has not been
\* empty and no other writer has called wakeup().
ReaderSleepsOnEmpty ==
  \A p \in Proc : pc[p] = "read_asleep" =>
    writeopen /\ (Empty \/ (lock # NoProc /\ pc[lock] = "write") \/ left)

\* A writer sleeps on a full pipe that can still be read, or the reader that has the
\* lock will wake it.
WriterSleepsOnFull ==
  \A p \in Proc : pc[p] = "write_asleep" =>
    \/ Full /\ readopen
    \/ lock # NoProc /\ pc[lock] = "copy"

\* Who reads or writes sees the hangup: when the last descriptor of the other end is
\* closed the call returns.
HangupSeen ==
  \A p \in Proc :
    /\ (pc[p] \in {"read", "read_sleep", "read_asleep", "read_woken", "copy"} /\ ~writeopen)
         ~> pc[p] = "user"
    /\ (pc[p] \in {"write", "write_sleep", "write_asleep", "write_woken"} /\ ~readopen)
         ~> pc[p] = "user"
=============================================================================
