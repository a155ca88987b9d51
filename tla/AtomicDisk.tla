----------------------------- MODULE AtomicDisk -----------------------------
(***************************************************************************)
(* What the logging layer promises the file system: a disk that a group of *)
(* overlapping system calls updates all at once.  `mem' is what readers    *)
(* see, `durable' what survives a crash, `active' the system calls between *)
(* begin_op() and end_op().  (The header comment of kernel/log.c.)         *)
(***************************************************************************)
CONSTANTS Proc, Block, Val

VARIABLES durable, mem, active

vars == <<durable, mem, active>>

Init ==
  /\ durable \in [Block -> Val]
  /\ mem = durable
  /\ active = {}

\* A call that finds no other call active starts a new group, and the previous
\* group is durable by then.
Begin(p) ==
  /\ p \notin active
  /\ active = {} => durable = mem
  /\ active' = active \cup {p}
  /\ UNCHANGED <<durable, mem>>

Write(p, b, v) ==
  /\ p \in active
  /\ mem' = [mem EXCEPT ![b] = v]
  /\ UNCHANGED <<durable, active>>

End(p) ==
  /\ p \in active
  /\ active' = active \ {p}
  /\ UNCHANGED <<durable, mem>>

\* Everything written so far becomes durable, and only when no call is half done.
Commit ==
  /\ active = {}
  /\ durable' = mem
  /\ UNCHANGED <<mem, active>>

Crash ==
  /\ mem' = durable
  /\ active' = {}
  /\ UNCHANGED durable

Next ==
  \/ \E p \in Proc : Begin(p) \/ End(p)
  \/ \E p \in Proc, b \in Block, v \in Val : Write(p, b, v)
  \/ Commit
  \/ Crash

Spec == Init /\ [][Next]_vars
=============================================================================
