----------------------------- MODULE Sleeplock ------------------------------
(***************************************************************************)
(* kernel/sleeplock.c on sleep() and wakeup() of kernel/proc.c: processes  *)
(* that wait for one sleep-lock.  Two spinlocks are in play: lk->lk, which *)
(* protects the sleep-lock, and p->lock, which protects p->state.  kill()  *)
(* may wake a sleeper early.                                               *)
(***************************************************************************)
EXTENDS Integers, FiniteSets

CONSTANTS Proc, NoProc

ASSUME SleeplockConstants == NoProc \notin Proc

VARIABLES
  locked, pid,   \* struct sleeplock
  lk,            \* the process that holds lk->lk, or NoProc
  plock,         \* the process that holds p->lock of each process, or NoProc
  state,         \* p->state; a sleeper's p->chan is the sleep-lock
  pc,            \* where each process is
  rest           \* the slots its wakeup() has not visited yet

vars == <<locked, pid, lk, plock, state, pc, rest>>

TypeOK ==
  /\ locked \in BOOLEAN
  /\ pid \in Proc \cup {NoProc} /\ lk \in Proc \cup {NoProc}
  /\ plock \in [Proc -> Proc \cup {NoProc}]
  /\ state \in [Proc -> {"RUNNING", "SLEEPING", "RUNNABLE"}]
  /\ pc \in [Proc -> {"idle", "test", "sleep", "release", "sched", "asleep",
                      "reacquire", "critical", "wakeup"}]
  /\ rest \in [Proc -> SUBSET Proc]

Init ==
  /\ locked = FALSE /\ pid = NoProc /\ lk = NoProc
  /\ plock = [p \in Proc |-> NoProc]
  /\ state = [p \in Proc |-> "RUNNING"]
  /\ pc = [p \in Proc |-> "idle"]
  /\ rest = [p \in Proc |-> {}]

-----------------------------------------------------------------------------
Goto(p, l) == pc' = [pc EXCEPT ![p] = l]

\* acquire(&lk->lk), at the start of acquiresleep() or at the end of sleep().
Acquire(p) ==
  /\ pc[p] \in {"idle", "reacquire"}
  /\ lk = NoProc
  /\ lk' = p
  /\ Goto(p, "test")
  /\ UNCHANGED <<locked, pid, plock, state, rest>>

\* Faulty: the lock is taken whether it is held or not.
TestIgnored(p) ==
  /\ pc[p] = "test"
  /\ locked' = TRUE /\ pid' = p /\ lk' = NoProc /\ Goto(p, "critical")
  /\ UNCHANGED <<plock, state, rest>>

\* The loop of acquiresleep().
Test(p) ==
  /\ pc[p] = "test"
  /\ IF locked
     THEN Goto(p, "sleep") /\ UNCHANGED <<locked, pid, lk>>
     ELSE locked' = TRUE /\ pid' = p /\ lk' = NoProc /\ Goto(p, "critical")
  /\ UNCHANGED <<plock, state, rest>>

\* Faulty: sleep() lets go of lk->lk without holding p->lock.
SleepUnlocked(p) ==
  /\ pc[p] = "sleep"
  /\ lk' = NoProc
  /\ Goto(p, "sched")
  /\ UNCHANGED <<locked, pid, plock, state, rest>>

\* sleep(): p->lock first, then lk->lk is released, then the process sleeps; the
\* scheduler releases p->lock.
Sleep(p) ==
  /\ pc[p] = "sleep"
  /\ plock[p] = NoProc
  /\ plock' = [plock EXCEPT ![p] = p]
  /\ Goto(p, "release")
  /\ UNCHANGED <<locked, pid, lk, state, rest>>

SleepRelease(p) ==
  /\ pc[p] = "release"
  /\ lk' = NoProc
  /\ Goto(p, "sched")
  /\ UNCHANGED <<locked, pid, plock, state, rest>>

SleepSched(p) ==
  /\ pc[p] = "sched"
  /\ state' = [state EXCEPT ![p] = "SLEEPING"]
  /\ plock' = [plock EXCEPT ![p] = NoProc]
  /\ Goto(p, "asleep")
  /\ UNCHANGED <<locked, pid, lk, rest>>

\* The scheduler runs a woken process, which releases p->lock and goes for lk->lk.
Resume(p) ==
  /\ state[p] = "RUNNABLE" /\ plock[p] = NoProc
  /\ state' = [state EXCEPT ![p] = "RUNNING"]
  /\ Goto(p, "reacquire")
  /\ UNCHANGED <<locked, pid, lk, plock, rest>>

\* Faulty: releasesleep() wakes nobody.
ReleaseSleepSilent(p) ==
  /\ pc[p] = "critical" /\ lk = NoProc
  /\ locked' = FALSE /\ pid' = NoProc
  /\ lk' = p
  /\ rest' = [rest EXCEPT ![p] = {}]
  /\ Goto(p, "wakeup")
  /\ UNCHANGED <<plock, state>>

\* Faulty: the loop of wakeup() goes one past the end of the table.
ReleaseSleepPastEnd(p) ==
  /\ pc[p] = "critical" /\ lk = NoProc
  /\ locked' = FALSE /\ pid' = NoProc
  /\ lk' = p
  /\ rest' = [rest EXCEPT ![p] = Proc \cup {NoProc}]
  /\ Goto(p, "wakeup")
  /\ UNCHANGED <<plock, state>>

\* releasesleep() up to the loop of wakeup().
ReleaseSleep(p) ==
  /\ pc[p] = "critical" /\ lk = NoProc
  /\ locked' = FALSE /\ pid' = NoProc
  /\ lk' = p
  /\ rest' = [rest EXCEPT ![p] = Proc]
  /\ Goto(p, "wakeup")
  /\ UNCHANGED <<plock, state>>

\* One round of wakeup(), under the p->lock of q.
Wakeup(p, q) ==
  /\ pc[p] = "wakeup" /\ q \in rest[p]
  /\ plock[q] = NoProc
  /\ state' = [state EXCEPT ![q] = IF @ = "SLEEPING" THEN "RUNNABLE" ELSE @]
  /\ rest' = [rest EXCEPT ![p] = @ \ {q}]
  /\ UNCHANGED <<locked, pid, lk, plock, pc>>

WakeupEnd(p) ==
  /\ pc[p] = "wakeup" /\ rest[p] = {}
  /\ lk' = NoProc
  /\ Goto(p, "idle")
  /\ UNCHANGED <<locked, pid, plock, state, rest>>

Kill(p) ==
  /\ state[p] = "SLEEPING" /\ plock[p] = NoProc
  /\ state' = [state EXCEPT ![p] = "RUNNABLE"]
  /\ UNCHANGED <<locked, pid, lk, plock, pc, rest>>

Step(p) ==
  \/ Acquire(p) \/ Test(p) \/ Sleep(p) \/ SleepRelease(p) \/ SleepSched(p)
  \/ Resume(p) \/ ReleaseSleep(p) \/ WakeupEnd(p) \/ \E q \in Proc : Wakeup(p, q)

Next == \E p \in Proc : Step(p) \/ Kill(p)

Spec == Init /\ [][Next]_vars

\* Schedulers run every runnable process, and CPUs finish the calls they execute.
Fairness == \A p \in Proc : WF_vars(Step(p) /\ pc[p] # "idle")

FairSpec == Spec /\ Fairness

-----------------------------------------------------------------------------
(* Properties. *)

\* One process at a time is between acquiresleep() and releasesleep(), and
\* holdingsleep() tells it from the others.
HolderIsUnique ==
  \A p \in Proc : pc[p] = "critical" <=> locked /\ pid = p

\* No wakeup is lost ("once we hold p->lock, we can be guaranteed that we won't miss
\* any wakeup"): who sleeps, or is about to, waits for a held lock, or the wakeup()
\* of a releasesleep() has still to visit it.
NoLostWakeup ==
  \A q \in Proc : pc[q] = "sched" \/ state[q] = "SLEEPING" =>
    locked \/ \E p \in Proc : pc[p] = "wakeup" /\ q \in rest[p]

\* A sleeper gets another chance: it does not stay asleep when the lock was released.
SleeperRetries ==
  \A p \in Proc : (state[p] = "SLEEPING" /\ ~locked) ~> (state[p] # "SLEEPING")
=============================================================================
