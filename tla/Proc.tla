-------------------------------- MODULE Proc --------------------------------
(***************************************************************************)
(* kernel/proc.c: the process table.  fork(), exit(), wait() and kill()    *)
(* run on several CPUs at once, each under the per-slot spinlocks p->lock, *)
(* while the schedulers switch processes in and out.  A step is what a     *)
(* thread does between two acquires; a section under a single lock that    *)
(* reads and writes only what that lock protects is one step.              *)
(***************************************************************************)
EXTENDS Integers, FiniteSets, FiniteSetsExt

CONSTANTS
  NPROC,    \* slots of the process table; slot 1 is init's
  NCPU,     \* CPUs
  MAXFORK,  \* bound: calls of fork() by processes other than init
  Victims   \* bound: slots that kill() is called for

ASSUME ProcConstants == NPROC \in Nat /\ NPROC > 1 /\ NCPU \in Nat \ {0} /\ MAXFORK \in Nat
                        /\ Victims \subseteq 2..NPROC

VARIABLES
  state, parent, chan, killed,   \* struct proc; 0 is the null pointer
  lock,       \* the thread that holds p->lock of each slot, or 0
  shell,      \* the slot of the shell that init started and has not reaped, or 0
  forks,      \* calls of fork() so far by processes other than init
  pc,         \* where the thread of each slot is
  np,         \* the next slot of the scan in wait() or allocproc()
  havekids,   \* the local variable of wait()
  op,         \* original_parent in exit()
  oncpu       \* a CPU executes on the kernel stack of the slot

family == <<shell, forks>>
locals == <<np, havekids, op>>
vars == <<state, parent, chan, killed, lock, family, pc, locals, oncpu>>

Slots == 1..NPROC
initproc == 1

TypeOK ==
  /\ state \in [Slots -> {"UNUSED", "SLEEPING", "RUNNABLE", "RUNNING", "ZOMBIE"}]
  /\ parent \in [Slots -> 0..NPROC] /\ chan \in [Slots -> 0..NPROC]
  /\ killed \in [Slots -> BOOLEAN]
  /\ lock \in [Slots -> 0..NPROC]
  /\ shell \in 0..NPROC /\ forks \in 0..MAXFORK
  /\ pc \in [Slots -> {"user", "alloc", "exit_parent", "exit_lock_parent",
                       "exit_lock", "reparent", "wait", "scan", "sleep"}]
  /\ np \in [Slots -> 1..(NPROC + 1)] /\ op \in [Slots -> 0..NPROC]
  /\ havekids \in [Slots -> BOOLEAN] /\ oncpu \in [Slots -> BOOLEAN]

\* userinit() has made init, and a scheduler runs it.
Init ==
  /\ state = [s \in Slots |-> IF s = initproc THEN "RUNNING" ELSE "UNUSED"]
  /\ parent = [s \in Slots |-> 0]
  /\ chan = [s \in Slots |-> 0]
  /\ killed = [s \in Slots |-> FALSE]
  /\ lock = [s \in Slots |-> 0]
  /\ shell = 0 /\ forks = 0
  /\ pc = [s \in Slots |-> "user"]
  /\ np = [s \in Slots |-> 1]
  /\ havekids = [s \in Slots |-> FALSE]
  /\ op = [s \in Slots |-> 0]
  /\ oncpu = [s \in Slots |-> s = initproc]

-----------------------------------------------------------------------------
At(p, l) == state[p] = "RUNNING" /\ oncpu[p] /\ pc[p] = l
Goto(p, l) == pc' = [pc EXCEPT ![p] = l]

\* The next child of p a loop over the table meets from slot i on.  The loops read
\* pp->parent without the child's lock (OnlyParentChanges says why they may).
Children(p) == {c \in Slots : parent[c] = p}
NextChild(p, i) == Min({c \in Children(p) : c >= i})

\* scheduler(): a runnable process is switched in.  It returns from sched() with its
\* lock, and releases it at once unless it was asleep in wait().
Resume(p) ==
  /\ state[p] = "RUNNABLE" /\ lock[p] = 0
  /\ Cardinality({s \in Slots : oncpu[s]}) < NCPU
  /\ state' = [state EXCEPT ![p] = "RUNNING"]
  /\ oncpu' = [oncpu EXCEPT ![p] = TRUE]
  /\ IF pc[p] = "sleep"
     THEN /\ chan' = [chan EXCEPT ![p] = 0]
          /\ lock' = [lock EXCEPT ![p] = p]
          /\ Goto(p, "scan")
     ELSE UNCHANGED <<chan, lock, pc>>
  /\ UNCHANGED <<parent, killed, family, locals>>

\* sched() and scheduler(): only when the thread is off its kernel stack does the
\* scheduler release the lock the thread took.
SwitchOut(p) ==
  /\ oncpu[p] /\ state[p] # "RUNNING" /\ lock[p] = p
  /\ oncpu' = [oncpu EXCEPT ![p] = FALSE]
  /\ lock' = [lock EXCEPT ![p] = 0]
  /\ UNCHANGED <<state, parent, chan, killed, family, pc, locals>>

\* yield() in a timer interrupt: interrupts are on where no lock is held.
Yield(p) ==
  /\ state[p] = "RUNNING" /\ oncpu[p]
  /\ \A s \in Slots : lock[s] # p
  /\ lock[p] = 0
  /\ lock' = [lock EXCEPT ![p] = p]
  /\ state' = [state EXCEPT ![p] = "RUNNABLE"]
  /\ UNCHANGED <<parent, chan, killed, family, pc, locals, oncpu>>

\* usertrap(): a killed process exits instead of making its next system call.
Calls(p) == At(p, "user") /\ ~killed[p]

-----------------------------------------------------------------------------
(* fork() and kill().  They hold one lock at a time. *)

\* init forks when it has no shell (user/init.c), other processes when they like.
CallFork(p) ==
  /\ Calls(p)
  /\ IF p = initproc THEN shell = 0 /\ UNCHANGED forks
     ELSE forks < MAXFORK /\ forks' = forks + 1
  /\ Goto(p, "alloc")
  /\ UNCHANGED <<state, parent, chan, killed, lock, shell, locals, oncpu>>

\* allocproc() looks at the slots one by one; a slot it has passed may be freed behind it.
Allocating(p) == At(p, "alloc") /\ np[p] \in Slots /\ lock[np[p]] = 0

AllocSkip(p) ==
  /\ Allocating(p) /\ state[np[p]] # "UNUSED"
  /\ np' = [np EXCEPT ![p] = @ + 1]
  /\ UNCHANGED <<state, parent, chan, killed, lock, family, pc, havekids, op, oncpu>>

ForkReturns(p) ==
  /\ Goto(p, "user")
  /\ np' = [np EXCEPT ![p] = 1]
  /\ UNCHANGED <<lock, havekids, op, oncpu>>

Fork(p) ==
  LET c == np[p]
  IN  /\ Allocating(p) /\ state[c] = "UNUSED"
      /\ shell' = IF p = initproc THEN c ELSE shell
      /\ parent' = [parent EXCEPT ![c] = p]
      /\ state' = [state EXCEPT ![c] = "RUNNABLE"]
      /\ ForkReturns(p)
      /\ UNCHANGED <<chan, killed, forks>>

freeproc(c) ==
  /\ parent' = [parent EXCEPT ![c] = 0]
  /\ chan' = [chan EXCEPT ![c] = 0]
  /\ killed' = [killed EXCEPT ![c] = FALSE]
  /\ state' = [state EXCEPT ![c] = "UNUSED"]

\* No memory for the trapframe: the slot is left as it is.  No memory for the page table,
\* or for the copy of the parent's memory: the slot is freed.  When a fork of init's fails,
\* init exits and the kernel panics; the model stops there.
ForkNoMemory(p) ==
  /\ Allocating(p) /\ state[np[p]] = "UNUSED"
  /\ p # initproc
  /\ freeproc(np[p]) \/ UNCHANGED <<state, parent, chan, killed>>
  /\ ForkReturns(p)
  /\ UNCHANGED family

ForkNoSlot(p) ==
  /\ At(p, "alloc") /\ np[p] \notin Slots
  /\ p # initproc
  /\ ForkReturns(p)
  /\ UNCHANGED <<state, parent, chan, killed, family>>

\* kill(pid) of the pid in slot s.  An UNUSED slot has one too: 0, or the pid that
\* allocproc() left there when it found no memory for the trapframe.  init makes no
\* such call (user/init.c), and killing init ends in panic("init exiting").
Kill(p, s) ==
  /\ Calls(p)
  /\ p # initproc /\ s \in Victims
  /\ lock[s] = 0
  /\ killed' = [killed EXCEPT ![s] = TRUE]
  /\ state' = [state EXCEPT ![s] = IF @ = "SLEEPING" THEN "RUNNABLE" ELSE @]
  /\ UNCHANGED <<parent, chan, lock, family, pc, locals, oncpu>>

-----------------------------------------------------------------------------
(* exit(). *)

\* wakeup1(p), with p->lock held: state after it.
Woken(p) == [state EXCEPT ![p] = IF @ = "SLEEPING" /\ chan[p] = p THEN "RUNNABLE" ELSE @]

\* init is woken in case it is about to be given children.
ExitWakeInit(p) ==
  /\ At(p, "user") /\ p # initproc
  /\ lock[initproc] = 0
  /\ state' = Woken(initproc)
  /\ Goto(p, "exit_parent")
  /\ UNCHANGED <<parent, chan, killed, lock, family, locals, oncpu>>

ExitReadParent(p) ==
  /\ At(p, "exit_parent")
  /\ lock[p] = 0
  /\ op' = [op EXCEPT ![p] = parent[p]]
  /\ Goto(p, "exit_lock_parent")
  /\ UNCHANGED <<state, parent, chan, killed, lock, family, np, havekids, oncpu>>

ExitLockParent(p) ==
  /\ At(p, "exit_lock_parent")
  /\ lock[op[p]] = 0
  /\ lock' = [lock EXCEPT ![op[p]] = p]
  /\ Goto(p, "exit_lock")
  /\ UNCHANGED <<state, parent, chan, killed, family, locals, oncpu>>

\* Faulty: reparent() is called without p->lock.
ExitLockSkipped(p) ==
  /\ At(p, "exit_lock")
  /\ Goto(p, "reparent")
  /\ UNCHANGED <<state, parent, chan, killed, lock, family, locals, oncpu>>

ExitLock(p) ==
  /\ At(p, "exit_lock")
  /\ lock[p] = 0
  /\ lock' = [lock EXCEPT ![p] = p]
  /\ Goto(p, "reparent")
  /\ UNCHANGED <<state, parent, chan, killed, family, locals, oncpu>>

\* reparent(): the next child goes to init.
Reparent(p) ==
  LET c == NextChild(p, 1)
  IN  /\ At(p, "reparent")
      /\ Children(p) # {}
      /\ lock[c] = 0
      /\ parent' = [parent EXCEPT ![c] = initproc]
      /\ UNCHANGED <<state, chan, killed, lock, family, pc, locals, oncpu>>

\* Faulty: the children stay with the zombie.
ExitZombieKeepingChildren(p) ==
  /\ At(p, "reparent")
  /\ state' = [Woken(op[p]) EXCEPT ![p] = "ZOMBIE"]
  /\ lock' = [lock EXCEPT ![op[p]] = 0]
  /\ op' = [op EXCEPT ![p] = 0]
  /\ Goto(p, "user")
  /\ UNCHANGED <<parent, chan, killed, family, np, havekids, oncpu>>

\* Faulty: p->lock is released before the switch to the scheduler.
ExitZombieUnlocked(p) ==
  /\ At(p, "reparent") /\ Children(p) = {}
  /\ state' = [Woken(op[p]) EXCEPT ![p] = "ZOMBIE"]
  /\ lock' = [lock EXCEPT ![op[p]] = 0, ![p] = 0]
  /\ op' = [op EXCEPT ![p] = 0]
  /\ Goto(p, "user")
  /\ UNCHANGED <<parent, chan, killed, family, np, havekids, oncpu>>

\* Faulty: the parent is not woken.
ExitZombieSilent(p) ==
  /\ At(p, "reparent") /\ Children(p) = {}
  /\ state' = [state EXCEPT ![p] = "ZOMBIE"]
  /\ lock' = [lock EXCEPT ![op[p]] = 0]
  /\ op' = [op EXCEPT ![p] = 0]
  /\ Goto(p, "user")
  /\ UNCHANGED <<parent, chan, killed, family, np, havekids, oncpu>>

\* The rest of exit(), up to sched().
ExitZombie(p) ==
  /\ At(p, "reparent") /\ Children(p) = {}
  /\ state' = [Woken(op[p]) EXCEPT ![p] = "ZOMBIE"]
  /\ lock' = [lock EXCEPT ![op[p]] = 0]
  /\ op' = [op EXCEPT ![p] = 0]
  /\ Goto(p, "user")
  /\ UNCHANGED <<parent, chan, killed, family, np, havekids, oncpu>>

-----------------------------------------------------------------------------
(* wait(). *)

\* The system call is made by a process that is not killed yet; init makes it while it
\* has a shell (user/init.c).
CallWait(p) ==
  /\ Calls(p)
  /\ p = initproc => shell # 0
  /\ Goto(p, "wait")
  /\ UNCHANGED <<state, parent, chan, killed, lock, family, locals, oncpu>>

Wait(p) ==
  /\ At(p, "wait")
  /\ lock[p] = 0
  /\ lock' = [lock EXCEPT ![p] = p]
  /\ Goto(p, "scan")
  /\ UNCHANGED <<state, parent, chan, killed, family, locals, oncpu>>

\* The loop's variables are back at their initial values for the next scan.
ScanOver(p) == np' = [np EXCEPT ![p] = 1] /\ havekids' = [havekids EXCEPT ![p] = FALSE]

Scanning(p) == At(p, "scan") /\ \E c \in Children(p) : c >= np[p]

\* Faulty: the scan skips the slot after a child.
WaitSkipTwo(p) ==
  LET c == NextChild(p, np[p])
  IN  /\ Scanning(p)
      /\ lock[c] = 0 /\ state[c] # "ZOMBIE"
      /\ np' = [np EXCEPT ![p] = c + 2]
      /\ havekids' = [havekids EXCEPT ![p] = TRUE]
      /\ UNCHANGED <<state, parent, chan, killed, lock, family, pc, op, oncpu>>

\* A child that has not exited.
WaitSkip(p) ==
  LET c == NextChild(p, np[p])
  IN  /\ Scanning(p)
      /\ lock[c] = 0 /\ state[c] # "ZOMBIE"
      /\ np' = [np EXCEPT ![p] = c + 1]
      /\ havekids' = [havekids EXCEPT ![p] = TRUE]
      /\ UNCHANGED <<state, parent, chan, killed, lock, family, pc, op, oncpu>>

\* A zombie: it is freed, unless copyout() of its status fails.  init does not ask for the
\* status, and forks again when it was its shell.
WaitReap(p) ==
  LET c == NextChild(p, np[p])
  IN  /\ Scanning(p)
      /\ lock[c] = 0 /\ state[c] = "ZOMBIE"
      /\ \/ freeproc(c)
         \/ p # initproc /\ UNCHANGED <<state, parent, chan, killed>>
      /\ shell' = IF p = initproc /\ c = shell THEN 0 ELSE shell
      /\ lock' = [lock EXCEPT ![p] = 0]
      /\ ScanOver(p)
      /\ Goto(p, "user")
      /\ UNCHANGED <<forks, op, oncpu>>

\* The table is scanned: no children or killed, so wait() fails; else sleep(p, &p->lock).
WaitEnd(p) ==
  /\ At(p, "scan") /\ ~Scanning(p)
  /\ IF ~havekids[p] \/ killed[p]
     THEN /\ lock' = [lock EXCEPT ![p] = 0]
          /\ Goto(p, "user")
          /\ UNCHANGED <<state, chan>>
     ELSE /\ chan' = [chan EXCEPT ![p] = p]
          /\ state' = [state EXCEPT ![p] = "SLEEPING"]
          /\ Goto(p, "sleep")
          /\ UNCHANGED lock
  /\ ScanOver(p)
  /\ UNCHANGED <<parent, killed, family, op, oncpu>>

-----------------------------------------------------------------------------
\* System calls in progress.
Kernel(p) ==
  \/ AllocSkip(p) \/ Fork(p) \/ ForkNoMemory(p) \/ ForkNoSlot(p)
  \/ ExitReadParent(p) \/ ExitLockParent(p) \/ ExitLock(p) \/ Reparent(p) \/ ExitZombie(p)
  \/ Wait(p) \/ WaitSkip(p) \/ WaitReap(p) \/ WaitEnd(p)

Next ==
  \E p \in Slots :
    \/ Kernel(p) \/ Resume(p) \/ SwitchOut(p) \/ Yield(p)
    \/ ExitWakeInit(p) \/ CallFork(p) \/ CallWait(p)
    \/ \E s \in Slots : Kill(p, s)

Spec == Init /\ [][Next]_vars

-----------------------------------------------------------------------------
(* Properties. *)

\* A kernel stack has one user: a slot that can be given out (UNUSED) or picked by a
\* scheduler (RUNNABLE and not locked) has no CPU on its stack.  exit() and sleep()
\* keep p->lock across swtch() for this.
OneThreadPerStack ==
  \A s \in Slots :
    oncpu[s] => state[s] # "UNUSED" /\ (state[s] = "RUNNABLE" => lock[s] = s)

\* Every process has a parent that can still wait for it: exit() hands the children
\* over to init before its own slot can be freed.
NoOrphan ==
  \A s \in Slots \ {initproc} : state[s] # "UNUSED" =>
    parent[s] # 0 /\ state[parent[s]] \notin {"UNUSED", "ZOMBIE"}

\* A parent never sleeps in wait() through the exit of a child it still has.  init is
\* the exception (see InitWaitReturns).
NoMissedExit ==
  \A s \in Slots \ {initproc} :
    state[s] = "SLEEPING" => \A c \in Children(s) : state[c] # "ZOMBIE"

\* Only the parent changes np->parent, and with its own lock held: what reparent() and
\* wait() read without the child's lock cannot change before they take it.
OnlyParentChanges ==
  [][\A c \in Slots :
       parent[c] # 0 /\ parent'[c] # parent[c] => lock[parent[c]] = parent[c]]_vars

\* The lock that a thread in exit() or wait() spins on.
Wanted(p) ==
  CASE At(p, "exit_lock_parent") -> op[p]
    [] At(p, "exit_lock") -> p
    [] At(p, "reparent") /\ Children(p) # {} -> NextChild(p, 1)
    [] Scanning(p) -> NextChild(p, np[p])
    [] OTHER -> 0

\* No threads wait for each other's locks: the order parent before child has no cycle.
NoLockCycle ==
  \A S \in SUBSET {p \in Slots : Wanted(p) # 0} :
    S # {} => \E p \in S : lock[Wanted(p)] \notin S

\* A process that fork() makes is killed only after it exists: kill() marks "the
\* process with the given pid".
BornAlive ==
  [][\A c \in Slots : state[c] = "UNUSED" /\ state'[c] = "RUNNABLE" => ~killed'[c]]_vars

-----------------------------------------------------------------------------
\* CPUs keep executing kernel code, schedulers pick every runnable process in turn and a
\* spinning acquire() gets the lock if it is free again and again.  init reaches its next
\* system call however often it is preempted.  Nothing is said of the timer: that a process
\* gives its CPU up is not needed where each has one (NCPU >= NPROC).
Fairness ==
  /\ \A p \in Slots : SF_vars(Kernel(p)) /\ SF_vars(Resume(p)) /\ WF_vars(SwitchOut(p))
  /\ SF_vars(CallFork(initproc)) /\ SF_vars(CallWait(initproc))

FairSpec == Spec /\ Fairness

InWait(p) == pc[p] \in {"wait", "scan", "sleep"}
HasZombie(p) == \E c \in Children(p) : state[c] = "ZOMBIE"


\* So does init ("this call to wait() returns if the shell exits, or if a parentless
\* process exits").
InitWaitReturns == InWait(initproc) /\ HasZombie(initproc) ~> ~InWait(initproc)
=============================================================================
