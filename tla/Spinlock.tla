------------------------------ MODULE Spinlock ------------------------------
(***************************************************************************)
(* kernel/spinlock.c: acquire() and release(), with push_off()/pop_off()   *)
(* that keep interrupts off while a CPU holds a lock.  A CPU executes a    *)
(* context: its scheduler, or a kernel thread, which it switches to and    *)
(* back with swtch(); the lock a context holds then passes to the other    *)
(* one, and a thread may go on on another CPU.  A device interrupt         *)
(* suspends the context (level 0) for a handler (level 1), which may yield *)
(* the CPU.  Contexts take and release any locks, in decreasing order and  *)
(* none twice; schedulers take one p->lock at a time.  A step ends at each *)
(* access to a lock and wherever an interrupt may come in.                 *)
(***************************************************************************)
EXTENDS Integers, FiniteSets

CONSTANTS
  CPU,       \* the CPUs, which also name the contexts of their schedulers
  NTHREAD,   \* the threads are 1..NTHREAD
  NLOCK,     \* the locks are 1..NLOCK; lock t is the p->lock of thread t
  NoCpu      \* a null lk->cpu

ASSUME SpinlockConstants == NTHREAD \in Nat /\ NLOCK \in Nat /\ NTHREAD <= NLOCK /\ NoCpu \notin CPU

VARIABLES
  locked, lkcpu,        \* struct spinlock: locked and cpu
  intr, noff, intena,   \* interrupts are on (sstatus), and struct cpu
  cur,                  \* the context each CPU executes
  saved,                \* of a thread in sched(): its local variable intena
  level,                \* of each context: 0 its own code, 1 a handler
  pc, arg, old,         \* of each level: where it is, its lock, old in push_off()
  has                   \* of each level: the locks it holds

locks == <<locked, lkcpu>>
cpus == <<intr, noff, intena>>
switch == <<cur, saved>>
vars == <<locks, cpus, switch, level, pc, arg, old, has>>

Thread == 1..NTHREAD
Context == Thread \cup CPU
Lock == 1..NLOCK
Level == {0, 1}

TypeOK ==
  /\ locked \in [Lock -> BOOLEAN]
  /\ lkcpu \in [Lock -> CPU \cup {NoCpu}]
  /\ intr \in [CPU -> BOOLEAN] /\ intena \in [CPU -> BOOLEAN]
  /\ noff \in [CPU -> Nat]
  /\ cur \in [CPU -> Context] /\ saved \in [Thread -> BOOLEAN]
  /\ level \in [Context -> Level]
  /\ pc \in [Context -> [Level ->
               {"run", "push_off", "acq_locked", "acq_cpu", "swap", "mark", "rel_cpu",
                "rel_clear", "unlock", "pop_off", "sched_cpu", "panic"}]]
  /\ arg \in [Context -> [Level -> Lock \cup {0}]]
  /\ old \in [Context -> [Level -> BOOLEAN]]
  /\ has \in [Context -> [Level -> SUBSET Lock]]

\* The CPUs are in scheduler(), and the threads have given up the CPU in a system call.
Init ==
  /\ locked = [l \in Lock |-> FALSE]
  /\ lkcpu = [l \in Lock |-> NoCpu]
  /\ intr = [c \in CPU |-> TRUE]
  /\ noff = [c \in CPU |-> 0]
  /\ intena = [c \in CPU |-> TRUE]
  /\ cur = [c \in CPU |-> c]
  /\ saved = [t \in Thread |-> TRUE]
  /\ level = [x \in Context |-> 0]
  /\ pc = [x \in Context |-> [k \in Level |-> "run"]]
  /\ arg = [x \in Context |-> [k \in Level |-> 0]]
  /\ old = [x \in Context |-> [k \in Level |-> FALSE]]
  /\ has = [x \in Context |-> [k \in Level |-> {}]]

-----------------------------------------------------------------------------
\* What CPU c executes, and the state of that code.
Me(c) == cur[c]
Lv(c) == level[Me(c)]
At(c, l) == pc[Me(c)][Lv(c)] = l
Goto(c, l) == pc' = [pc EXCEPT ![Me(c)][Lv(c)] = l]
Arg(c) == arg[Me(c)][Lv(c)]
SetArg(c, l) == arg' = [arg EXCEPT ![Me(c)][Lv(c)] = l]
Mine(c) == has[Me(c)][Lv(c)]
SetMine(c, S) == has' = [has EXCEPT ![Me(c)][Lv(c)] = S]

InScheduler(c) == Me(c) = c /\ Lv(c) = 0

\* holding() evaluates both conditions, one after the other.
holding(c, l) == locked[l] /\ lkcpu[l] = c

\* acquire(l) up to "old = intr_get()" in push_off().
Acquire(c, l) ==
  /\ At(c, "run")
  /\ \A m \in Mine(c) : l < m
  /\ InScheduler(c) => l \in Thread /\ Mine(c) = {}
  /\ SetArg(c, l)
  /\ old' = [old EXCEPT ![Me(c)][Lv(c)] = intr[c]]
  /\ Goto(c, "push_off")
  /\ UNCHANGED <<locks, cpus, switch, level, has>>

\* The rest of push_off().
PushOff(c) ==
  /\ At(c, "push_off")
  /\ intr' = [intr EXCEPT ![c] = FALSE]
  /\ intena' = [intena EXCEPT ![c] = IF noff[c] = 0 THEN old[Me(c)][Lv(c)] ELSE @]
  /\ noff' = [noff EXCEPT ![c] = @ + 1]
  /\ old' = [old EXCEPT ![Me(c)][Lv(c)] = FALSE]
  /\ Goto(c, "acq_locked")
  /\ UNCHANGED <<locks, switch, level, arg, has>>

\* The two loads of holding(), and panic("acquire") if both say so.
AcquireTest(c) ==
  /\ \/ At(c, "acq_locked") /\ Goto(c, IF locked[Arg(c)] THEN "acq_cpu" ELSE "swap")
     \/ At(c, "acq_cpu") /\ Goto(c, IF lkcpu[Arg(c)] = c THEN "panic" ELSE "swap")
  /\ UNCHANGED <<locks, cpus, switch, level, arg, old, has>>

\* Faulty: the lock is set without testing its old value.
SwapBlind(c) ==
  /\ At(c, "swap")
  /\ locked' = [locked EXCEPT ![Arg(c)] = TRUE]
  /\ SetMine(c, Mine(c) \cup {Arg(c)})
  /\ Goto(c, "mark")
  /\ UNCHANGED <<lkcpu, cpus, switch, level, arg, old>>

\* The atomic swap that finds the lock free.
Swap(c) ==
  /\ At(c, "swap")
  /\ ~locked[Arg(c)]
  /\ locked' = [locked EXCEPT ![Arg(c)] = TRUE]
  /\ SetMine(c, Mine(c) \cup {Arg(c)})
  /\ Goto(c, "mark")
  /\ UNCHANGED <<lkcpu, cpus, switch, level, arg, old>>

Mark(c) ==
  /\ At(c, "mark")
  /\ lkcpu' = [lkcpu EXCEPT ![Arg(c)] = c]
  /\ SetArg(c, 0)
  /\ Goto(c, "run")
  /\ UNCHANGED <<locked, cpus, switch, level, old, has>>

\* release(l): the two loads of holding(), and panic("release") if one says no.
Release(c, l) ==
  /\ At(c, "run") /\ l \in Mine(c)
  /\ SetArg(c, l)
  /\ Goto(c, IF locked[l] THEN "rel_cpu" ELSE "panic")
  /\ UNCHANGED <<locks, cpus, switch, level, old, has>>

ReleaseTest(c) ==
  /\ At(c, "rel_cpu")
  /\ Goto(c, IF lkcpu[Arg(c)] = c THEN "rel_clear" ELSE "panic")
  /\ UNCHANGED <<locks, cpus, switch, level, arg, old, has>>

\* Faulty: release() leaves lk->cpu alone.
ClearSkipped(c) ==
  /\ At(c, "rel_clear")
  /\ Goto(c, "unlock")
  /\ UNCHANGED <<locks, cpus, switch, level, arg, old, has>>

\* lk->cpu = 0
Clear(c) ==
  /\ At(c, "rel_clear")
  /\ lkcpu' = [lkcpu EXCEPT ![Arg(c)] = NoCpu]
  /\ Goto(c, "unlock")
  /\ UNCHANGED <<locked, cpus, switch, level, arg, old, has>>

Unlock(c) ==
  /\ At(c, "unlock")
  /\ locked' = [locked EXCEPT ![Arg(c)] = FALSE]
  /\ SetMine(c, Mine(c) \ {Arg(c)})
  /\ Goto(c, "pop_off")
  /\ UNCHANGED <<lkcpu, cpus, switch, level, arg, old>>


\* Faulty: pop_off() counts down twice.
PopOffTwice(c) ==
  /\ At(c, "pop_off")
  /\ SetArg(c, 0)
  /\ IF intr[c] \/ noff[c] < 1
     THEN Goto(c, "panic") /\ UNCHANGED <<intr, noff>>
     ELSE /\ noff' = [noff EXCEPT ![c] = @ - 2]
          /\ intr' = [intr EXCEPT ![c] = noff[c] = 2 /\ intena[c]]
          /\ Goto(c, "run")
  /\ UNCHANGED <<locks, intena, switch, level, old, has>>

PopOff(c) ==
  /\ At(c, "pop_off")
  /\ SetArg(c, 0)
  /\ IF intr[c] \/ noff[c] < 1
     THEN Goto(c, "panic") /\ UNCHANGED <<intr, noff>>
     ELSE /\ noff' = [noff EXCEPT ![c] = @ - 1]
          /\ intr' = [intr EXCEPT ![c] = noff[c] = 1 /\ intena[c]]
          /\ Goto(c, "run")
  /\ UNCHANGED <<locks, intena, switch, level, old, has>>

-----------------------------------------------------------------------------
(* Interrupts. *)

\* The hardware turns interrupts off when it takes one, and on again at the sret that ends
\* kerneltrap(), on whatever CPU that is.
Interrupt(c) ==
  /\ intr[c] /\ Lv(c) = 0
  /\ level' = [level EXCEPT ![Me(c)] = 1]
  /\ intr' = [intr EXCEPT ![c] = FALSE]
  /\ UNCHANGED <<locks, noff, intena, switch, pc, arg, old, has>>

InterruptReturn(c) ==
  /\ Lv(c) = 1 /\ At(c, "run") /\ Mine(c) = {}
  /\ level' = [level EXCEPT ![Me(c)] = 0]
  /\ intr' = [intr EXCEPT ![c] = TRUE]
  /\ UNCHANGED <<locks, noff, intena, switch, pc, arg, old, has>>

\* intr_on() in the loop of scheduler().
IntrOn(c) ==
  /\ InScheduler(c) /\ At(c, "run") /\ Mine(c) = {}
  /\ intr' = [intr EXCEPT ![c] = TRUE]
  /\ UNCHANGED <<locks, noff, intena, switch, level, pc, arg, old, has>>

-----------------------------------------------------------------------------
(* Context switches. *)

\* sched(), which a thread calls in sleep() or in yield() (in a handler if it came from
\* kerneltrap()) with p->lock as its only lock: the first load of holding().
Sched(c) ==
  /\ At(c, "run") /\ Me(c) \in Thread /\ Mine(c) = {Me(c)}
  /\ Goto(c, IF locked[Me(c)] THEN "sched_cpu" ELSE "panic")
  /\ UNCHANGED <<locks, cpus, switch, level, arg, old, has>>

\* The other tests of sched(), which saves intena; swtch() leaves p->lock to the scheduler.
SchedSwitch(c) ==
  LET t == Me(c)
      ok == lkcpu[t] = c /\ noff[c] = 1 /\ ~intr[c]
  IN  /\ At(c, "sched_cpu")
      /\ Goto(c, IF ok THEN "run" ELSE "panic")
      /\ IF ok THEN /\ saved' = [saved EXCEPT ![t] = intena[c]]
                    /\ cur' = [cur EXCEPT ![c] = c]
                    /\ has' = [has EXCEPT ![t][Lv(c)] = {}, ![c][0] = {t}]
         ELSE UNCHANGED <<switch, has>>
      /\ UNCHANGED <<locks, cpus, level, arg, old>>

\* Faulty: sched() does not restore intena.
DispatchKeepingIntena(c, t) ==
  /\ InScheduler(c) /\ At(c, "run") /\ Mine(c) = {t}
  /\ \A d \in CPU : cur[d] # t
  /\ cur' = [cur EXCEPT ![c] = t]
  /\ has' = [has EXCEPT ![c][0] = {}, ![t][level[t]] = {t}]
  /\ UNCHANGED <<locks, cpus, saved, level, pc, arg, old>>

\* scheduler() found t RUNNABLE and switches to it, with its lock; sched() of t restores
\* intena and returns.
Dispatch(c, t) ==
  /\ InScheduler(c) /\ At(c, "run") /\ Mine(c) = {t}
  /\ \A d \in CPU : cur[d] # t
  /\ cur' = [cur EXCEPT ![c] = t]
  /\ has' = [has EXCEPT ![c][0] = {}, ![t][level[t]] = {t}]
  /\ intena' = [intena EXCEPT ![c] = saved[t]]
  /\ UNCHANGED <<locks, intr, noff, saved, level, pc, arg, old>>

Step(c) ==
  \/ PushOff(c) \/ AcquireTest(c) \/ Swap(c) \/ Mark(c)
  \/ ReleaseTest(c) \/ Clear(c) \/ Unlock(c) \/ PopOff(c)
  \/ Interrupt(c) \/ InterruptReturn(c) \/ IntrOn(c) \/ Sched(c) \/ SchedSwitch(c)
  \/ \E l \in Lock : Acquire(c, l) \/ Release(c, l)
  \/ \E t \in Thread : Dispatch(c, t)

Next == \E c \in CPU : Step(c)

Spec == Init /\ [][Next]_vars

-----------------------------------------------------------------------------
(* Properties. *)

\* acquire() gives the lock to one holder at a time, be it a thread, a scheduler or a
\* handler.
MutualExclusion ==
  \A x, y \in Context, j, k \in Level : (x # y \/ j # k) => has[x][j] \cap has[y][k] = {}

\* holding() is right although it reads two fields without the lock: while code runs on
\* CPU c, it is true of the locks that code holds, those that came with a switch included,
\* and of no others.
HoldingExact ==
  \A c \in CPU : At(c, "run") => \A l \in Lock : holding(c, l) <=> l \in Mine(c)

\* Interrupts are off while a lock is held or a handler runs.  A thread has them on
\* otherwise: push_off(), pop_off() and sched() restore what its outermost acquire()
\* found, whatever handlers, other threads and the schedulers of the CPUs it has been on
\* did to intena in between.
InterruptsRestored ==
  \A c \in CPU : At(c, "run") =>
    LET free == Lv(c) = 0 /\ Mine(c) = {}
    IN  /\ noff[c] = Cardinality(Mine(c))
        /\ intr[c] => free
        /\ Me(c) \in Thread /\ free => intr[c]

=============================================================================
