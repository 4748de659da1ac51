-------------------------------- MODULE Proc --------------------------------
(***************************************************************************)
(* The life of processes in kernel/proc.c: fork, exit, wait, kill, and the *)
(* sleep and wakeup they rest on, with wait_lock and every p->lock.        *)
(*                                                                         *)
(* A step is what runs between two points at which another process can     *)
(* interfere: acquiring a lock that others may hold, releasing one while   *)
(* another stays held, and each turn of a loop over proc[].  A process     *)
(* that is RUNNING but waits for a spin lock keeps its CPU.                *)
(*                                                                         *)
(* Abstracted: files, memory and exit statuses; a loop over proc[] that    *)
(* looks for one slot is a choice of a slot, or of none, that the loop     *)
(* could have found.  Slot 1 is init, which never exits.                   *)
(***************************************************************************)
EXTENDS Integers, FiniteSets

CONSTANTS NPROC,      \* slots of the process table
          NCPU,       \* processes that run at once
          MaxPid,     \* bound on the pids handed out
          KillPids    \* arguments of kill()

ASSUME SizeAssumption == NPROC \in Nat \ {0} /\ NCPU \in Nat \ {0} /\ MaxPid \in Nat \ {0}

Slots == 1 .. NPROC
initproc == 1
None == 0           \* no process, no holder of a lock, no channel, no pid

VARIABLES state, chan, killed, pid, parent,   \* fields of struct proc
          nextpid,
          plock,      \* plock[q]: the process that holds q's p->lock
          wait_lock,  \* the process that holds wait_lock
          pc,         \* pc[p]: where p is
          at,         \* at[p]: its loop variable (wakeup, or the scan of kwait)
          child,      \* child[p]: np in kfork(); pp in reparent()
          havekids    \* havekids[p] in kwait()

fields == <<state, chan, killed, pid, parent, nextpid>>
locks == <<plock, wait_lock>>
locals == <<pc, at, child, havekids>>
vars == <<fields, locks, locals>>

Set(f, x, v) == [f EXCEPT ![x] = v]

Init ==
  /\ state = [p \in Slots |-> IF p = initproc THEN "RUNNABLE" ELSE "UNUSED"]
  /\ chan = [p \in Slots |-> None]
  /\ killed = [p \in Slots |-> FALSE]
  /\ pid = [p \in Slots |-> IF p = initproc THEN 1 ELSE None]
  /\ parent = [p \in Slots |-> None]
  /\ nextpid = 2
  /\ plock = [p \in Slots |-> None]
  /\ wait_lock = None
  /\ pc = [p \in Slots |-> IF p = initproc THEN "user" ELSE "dead"]
  /\ at = [p \in Slots |-> 1]
  /\ child = [p \in Slots |-> None]
  /\ havekids = [p \in Slots |-> FALSE]

\* p runs on a CPU; it still does while it holds its lock to switch away.
OnCPU(p) == state[p] = "RUNNING" \/ plock[p] = p

Goto(p, l) == pc' = Set(pc, p, l)
At(p, l) == OnCPU(p) /\ pc[p] = l

-----------------------------------------------------------------------------
(* scheduler(), yield() and sleep().                                       *)

\* scheduler() picks p; p returns from sched() and releases its lock.
Dispatch(p) ==
  /\ state[p] = "RUNNABLE" /\ plock[p] = None
  /\ Cardinality({q \in Slots : OnCPU(q)}) < NCPU
  /\ state' = Set(state, p, "RUNNING")
  /\ chan' = Set(chan, p, None)
  /\ UNCHANGED <<killed, pid, parent, nextpid, locks, locals>>

yield(p) ==
  /\ At(p, "user") /\ plock[p] = None
  /\ state' = Set(state, p, "RUNNABLE")
  /\ UNCHANGED <<chan, killed, pid, parent, nextpid, locks, locals>>

\* sleep(p, &wait_lock): take p->lock, ...
sleep(p) ==
  /\ At(p, "sleep") /\ plock[p] = None
  /\ plock' = Set(plock, p, p)
  /\ Goto(p, "sleep_release")
  /\ UNCHANGED <<fields, wait_lock, at, child, havekids>>

\* ... only then let go of wait_lock, ...
sleep_release(p) ==
  /\ At(p, "sleep_release")
  /\ wait_lock' = None
  /\ Goto(p, "sleep_sched")
  /\ UNCHANGED <<fields, plock, at, child, havekids>>

\* ... and switch away; the scheduler releases p->lock.
sleep_sched(p) ==
  /\ At(p, "sleep_sched")
  /\ chan' = Set(chan, p, p)
  /\ state' = Set(state, p, "SLEEPING")
  /\ plock' = Set(plock, p, None)
  /\ Goto(p, "woken")
  /\ UNCHANGED <<killed, pid, parent, nextpid, wait_lock, at, child, havekids>>

\* One turn of wakeup(c)'s loop by p: at slot at[p].
WakeSlot(p, c) ==
  LET q == at[p] IN
  /\ q = p \/ plock[q] = None
  /\ state' = IF q # p /\ state[q] = "SLEEPING" /\ chan[q] = c
              THEN Set(state, q, "RUNNABLE") ELSE state
  /\ at' = Set(at, p, IF q < NPROC THEN q + 1 ELSE 1)
  /\ UNCHANGED <<chan, killed, pid, parent, nextpid, locks, havekids>>

-----------------------------------------------------------------------------
(* kfork().                                                                *)

\* allocproc() finds slot q and returns with its lock held.
kfork(p, q) ==
  /\ At(p, "user")
  /\ state[q] = "UNUSED" /\ plock[q] = None /\ nextpid <= MaxPid
  /\ plock' = Set(plock, q, p)
  /\ pid' = Set(pid, q, nextpid) /\ nextpid' = nextpid + 1
  /\ state' = Set(state, q, "USED")
  /\ child' = Set(child, p, q)
  /\ Goto(p, "fork")
  /\ UNCHANGED <<chan, killed, parent, wait_lock, at, havekids>>

\* freeproc(): what it clears in slot q.
freeproc(q) ==
  /\ pid' = Set(pid, q, None) /\ parent' = Set(parent, q, None)
  /\ chan' = Set(chan, q, None) /\ killed' = Set(killed, q, FALSE)
  /\ state' = Set(state, q, "UNUSED")

\* Out of memory: give the slot back.
kfork_fail(p) ==
  LET q == child[p] IN
  /\ At(p, "fork")
  /\ freeproc(q)
  /\ plock' = Set(plock, q, None)
  /\ child' = Set(child, p, None)
  /\ Goto(p, "user")
  /\ UNCHANGED <<nextpid, wait_lock, at, havekids>>

kfork_copied(p) ==
  /\ At(p, "fork")
  /\ plock' = Set(plock, child[p], None)
  /\ Goto(p, "fork_parent")
  /\ UNCHANGED <<fields, wait_lock, at, child, havekids>>

kfork_parent(p) ==
  /\ At(p, "fork_parent") /\ wait_lock = None
  /\ parent' = Set(parent, child[p], p)
  /\ Goto(p, "fork_ready")
  /\ UNCHANGED <<state, chan, killed, pid, nextpid, locks, at, child, havekids>>

kfork_ready(p) ==
  LET q == child[p] IN
  /\ At(p, "fork_ready") /\ plock[q] = None
  /\ state' = Set(state, q, "RUNNABLE")
  /\ pc' = [pc EXCEPT ![p] = "user", ![q] = "user"]
  /\ child' = Set(child, p, None)
  /\ UNCHANGED <<chan, killed, pid, parent, nextpid, locks, at, havekids>>

-----------------------------------------------------------------------------
(* kexit().                                                                *)

\* exit(), or usertrap() of a killed process, calls kexit().
kexit(p) ==
  /\ At(p, "user") /\ p # initproc
  /\ Goto(p, "exit")
  /\ UNCHANGED <<fields, locks, at, child, havekids>>

kexit_acquire(p) ==
  /\ At(p, "exit") /\ wait_lock = None
  /\ wait_lock' = p
  /\ child' = Set(child, p, 1)
  /\ Goto(p, "reparent")
  /\ UNCHANGED <<fields, plock, at, havekids>>

NextChild(p) ==
  IF child[p] < NPROC THEN child' = Set(child, p, child[p] + 1) /\ Goto(p, "reparent")
  ELSE child' = Set(child, p, None) /\ Goto(p, "wake_parent")

\* Mutant: init is not told of the children it inherits.
reparent_no_wakeup(p) ==
  /\ At(p, "reparent")
  /\ parent' = IF parent[child[p]] = p THEN Set(parent, child[p], initproc) ELSE parent
  /\ NextChild(p)
  /\ UNCHANGED <<state, chan, killed, pid, nextpid, locks, at, havekids>>

\* One turn of reparent()'s loop: not a child of p, or handed to init, ...
reparent(p) ==
  /\ At(p, "reparent")
  /\ IF parent[child[p]] = p
     THEN /\ parent' = Set(parent, child[p], initproc)
          /\ Goto(p, "wake_init") /\ UNCHANGED child
     ELSE NextChild(p) /\ UNCHANGED parent
  /\ UNCHANGED <<state, chan, killed, pid, nextpid, locks, at, havekids>>

\* ... in which case wakeup(initproc) comes before the next turn.
reparent_wakeup(p) ==
  /\ At(p, "wake_init")
  /\ WakeSlot(p, initproc)
  /\ IF at[p] = NPROC THEN NextChild(p) ELSE UNCHANGED <<pc, child>>

kexit_wakeup(p) ==
  /\ At(p, "wake_parent")
  /\ WakeSlot(p, parent[p])
  /\ IF at[p] = NPROC THEN Goto(p, "zombie") ELSE UNCHANGED pc
  /\ UNCHANGED child

\* Mutant: switches away with wait_lock held.
kexit_zombie_keeps_wait_lock(p) ==
  /\ At(p, "zombie") /\ plock[p] = None
  /\ plock' = Set(plock, p, p)
  /\ state' = Set(state, p, "ZOMBIE")
  /\ Goto(p, "exit_sched")
  /\ UNCHANGED <<chan, killed, pid, parent, nextpid, wait_lock, at, child, havekids>>

kexit_zombie(p) ==
  /\ At(p, "zombie") /\ plock[p] = None
  /\ plock' = Set(plock, p, p)
  /\ state' = Set(state, p, "ZOMBIE")
  /\ wait_lock' = None
  /\ Goto(p, "exit_sched")
  /\ UNCHANGED <<chan, killed, pid, parent, nextpid, at, child, havekids>>

\* The last switch; the scheduler releases p->lock.
kexit_sched(p) ==
  /\ At(p, "exit_sched")
  /\ plock' = Set(plock, p, None)
  /\ Goto(p, "dead")
  /\ UNCHANGED <<fields, wait_lock, at, child, havekids>>

-----------------------------------------------------------------------------
(* kwait() and kkill().                                                    *)

kwait(p) ==
  /\ At(p, "user")
  /\ Goto(p, "wait")
  /\ UNCHANGED <<fields, locks, at, child, havekids>>

\* acquire(&wait_lock) at the start, or at the end of sleep().
kwait_acquire(p) ==
  /\ At(p, "wait") \/ At(p, "woken")
  /\ wait_lock = None
  /\ wait_lock' = p
  /\ havekids' = Set(havekids, p, FALSE)
  /\ Goto(p, "scan")
  /\ UNCHANGED <<fields, plock, at, child>>

\* Leave kwait() with a pid or -1.
ReturnFromWait(p) ==
  /\ wait_lock' = None
  /\ at' = Set(at, p, 1) /\ havekids' = Set(havekids, p, FALSE)
  /\ Goto(p, "user")

\* Mutant: the scan leaves out the last slot.
kwait_scan_stops_early(p) ==
  LET q == at[p] IN
  /\ At(p, "scan")
  /\ parent[q] # p \/ state[q] # "ZOMBIE"
  /\ parent[q] = p => plock[q] = None
  /\ havekids' = Set(havekids, p, havekids[p] \/ parent[q] = p)
  /\ at' = Set(at, p, IF q < NPROC - 1 THEN q + 1 ELSE 1)
  /\ IF q < NPROC - 1 THEN UNCHANGED pc ELSE Goto(p, "scanned")
  /\ UNCHANGED <<fields, locks, child>>

\* One turn of the scan: somebody else's child, a live one, or a zombie.
kwait_scan(p) ==
  LET q == at[p] IN
  /\ At(p, "scan")
  /\ parent[q] # p \/ state[q] # "ZOMBIE"
  /\ parent[q] = p => plock[q] = None
  /\ havekids' = Set(havekids, p, havekids[p] \/ parent[q] = p)
  /\ at' = Set(at, p, IF q < NPROC THEN q + 1 ELSE 1)
  /\ IF q < NPROC THEN UNCHANGED pc ELSE Goto(p, "scanned")
  /\ UNCHANGED <<fields, locks, child>>

\* Mutant: reads pp->state without pp->lock.
kwait_reap_unlocked(p) ==
  LET q == at[p] IN
  /\ At(p, "scan")
  /\ parent[q] = p /\ state[q] = "ZOMBIE"
  /\ freeproc(q)
  /\ ReturnFromWait(p)
  /\ UNCHANGED <<nextpid, plock, child>>

kwait_reap(p) ==
  LET q == at[p] IN
  /\ At(p, "scan")
  /\ parent[q] = p /\ plock[q] = None /\ state[q] = "ZOMBIE"
  /\ freeproc(q)
  /\ ReturnFromWait(p)
  /\ UNCHANGED <<nextpid, plock, child>>

\* copyout() of the exit status fails (init passes no address for it).
kwait_copyout_fail(p) ==
  LET q == at[p] IN
  /\ At(p, "scan") /\ p # initproc
  /\ parent[q] = p /\ plock[q] = None /\ state[q] = "ZOMBIE"
  /\ ReturnFromWait(p)
  /\ UNCHANGED <<fields, plock, child>>

\* killed(p) takes p->lock.
kwait_scanned(p) ==
  /\ At(p, "scanned") /\ plock[p] = None
  /\ IF ~havekids[p] \/ killed[p]
     THEN ReturnFromWait(p)
     ELSE Goto(p, "sleep") /\ UNCHANGED <<wait_lock, at, havekids>>
  /\ UNCHANGED <<fields, plock, child>>

\* kkill(n) by p finds n in slot q.
kkill(p, n, q) ==
  /\ At(p, "user")
  /\ pid[q] = n /\ plock[q] = None
  /\ killed' = Set(killed, q, TRUE)
  /\ state' = IF state[q] = "SLEEPING" THEN Set(state, q, "RUNNABLE") ELSE state
  /\ UNCHANGED <<chan, pid, parent, nextpid, locks, locals>>

-----------------------------------------------------------------------------
Kernel(p) ==
  \/ sleep(p) \/ sleep_release(p) \/ sleep_sched(p)
  \/ kfork_fail(p) \/ kfork_copied(p) \/ kfork_parent(p) \/ kfork_ready(p)
  \/ kexit_acquire(p) \/ kwait_acquire(p)
  \/ reparent(p) \/ reparent_wakeup(p) \/ kexit_wakeup(p) \/ kexit_zombie(p) \/ kexit_sched(p)
  \/ kwait_scan(p) \/ kwait_reap(p) \/ kwait_copyout_fail(p) \/ kwait_scanned(p)

Next ==
  \E p \in Slots :
    \/ Dispatch(p) \/ yield(p)
    \/ Kernel(p)
    \/ kexit(p) \/ kwait(p)
    \/ \E q \in Slots : kfork(p, q)
    \/ \E n \in KillPids, q \in Slots : kkill(p, n, q)

Spec == Init /\ [][Next]_vars

\* Processes run kernel code to its end.  A RUNNABLE process is drawn in the
\* end and a spin lock that is free again and again is acquired in the end
\* (SF); init calls wait() for ever, and a killed process traps.
Fairness ==
  /\ \A p \in Slots :
       /\ SF_vars(Dispatch(p)) /\ WF_vars(yield(p)) /\ SF_vars(Kernel(p))
       /\ SF_vars(kexit(p) /\ killed[p])
  /\ SF_vars(kwait(initproc))

FairSpec == Spec /\ Fairness

-----------------------------------------------------------------------------
TypeOK ==
  /\ state \in [Slots -> {"UNUSED", "USED", "SLEEPING", "RUNNABLE", "RUNNING", "ZOMBIE"}]
  /\ chan \in [Slots -> Slots \cup {None}]
  /\ killed \in [Slots -> BOOLEAN]
  /\ pid \in [Slots -> 0 .. MaxPid]
  /\ parent \in [Slots -> Slots \cup {None}]
  /\ nextpid \in 2 .. MaxPid + 1
  /\ plock \in [Slots -> Slots \cup {None}]
  /\ wait_lock \in Slots \cup {None}
  /\ pc \in [Slots -> {"user", "dead", "sleep", "sleep_release", "sleep_sched", "woken",
                       "fork", "fork_parent", "fork_ready", "exit", "reparent",
                       "wake_init", "wake_parent", "zombie", "exit_sched", "wait", "scan",
                       "scanned"}]
  /\ at \in [Slots -> Slots]
  /\ child \in [Slots -> Slots \cup {None}]
  /\ havekids \in [Slots -> BOOLEAN]

\* sched() never panics: whoever switches away holds its own lock and no
\* other, and is not RUNNING any more.
SchedOK ==
  \A p \in Slots : pc[p] \in {"sleep_sched", "exit_sched"} =>
    /\ plock[p] = p
    /\ wait_lock # p
    /\ \A q \in Slots \ {p} : plock[q] # p

\* A process in a recycled slot inherits nothing of the last one: wait() frees
\* the slot only when its process has left its kernel stack for good, and no
\* mark of kill() outlives the process it was meant for.
SlotsReused ==
  /\ \A p \in Slots : state[p] \in {"UNUSED", "USED"} => pc[p] = "dead" /\ plock[p] # p
  /\ \A p \in Slots : killed[p] => pid[p] \in KillPids

\* No wakeup is lost between exit() and wait(): when nobody holds wait_lock,
\* a parent asleep in wait() has a living child and no zombie.
NoLostWakeup ==
  wait_lock = None =>
    \A p \in Slots : state[p] = "SLEEPING" =>
      /\ \A q \in Slots : parent[q] = p => state[q] # "ZOMBIE"
      /\ \E q \in Slots : parent[q] = p

\* Every process has a parent that can still wait for it: exit() hands its
\* children to init before anybody sees it as a zombie.
ParentAlive ==
  wait_lock = None =>
    \A p \in Slots \ {initproc} :
      state[p] \in {"SLEEPING", "RUNNABLE", "RUNNING", "ZOMBIE"} =>
        parent[p] # None /\ state[parent[p]] \notin {"UNUSED", "USED", "ZOMBIE"}

\* init frees every zombie that ends up its child: no slot is lost.
ZombieReaped ==
  \A p \in Slots : state[p] = "ZOMBIE" /\ parent[p] = initproc ~> state[p] = "UNUSED"

\* A killed process exits unless it had passed its last look at killed() and
\* was on its way into sleep(): the look in wait(), and the one in usertrap(),
\* catch it everywhere else.
KilledAwakeDies ==
  \A p \in Slots \ {initproc} :
    /\ killed[p] /\ state[p] # "SLEEPING"
    /\ pc[p] \notin {"sleep", "sleep_release", "sleep_sched"}
    ~> state[p] \in {"ZOMBIE", "UNUSED"}

\* sched() never panics: a process gives up its CPU holding its own lock and no
\* other, and every variable has its type.
SchedSafe == TypeOK /\ SchedOK

\* A slot is reused only after wait() has freed it, clean and with its process off
\* every CPU, and whoever a live process calls its parent is alive to wait for it.
FamilySound == SlotsReused /\ ParentAlive

\* Death completes: init frees every zombie it inherits, and a killed process
\* dies unless the kill met it between its last look at killed() and its sleep.
DeathCompletes == ZombieReaped /\ KilledAwakeDies
=============================================================================
