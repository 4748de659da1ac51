------------------------------ MODULE Spinlock ------------------------------
(***************************************************************************)
(* Spin locks and interrupts: acquire(), release(), push_off() and         *)
(* pop_off() of kernel/spinlock.c step by step, under timer interrupts     *)
(* (kerneltrap() and clockintr() of kernel/trap.c) and context switches    *)
(* (sched(), yield(), sleep(), wakeup() and scheduler() of kernel/proc.c). *)
(*                                                                         *)
(* Processes call pause(), which sleeps under tickslock.  A context is the *)
(* kernel thread of a process, or the scheduler thread of a CPU, which is  *)
(* named as the CPU.  Each has a stack of frames: what runs, and its       *)
(* callers.  An interrupt puts a frame on the stack of whatever context    *)
(* runs on the CPU, and a context may find itself on another CPU after any *)
(* switch.  Which process a scheduler tries is module Lottery.             *)
(***************************************************************************)
EXTENDS Integers, Sequences, FiniteSets

CONSTANTS CPUs,
          Cpu0,     \* the CPU that counts ticks
          NPROC,
          N,        \* the argument of pause()
          TickMod,  \* 2^32
          None

Procs     == 1 .. NPROC
tickslock == 0
Locks     == {tickslock} \cup Procs     \* q stands for proc[q].lock
Contexts  == Procs \cup CPUs

ASSUME SpinlockAssumption ==
  /\ Cpu0 \in CPUs /\ NPROC \in Nat /\ TickMod \in Nat /\ N \in 0 .. TickMod - 1
  /\ CPUs \cap (0 .. NPROC + 1) = {} /\ None \notin CPUs

VARIABLES locked, lkcpu,  \* lk->locked and lk->cpu
          noff, intena,   \* of each CPU
          intr,           \* are its interrupts on?
          on,             \* the context it runs
          stk,            \* the frames of each context, the running one first
          saved,          \* sched()'s local intena
          state,          \* p->state
          ticks, ticks0   \* and the local of each pause()

cpu  == <<noff, intena, intr>>
lks  == <<locked, lkcpu>>
vars == <<locked, lkcpu, noff, intena, intr, on, stk, saved, state, ticks, ticks0>>

Frame(at, x) == [at |-> at, x |-> x, old |-> FALSE]
Top(c) == Head(stk[on[c]])
At(c, l) == Top(c).at = l

Labels == {"user", "entry", "entry1", "syscall", "start", "loop", "killed", "killed1", "sleep",
           "sleep1", "sched", "slept", "woken", "return", "return1", "forkret", "prepare",
           "idle", "open", "scan", "try", "back", "trap", "tick", "wake", "wakeup",
           "tkilled", "tkilled1", "tyield", "yield", "yielded", "tret",
           "acquire", "push", "spin", "mark", "release", "unlock", "pop"}

TypeOK ==
  /\ locked \in [Locks -> BOOLEAN] /\ lkcpu \in [Locks -> CPUs \cup {None}]
  /\ noff \in [CPUs -> 0 .. 3] /\ intena \in [CPUs -> BOOLEAN] /\ intr \in [CPUs -> BOOLEAN]
  /\ on \in [CPUs -> Contexts]
  /\ \A k \in Contexts : Len(stk[k]) \in 1 .. 4 /\ \A i \in 1 .. Len(stk[k]) :
       stk[k][i] \in [at : Labels, x : 0 .. NPROC + 1, old : BOOLEAN]
  /\ saved \in [Procs -> BOOLEAN]
  /\ state \in [Procs -> {"RUNNABLE", "RUNNING", "SLEEPING"}]
  /\ ticks \in 0 .. TickMod - 1 /\ ticks0 \in [Procs -> 0 .. TickMod - 1]

Init ==
  /\ locked = [l \in Locks |-> FALSE] /\ lkcpu = [l \in Locks |-> None]
  /\ noff = [c \in CPUs |-> 0] /\ intena = [c \in CPUs |-> FALSE]
  /\ intr = [c \in CPUs |-> FALSE]
  /\ on = [c \in CPUs |-> c]
  /\ stk = [k \in Contexts |-> <<Frame(IF k \in CPUs THEN "idle" ELSE "forkret", 0)>>]
  /\ saved = [p \in Procs |-> FALSE]
  /\ state = [p \in Procs |-> "RUNNABLE"]
  /\ ticks = 0 /\ ticks0 = [p \in Procs |-> 0]

\* The running frame goes on at l, with x.
Jump(c, l, x) == stk' = [stk EXCEPT ![on[c]][1].at = l, ![on[c]][1].x = x]

\* It calls f(y), acquire or release, and then goes on at l, with x.
Call(c, f, y, l, x) ==
  stk' = [stk EXCEPT ![on[c]] = <<Frame(f, y), Frame(l, x)>> \o Tail(@)]

Pop(c) == stk' = [stk EXCEPT ![on[c]] = Tail(@)]
-----------------------------------------------------------------------------
(* spinlock.c.                                                             *)

\* push_off(): intr_get(), while interrupts may still be on.
push_off_get(c) ==
  /\ At(c, "acquire")
  /\ stk' = [stk EXCEPT ![on[c]][1].at = "push", ![on[c]][1].old = intr[c]]
  /\ UNCHANGED <<lks, cpu, on, saved, state, ticks, ticks0>>

\* The rest of push_off(), with interrupts off.
push_off(c) ==
  /\ At(c, "push")
  /\ intr' = [intr EXCEPT ![c] = FALSE]
  /\ intena' = [intena EXCEPT ![c] = IF noff[c] = 0 THEN Top(c).old ELSE @]
  /\ noff' = [noff EXCEPT ![c] = @ + 1]
  /\ Jump(c, "spin", Top(c).x)
  /\ UNCHANGED <<lks, on, saved, state, ticks, ticks0>>

\* The test-and-set that succeeds.
acquire_spin(c) ==
  LET l == Top(c).x
  IN  /\ At(c, "spin") /\ ~locked[l]
      /\ locked' = [locked EXCEPT ![l] = TRUE]
      /\ Jump(c, "mark", l)
      /\ UNCHANGED <<lkcpu, cpu, on, saved, state, ticks, ticks0>>

acquire_mark(c) ==
  /\ At(c, "mark")
  /\ lkcpu' = [lkcpu EXCEPT ![Top(c).x] = c]
  /\ Pop(c)
  /\ UNCHANGED <<locked, cpu, on, saved, state, ticks, ticks0>>

holding(c, l) == locked[l] /\ lkcpu[l] = c

release(c) ==
  /\ At(c, "release")
  /\ lkcpu' = [lkcpu EXCEPT ![Top(c).x] = None]
  /\ Jump(c, "unlock", Top(c).x)
  /\ UNCHANGED <<locked, cpu, on, saved, state, ticks, ticks0>>

release_unlock(c) ==
  /\ At(c, "unlock")
  /\ locked' = [locked EXCEPT ![Top(c).x] = FALSE]
  /\ Jump(c, "pop", Top(c).x)
  /\ UNCHANGED <<lkcpu, cpu, on, saved, state, ticks, ticks0>>

pop_off(c) ==
  /\ At(c, "pop")
  /\ noff' = [noff EXCEPT ![c] = @ - 1]
  /\ intr' = [intr EXCEPT ![c] = @ \/ (noff[c] = 1 /\ intena[c])]
  /\ Pop(c)
  /\ UNCHANGED <<lks, intena, on, saved, state, ticks, ticks0>>
-----------------------------------------------------------------------------
(* pause(), sleep() and the return to user mode.                           *)

\* killed(), which finds p->killed 0 (kill() is module Proc's), called at l;
\* m is inside it, and the caller goes on at n.
Killed(c, l, m, n) ==
  \/ At(c, l) /\ Call(c, "acquire", on[c], m, 0)
  \/ At(c, m) /\ Call(c, "release", on[c], n, 0)

\* A system call traps, with interrupts off, to usertrap().
usertrap(c) ==
  /\ At(c, "user")
  /\ intr' = [intr EXCEPT ![c] = FALSE]
  /\ Jump(c, "entry", 0)
  /\ UNCHANGED <<lks, noff, intena, on, saved, state, ticks, ticks0>>

\* usertrap() calls killed() before the system call and after any trap.
usertrap_killed(c) ==
  /\ \/ Killed(c, "entry", "entry1", "syscall")
     \/ Killed(c, "return", "return1", "prepare")
     \/ Killed(c, "tkilled", "tkilled1", "tyield")
  /\ UNCHANGED <<lks, cpu, on, saved, state, ticks, ticks0>>

\* intr_on() and sys_pause(), which begins with acquire(&tickslock).
sys_pause(c) ==
  /\ At(c, "syscall")
  /\ intr' = [intr EXCEPT ![c] = TRUE]
  /\ Call(c, "acquire", tickslock, "start", 0)
  /\ UNCHANGED <<lks, noff, intena, on, saved, state, ticks, ticks0>>

sys_pause_start(c) ==
  /\ At(c, "start")
  /\ ticks0' = [ticks0 EXCEPT ![on[c]] = ticks]
  /\ Jump(c, "loop", 0)
  /\ UNCHANGED <<lks, cpu, on, saved, state, ticks>>

Elapsed(p) == (ticks - ticks0[p]) % TickMod

\* The loop: return when the time is up, else call killed() and sleep().
sys_pause_loop(c) ==
  /\ At(c, "loop")
  /\ IF Elapsed(on[c]) < N
     THEN Jump(c, "killed", 0)
     ELSE Call(c, "release", tickslock, "return", 0)
  /\ UNCHANGED <<lks, cpu, on, saved, state, ticks, ticks0>>

sys_pause_killed(c) ==
  /\ Killed(c, "killed", "killed1", "sleep")
  /\ UNCHANGED <<lks, cpu, on, saved, state, ticks, ticks0>>

\* Mutant: the condition lock is let go first.
sleep_early(c) ==
  /\ \/ At(c, "sleep") /\ Call(c, "release", tickslock, "sleep1", 0)
     \/ At(c, "sleep1") /\ Call(c, "acquire", on[c], "sched", 0)
  /\ UNCHANGED <<lks, cpu, on, saved, state, ticks, ticks0>>

\* sleep() takes p->lock, and then lets tickslock go.
sleep(c) ==
  /\ \/ At(c, "sleep") /\ Call(c, "acquire", on[c], "sleep1", 0)
     \/ At(c, "sleep1") /\ Call(c, "release", tickslock, "sched", 0)
  /\ UNCHANGED <<lks, cpu, on, saved, state, ticks, ticks0>>

\* sched() up to swtch(): the process becomes s, and goes on at l.
sched(c, s, l) ==
  /\ state' = [state EXCEPT ![on[c]] = s]
  /\ saved' = [saved EXCEPT ![on[c]] = intena[c]]
  /\ on' = [on EXCEPT ![c] = c]
  /\ Jump(c, l, 0)
  /\ UNCHANGED <<lks, cpu, ticks, ticks0>>

sleep_sched(c) == At(c, "sched") /\ sched(c, "SLEEPING", "slept")

\* Mutant: intena is left as the CPU has it.
sched_back_none(c) == UNCHANGED intena

\* The rest of sched(), perhaps on another CPU.
sched_back(c) ==
  intena' = [intena EXCEPT ![c] = saved[on[c]]]

\* Mutant: the condition lock is taken again before p->lock is released.
sleep_back_swapped(c) ==
  /\ \/ At(c, "slept") /\ sched_back(c) /\ Call(c, "acquire", tickslock, "woken", 0)
     \/ At(c, "woken") /\ Call(c, "release", on[c], "loop", 0) /\ UNCHANGED intena
  /\ UNCHANGED <<lks, noff, intr, on, saved, state, ticks, ticks0>>

\* The rest of sleep().
sleep_back(c) ==
  /\ \/ At(c, "slept") /\ sched_back(c) /\ Call(c, "release", on[c], "woken", 0)
     \/ At(c, "woken") /\ Call(c, "acquire", tickslock, "loop", 0) /\ UNCHANGED intena
  /\ UNCHANGED <<lks, noff, intr, on, saved, state, ticks, ticks0>>

\* A new process releases the lock scheduler() took for it.
forkret(c) ==
  /\ At(c, "forkret")
  /\ Call(c, "release", on[c], "prepare", 0)
  /\ UNCHANGED <<lks, cpu, on, saved, state, ticks, ticks0>>

\* intr_off(), and sret, after which interrupts are taken again.
prepare_return(c) ==
  /\ At(c, "prepare")
  /\ intr' = [intr EXCEPT ![c] = TRUE]
  /\ Jump(c, "user", 0)
  /\ UNCHANGED <<lks, noff, intena, on, saved, state, ticks, ticks0>>
-----------------------------------------------------------------------------
(* Timer interrupts.                                                       *)

\* The timer of a CPU interrupts whatever it runs.
interrupt(c) ==
  /\ intr[c]
  /\ intr' = [intr EXCEPT ![c] = FALSE]
  /\ stk' = [stk EXCEPT ![on[c]] = <<Frame("trap", 0)>> \o @]
  /\ UNCHANGED <<lks, noff, intena, on, saved, state, ticks, ticks0>>

\* After devintr(), usertrap() calls killed() and kerneltrap() does not.
AfterTick(c) ==
  IF stk[on[c]][2].at = "user" THEN "tkilled" ELSE "tyield"

\* devintr(): only CPU 0 goes through clockintr()'s tick.
clockintr(c) ==
  /\ At(c, "trap")
  /\ IF c = Cpu0 THEN Call(c, "acquire", tickslock, "tick", 0) ELSE Jump(c, AfterTick(c), 0)
  /\ UNCHANGED <<lks, cpu, on, saved, state, ticks, ticks0>>

clockintr_tick(c) ==
  /\ At(c, "tick")
  /\ ticks' = (ticks + 1) % TickMod
  /\ Jump(c, "wake", 1)
  /\ UNCHANGED <<lks, cpu, on, saved, state, ticks0>>

\* wakeup(&ticks): x is the process it looks at; release(&tickslock) follows.
wakeup(c) ==
  LET x == Top(c).x
  IN  /\ At(c, "wake")
      /\ CASE x > NPROC -> Call(c, "release", tickslock, AfterTick(c), 0)
           [] x = on[c] -> Jump(c, "wake", x + 1)
           [] OTHER     -> Call(c, "acquire", x, "wakeup", x)
      /\ UNCHANGED <<lks, cpu, on, saved, state, ticks, ticks0>>

wakeup_one(c) ==
  LET x == Top(c).x
  IN  /\ At(c, "wakeup")
      /\ state' = [state EXCEPT ![x] = IF @ = "SLEEPING" THEN "RUNNABLE" ELSE @]
      /\ Call(c, "release", x, "wake", x + 1)
      /\ UNCHANGED <<lks, cpu, on, saved, ticks, ticks0>>

\* A process gives up the CPU; the scheduler just returns.
yield(c) ==
  /\ At(c, "tyield")
  /\ IF on[c] \in Procs THEN Call(c, "acquire", on[c], "yield", 0) ELSE Jump(c, "tret", 0)
  /\ UNCHANGED <<lks, cpu, on, saved, state, ticks, ticks0>>

yield_sched(c) == At(c, "yield") /\ sched(c, "RUNNABLE", "yielded")

yield_back(c) ==
  /\ At(c, "yielded")
  /\ sched_back(c)
  /\ Call(c, "release", on[c], "tret", 0)
  /\ UNCHANGED <<lks, noff, intr, on, saved, state, ticks, ticks0>>

\* The return from the trap: interrupts were on, and are again.
kerneltrap_return(c) ==
  /\ At(c, "tret")
  /\ intr' = [intr EXCEPT ![c] = TRUE]
  /\ Pop(c)
  /\ UNCHANGED <<lks, noff, intena, on, saved, state, ticks, ticks0>>
-----------------------------------------------------------------------------
(* scheduler().                                                            *)

scheduler_intr(c) ==
  /\ \/ At(c, "idle") /\ intr' = [intr EXCEPT ![c] = TRUE] /\ Jump(c, "open", 0)
     \/ At(c, "open") /\ intr' = [intr EXCEPT ![c] = FALSE] /\ Jump(c, "scan", 0)
  /\ UNCHANGED <<lks, noff, intena, on, saved, state, ticks, ticks0>>

\* It takes the lock of some process: which ones, and how often before it
\* turns interrupts on again, is the lottery's business.
scheduler_scan(c) ==
  /\ At(c, "scan")
  /\ \E q \in Procs : Call(c, "acquire", q, "try", q)
  /\ UNCHANGED <<lks, cpu, on, saved, state, ticks, ticks0>>

scheduler_swtch(c) ==
  LET q == Top(c).x
  IN  /\ At(c, "try") /\ state[q] = "RUNNABLE"
      /\ state' = [state EXCEPT ![q] = "RUNNING"]
      /\ on' = [on EXCEPT ![c] = q]
      /\ Jump(c, "back", q)
      /\ UNCHANGED <<lks, cpu, saved, ticks, ticks0>>

\* It passes the process over, or the process has switched back.
scheduler_release(c) ==
  /\ \/ At(c, "try") /\ \E l \in {"scan", "idle"} : Call(c, "release", Top(c).x, l, 0)
     \/ At(c, "back") /\ Call(c, "release", Top(c).x, "idle", 0)
  /\ UNCHANGED <<lks, cpu, on, saved, state, ticks, ticks0>>

Step(c) ==
  \/ push_off_get(c) \/ push_off(c) \/ acquire_spin(c) \/ acquire_mark(c)
  \/ release(c) \/ release_unlock(c) \/ pop_off(c)
  \/ usertrap(c) \/ usertrap_killed(c) \/ sys_pause(c) \/ sys_pause_start(c)
  \/ sys_pause_loop(c) \/ sys_pause_killed(c) \/ sleep(c) \/ sleep_sched(c) \/ sleep_back(c)
  \/ forkret(c) \/ prepare_return(c)
  \/ interrupt(c) \/ clockintr(c) \/ clockintr_tick(c) \/ wakeup(c) \/ wakeup_one(c)
  \/ yield(c) \/ yield_sched(c) \/ yield_back(c) \/ kerneltrap_return(c)
  \/ scheduler_intr(c) \/ scheduler_scan(c) \/ scheduler_swtch(c) \/ scheduler_release(c)

Next == \E c \in CPUs : Step(c)

Spec == Init /\ [][Next]_vars
-----------------------------------------------------------------------------
(* Properties.                                                             *)

\* No panic() of acquire(), release(), pop_off(), sched() or kerneltrap() is
\* reached: a CPU never takes a lock it holds, releases only locks it holds,
\* with interrupts off, and switches holding exactly the lock of the process
\* it leaves.
NoPanic ==
  \A c \in CPUs : LET x == Top(c).x IN
    /\ At(c, "spin") => ~holding(c, x)
    /\ At(c, "release") => holding(c, x)
    /\ At(c, "pop") => ~intr[c] /\ noff[c] >= 1
    /\ At(c, "sched") \/ At(c, "yield") => holding(c, on[c]) /\ noff[c] = 1 /\ ~intr[c]
    /\ At(c, "trap") => ~intr[c]

\* noff counts the locks the CPU holds, and the one acquire() or release() is
\* at work on, although a lock taken by scheduler() is released by the process
\* it switches to, and the other way round.
NoffExact ==
  \A c \in CPUs :
    noff[c] = Cardinality({l \in Locks : holding(c, l)})
              + (IF Top(c).at \in {"spin", "mark", "unlock", "pop"} THEN 1 ELSE 0)

\* Interrupts are as the running thread left them, on whichever CPU it now is:
\* off while it holds a lock or is in a trap handler or in usertrap()'s entry,
\* and on again when a system call is over.
InterruptsRestored ==
  \A c \in CPUs :
    /\ intr[c] => noff[c] = 0
    /\ Top(c).at \in {"trap", "tkilled", "tyield", "tret", "entry", "syscall", "scan"} => ~intr[c]
    /\ Top(c).at \in {"user", "return"} => intr[c]

\* Through interrupts, sleep, wakeup and migration noff counts exactly the locks
\* a CPU holds, interrupts are on or off as the running thread left them, and no
\* panic() of acquire(), release(), pop_off(), sched() or kerneltrap() is
\* reached.
LocksBalanced == TypeOK /\ NoffExact /\ InterruptsRestored /\ NoPanic

\* No CPUs spin, each on a lock another of them holds, and none on its own:
\* locks are taken in one order (tickslock before any p->lock), and interrupt
\* handlers find no lock of theirs taken by what they interrupted.
NoSpinCycle ==
  \A S \in (SUBSET CPUs) \ {{}} :
    \E c \in S : ~ (At(c, "spin") /\ locked[Top(c).x] /\ lkcpu[Top(c).x] \in S)

\* No tick is missed: a process asleep in pause() whose time is up is one that
\* the wakeup() in progress has still to look at.
NoMissedTick ==
  \A p \in Procs :
    state[p] = "SLEEPING" /\ Elapsed(p) >= N =>
      \E i \in 1 .. Len(stk[on[Cpu0]]) :
        LET f == stk[on[Cpu0]][i] IN f.at \in {"wake", "wakeup"} /\ f.x <= p
=============================================================================
