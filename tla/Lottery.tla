------------------------------ MODULE Lottery ------------------------------
(***************************************************************************)
(* The lottery scheduler of kernel/proc.c: scheduler() on every CPU, the   *)
(* random number generator it shares, and what the process it runs does to *)
(* the process table: yield, sleep, exit, settickets, wakeup and fork.     *)
(*                                                                         *)
(* The body of each loop over proc[] runs under p->lock and is one step;   *)
(* the other CPUs take steps in between.  random() has no lock: its load   *)
(* and its store of rand_state are two steps.  Interrupts are off from the *)
(* intr_off() at the top of the loop until a process runs, so on a CPU an  *)
(* interrupt handler runs only at the top or while a process runs.         *)
(*                                                                         *)
(* int is IntBits wide and wraps, as addw does.  The low IntBits of        *)
(* rand_state evolve independently of the others and are all that random() *)
(* returns, so only they are kept.  The scheduler tells RUNNABLE from the  *)
(* other states only: UNUSED stands for USED and ZOMBIE too (module Proc). *)
(***************************************************************************)
EXTENDS Integers, FiniteSets

CONSTANTS CPUs,
          NPROC,     \* slots of the process table
          IntBits,   \* 32 in the kernel
          Requests,  \* arguments of settickets()
          Tickets0,  \* 10 in the kernel: tickets of init
          Kinds      \* what running processes do besides running and yielding:
                     \* a subset of {"sleep", "exit", "fork", "settickets"}

ASSUME SizeAssumption == NPROC \in Nat \ {0} /\ IntBits \in Nat \ {0, 1}
ASSUME TicketsAssumption == Tickets0 \in Nat \ {0} /\ Requests \subseteq Int

Slots == 1 .. NPROC
NoProc == 0
Modulus == 2 ^ IntBits

VARIABLES state,       \* state[p]: p->state
          tickets,     \* tickets[p]: p->tickets
          rand_state,  \* its low IntBits
          pc,          \* pc[c]: where CPU c is in scheduler()
          at,          \* at[c]: the slot its loop variable p points to
          total,       \* total[c]: total_tickets
          winner,      \* winner[c]; in random(), the value loaded
          counter,     \* counter[c]
          proc         \* proc[c]: c->proc

table == <<state, tickets>>
locals == <<total, winner, counter>>
vars == <<table, rand_state, pc, at, locals, proc>>

Init ==
  /\ state = [p \in Slots |-> IF p = 1 THEN "RUNNABLE" ELSE "UNUSED"]
  /\ tickets = [p \in Slots |-> Tickets0]
  /\ rand_state = 1
  /\ pc = [c \in CPUs |-> "top"]
  /\ at = [c \in CPUs |-> 1]
  /\ total = [c \in CPUs |-> 0]
  /\ winner = [c \in CPUs |-> 0]
  /\ counter = [c \in CPUs |-> 0]
  /\ proc = [c \in CPUs |-> NoProc]

-----------------------------------------------------------------------------
(* Machine arithmetic.                                                     *)

\* The low bits as a signed int.
Signed(v) == LET r == v % Modulus IN IF r >= Modulus \div 2 THEN r - Modulus ELSE r

\* C's remainder, which has the sign of the dividend.
CMod(a, b) == IF a >= 0 THEN a % b ELSE -((-a) % b)

-----------------------------------------------------------------------------
(* scheduler().                                                            *)

Goto(c, l) == pc' = [pc EXCEPT ![c] = l]
Set(f, c, v) == [f EXCEPT ![c] = v]

\* The locals of an iteration end with it.
EndIteration(c) ==
  /\ at' = Set(at, c, 1)
  /\ total' = Set(total, c, 0)
  /\ winner' = Set(winner, c, 0)
  /\ counter' = Set(counter, c, 0)

top(c) ==
  /\ pc[c] = "top"
  /\ Goto(c, "count")
  /\ UNCHANGED <<table, rand_state, at, locals, proc>>

\* Part 1: one turn of the loop that counts.
count(c) ==
  LET p == at[c]
      t == IF state[p] = "RUNNABLE" THEN Signed(total[c] + tickets[p]) ELSE total[c]
  IN
  /\ pc[c] = "count"
  /\ \/ /\ p < NPROC
        /\ at' = Set(at, c, p + 1) /\ total' = Set(total, c, t)
        /\ UNCHANGED <<pc, winner, counter>>
     \/ /\ p = NPROC /\ t > 0
        /\ Goto(c, "load") /\ total' = Set(total, c, t)
        /\ UNCHANGED <<at, winner, counter>>
     \/ /\ p = NPROC /\ t <= 0
        /\ Goto(c, "wfi") /\ EndIteration(c)
  /\ UNCHANGED <<table, rand_state, proc>>

\* Part 2: random() loads rand_state, ...
random_load(c) ==
  /\ pc[c] = "load"
  /\ winner' = Set(winner, c, rand_state)
  /\ Goto(c, "store")
  /\ UNCHANGED <<table, rand_state, at, total, counter, proc>>

random_store_off_by_one(c) ==
  LET r == (winner[c] * 1664525 + 1013904223) % Modulus IN
  /\ pc[c] = "store"
  /\ rand_state' = r
  /\ winner' = Set(winner, c, CMod(Signed(r), total[c] + 1))
  /\ at' = Set(at, c, 1)
  /\ Goto(c, "select")
  /\ UNCHANGED <<table, total, counter, proc>>

random_store_forgets(c) ==
  LET r == (winner[c] * 1664525 + 1013904223) % Modulus IN
  /\ pc[c] = "store"
  /\ winner' = Set(winner, c, CMod(Signed(r), total[c]))
  /\ at' = Set(at, c, 1)
  /\ Goto(c, "select")
  /\ UNCHANGED <<table, rand_state, total, counter, proc>>

\* ... stores the next one, and the winner is drawn from it.
random_store(c) ==
  LET r == (winner[c] * 1664525 + 1013904223) % Modulus IN
  /\ pc[c] = "store"
  /\ rand_state' = r
  /\ winner' = Set(winner, c, CMod(Signed(r), total[c]))
  /\ at' = Set(at, c, 1)
  /\ Goto(c, "select")
  /\ UNCHANGED <<table, total, counter, proc>>

Won_in_any_state(c, p, n) == n > winner[c]
Won_beyond_total(c, p, n) == state[p] = "RUNNABLE" /\ n > total[c]

\* The tickets up to p's, n, pass the winner's.
Won(c, p, n) == state[p] = "RUNNABLE" /\ n > winner[c]

\* One turn of the loop that selects.
select(c) ==
  LET p == at[c]
      n == IF state[p] = "RUNNABLE" THEN Signed(counter[c] + tickets[p]) ELSE counter[c]
      won == Won(c, p, n)
  IN
  /\ pc[c] = "select"
  /\ \/ /\ won
        /\ state' = Set(state, p, "RUNNING")
        /\ proc' = Set(proc, c, p)
        /\ Goto(c, "run") /\ EndIteration(c)
     \/ /\ ~won /\ p < NPROC
        /\ at' = Set(at, c, p + 1) /\ counter' = Set(counter, c, n)
        /\ UNCHANGED <<state, pc, total, winner, proc>>
     \/ /\ ~won /\ p = NPROC
        /\ Goto(c, "wfi") /\ EndIteration(c)
        /\ UNCHANGED <<state, proc>>
  /\ UNCHANGED <<tickets, rand_state>>

\* An interrupt, at the latest the timer's, ends wfi.
wfi(c) ==
  /\ pc[c] = "wfi"
  /\ Goto(c, "top")
  /\ UNCHANGED <<table, rand_state, at, locals, proc>>

-----------------------------------------------------------------------------
(* What runs on a CPU outside scheduler().                                 *)

\* sched() with the state the process gave itself under its lock.
SwitchAway(c, s) ==
  /\ pc[c] = "run"
  /\ state' = [state EXCEPT ![proc[c]] = s]
  /\ proc' = [proc EXCEPT ![c] = NoProc]
  /\ Goto(c, "top")
  /\ UNCHANGED <<tickets, rand_state, at, locals>>

yield(c) == SwitchAway(c, "RUNNABLE")
sleep(c) == "sleep" \in Kinds /\ SwitchAway(c, "SLEEPING")
kexit(c) == "exit" \in Kinds /\ proc[c] # 1 /\ SwitchAway(c, "UNUSED")

\* The process running on c, or an interrupt handler on c, changes slot p.
wakeup(c, p) ==
  /\ pc[c] \in {"top", "run"}
  /\ state[p] = "SLEEPING"
  /\ state' = [state EXCEPT ![p] = "RUNNABLE"]
  /\ UNCHANGED <<tickets, rand_state, pc, at, locals, proc>>

sys_settickets(c, n) ==
  /\ "settickets" \in Kinds /\ pc[c] = "run"
  /\ tickets' = [tickets EXCEPT ![proc[c]] = IF n < 1 THEN 1 ELSE n]
  /\ UNCHANGED <<state, rand_state, pc, at, locals, proc>>

\* The child has its parent's tickets when it becomes RUNNABLE.
kfork(c, p) ==
  /\ "fork" \in Kinds /\ pc[c] = "run"
  /\ state[p] = "UNUSED"
  /\ state' = [state EXCEPT ![p] = "RUNNABLE"]
  /\ tickets' = [tickets EXCEPT ![p] = tickets[proc[c]]]
  /\ UNCHANGED <<rand_state, pc, at, locals, proc>>

scheduler(c) ==
  \/ top(c) \/ count(c) \/ random_load(c) \/ random_store(c) \/ select(c) \/ wfi(c)

Next ==
  \E c \in CPUs :
    \/ scheduler(c)
    \/ yield(c) \/ sleep(c) \/ kexit(c)
    \/ \E n \in Requests : sys_settickets(c, n)
    \/ \E p \in Slots : wakeup(c, p) \/ kfork(c, p)

Spec == Init /\ [][Next]_vars

-----------------------------------------------------------------------------
Ints == -(Modulus \div 2) .. Modulus \div 2 - 1

TypeOK ==
  /\ state \in [Slots -> {"UNUSED", "RUNNABLE", "RUNNING", "SLEEPING"}]
  /\ tickets \in [Slots -> 1 .. Modulus \div 2 - 1]
  /\ rand_state \in 0 .. Modulus - 1
  /\ pc \in [CPUs -> {"top", "count", "load", "store", "select", "wfi", "run"}]
  /\ at \in [CPUs -> Slots]
  /\ total \in [CPUs -> Ints]
  /\ winner \in [CPUs -> Ints \cup 0 .. Modulus - 1]
  /\ counter \in [CPUs -> Ints]
  /\ proc \in [CPUs -> Slots \cup {NoProc}]

\* A process is RUNNING exactly while one CPU, and one only, runs it, although
\* the CPUs count and draw without a common lock.
RunsOnOneCPU ==
  /\ \A c \in CPUs : pc[c] = "run" <=> proc[c] # NoProc
  /\ \A c \in CPUs : proc[c] # NoProc => state[proc[c]] = "RUNNING"
  /\ \A p \in Slots : state[p] = "RUNNING" => \E c \in CPUs : proc[c] = p
  /\ \A c, d \in CPUs : proc[c] = proc[d] /\ proc[c] # NoProc => c = d

\* With one CPU a draw never comes to nothing: the CPU waits for an interrupt
\* only when no process is RUNNABLE (the sum of tickets not overflowing).
IdleMeansNothingRunnable ==
  \A c \in CPUs : pc[c] = "wfi" => \A p \in Slots : state[p] # "RUNNABLE"
=============================================================================
