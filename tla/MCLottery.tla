----------------------------- MODULE MCLottery -----------------------------
(***************************************************************************)
(* Three instances of the lottery scheduler side by side; `part' names the *)
(* one that runs.                                                          *)
(*   two     two CPUs that draw while the table changes under them         *)
(*   one     one CPU and every operation                                   *)
(*   steady  one CPU and a workload in which every process sets its        *)
(*           tickets at most once, the way the test programs do            *)
(***************************************************************************)
EXTENDS Lottery

CONSTANT c0

VARIABLES part, s_state, s_tickets, s_rand, s_pc, s_at, s_total, s_winner, s_counter,
          s_proc

single == <<s_state, s_tickets, s_rand, s_pc, s_at, s_total, s_winner, s_counter, s_proc>>

One == INSTANCE Lottery WITH
  CPUs <- {c0}, NPROC <- 3, IntBits <- 5, Requests <- {0, 3}, Tickets0 <- 2,
  Kinds <- {"sleep", "exit", "fork", "settickets"},
  state <- s_state, tickets <- s_tickets, rand_state <- s_rand, pc <- s_pc, at <- s_at,
  total <- s_total, winner <- s_winner, counter <- s_counter, proc <- s_proc

Fixed == INSTANCE Lottery WITH
  CPUs <- {c0}, NPROC <- 3, IntBits <- 6, Requests <- {0, 5}, Tickets0 <- 2,
  Kinds <- {"fork", "settickets"},
  state <- s_state, tickets <- s_tickets, rand_state <- s_rand, pc <- s_pc, at <- s_at,
  total <- s_total, winner <- s_winner, counter <- s_counter, proc <- s_proc

\* A process whose tickets are no longer the initial ones keeps them.
Steady == \A p \in Fixed!Slots : s_tickets[p] # 2 => s_tickets'[p] = s_tickets[p]

MCInit == part \in {"two", "one", "steady"} /\ Init /\ One!Init

MCNext ==
  /\ UNCHANGED part
  /\ \/ part = "two" /\ Next /\ UNCHANGED single
     \/ part = "one" /\ One!Next /\ UNCHANGED vars
     \/ part = "steady" /\ Fixed!Next /\ Steady /\ UNCHANGED vars

\* A CPU keeps executing; the timer interrupts every process (trap.c yields).
MCFairness ==
  /\ \A c \in CPUs : /\ WF_vars(part = "two" /\ scheduler(c))
                     /\ WF_vars(part = "two" /\ SwitchAway(c, "RUNNABLE"))
  /\ WF_single(part = "steady" /\ Fixed!scheduler(c0))
  /\ WF_single(part = "steady" /\ Fixed!SwitchAway(c0, "RUNNABLE"))

MCSpec == MCInit /\ [][MCNext]_<<part, vars, single>> /\ MCFairness
-----------------------------------------------------------------------------
\* With one CPU a draw never comes to nothing: scheduler() waits for an
\* interrupt only when no process is RUNNABLE (the tickets not overflowing).
OneCPUDrawSucceeds == part = "one" => One!IdleMeansNothingRunnable

\* On two CPUs, while some process is RUNNABLE some process gets to run,
\* although a draw of scheduler() that the other CPU overtakes may come to
\* nothing.
TwoCPUsProgress ==
  (part = "two" /\ \E p \in Slots : state[p] = "RUNNABLE")
    ~> (\E p \in Slots : state[p] = "RUNNING")

\* "even processes with 1 ticket will eventually run" (PHASE1_REPORT.md): on
\* one CPU with a settled workload scheduler() draws every RUNNABLE process in
\* the end, because random() has full period.
NoStarvation ==
  \A p \in Fixed!Slots :
    (part = "steady" /\ s_state[p] = "RUNNABLE") ~> s_state[p] = "RUNNING"
=============================================================================
