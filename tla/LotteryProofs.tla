--------------------------- MODULE LotteryProofs ---------------------------
(***************************************************************************)
(* For any number of CPUs and slots, any tickets and any random numbers:   *)
(* no two CPUs run the same process, and a process is RUNNING only while a *)
(* CPU runs it.                                                            *)
(***************************************************************************)
EXTENDS Lottery, TLAPS

\* The part of TypeOK that the argument needs.
TableOK ==
  /\ state \in [Slots -> {"UNUSED", "RUNNABLE", "RUNNING", "SLEEPING"}]
  /\ pc \in [CPUs -> {"top", "count", "load", "store", "select", "wfi", "run"}]
  /\ at \in [CPUs -> Slots]
  /\ proc \in [CPUs -> Slots \cup {NoProc}]

IInv == TableOK /\ RunsOnOneCPU

\* The process table starts with init RUNNABLE and every CPU idle.
LEMMA InitIInv == Init => IInv
BY SizeAssumption DEF Init, IInv, TableOK, RunsOnOneCPU, Slots, NoProc

\* A step of scheduler() that dispatches nobody changes neither the table nor
\* who runs where.
LEMMA StepScan ==
  ASSUME IInv, NEW c \in CPUs, UNCHANGED <<state, proc>>, at' \in [CPUs -> Slots],
         NEW l \in {"top", "count", "load", "store", "select", "wfi"},
         pc[c] # "run", pc' = pc \/ pc' = [pc EXCEPT ![c] = l]
  PROVE  IInv'
BY DEF IInv, TableOK, RunsOnOneCPU

\* scheduler() dispatches a RUNNABLE process: nobody ran it before.
LEMMA StepDispatch ==
  ASSUME IInv, NEW c \in CPUs, NEW p \in Slots, pc[c] = "select", state[p] = "RUNNABLE",
         state' = [state EXCEPT ![p] = "RUNNING"], proc' = [proc EXCEPT ![c] = p],
         pc' = [pc EXCEPT ![c] = "run"], at' \in [CPUs -> Slots]
  PROVE  IInv'
<1>1. TableOK'
  BY DEF IInv, TableOK
<1>2. p # NoProc /\ \A d \in CPUs : proc[d] # p
  BY DEF IInv, RunsOnOneCPU, Slots, NoProc
<1>3. \A d \in CPUs : proc'[d] = IF d = c THEN p ELSE proc[d]
  BY DEF IInv, TableOK
<1>4. \A q \in Slots : state'[q] = IF q = p THEN "RUNNING" ELSE state[q]
  BY DEF IInv, TableOK
<1>5. \A d \in CPUs : pc'[d] = IF d = c THEN "run" ELSE pc[d]
  BY DEF IInv, TableOK
<1>6. proc[c] = NoProc
  BY DEF IInv, RunsOnOneCPU
<1>7. RunsOnOneCPU'
  <2>1. \A d \in CPUs : pc'[d] = "run" <=> proc'[d] # NoProc
    BY <1>2, <1>3, <1>5 DEF IInv, RunsOnOneCPU
  <2>2. \A d \in CPUs : proc'[d] # NoProc => state'[proc'[d]] = "RUNNING"
    BY <1>2, <1>3, <1>4 DEF IInv, RunsOnOneCPU, TableOK
  <2>3. \A q \in Slots : state'[q] = "RUNNING" => \E d \in CPUs : proc'[d] = q
    BY <1>2, <1>3, <1>4, <1>6 DEF IInv, RunsOnOneCPU, Slots, NoProc
  <2>4. \A d, e \in CPUs : proc'[d] = proc'[e] /\ proc'[d] # NoProc => d = e
    BY <1>2, <1>3 DEF IInv, RunsOnOneCPU
  <2> QED
    BY <2>1, <2>2, <2>3, <2>4 DEF RunsOnOneCPU
<1> QED
  BY <1>1, <1>7 DEF IInv

\* The running process gives up its CPU.
LEMMA StepSwitchAway ==
  ASSUME IInv, NEW c \in CPUs, NEW s \in {"UNUSED", "RUNNABLE", "SLEEPING"}, SwitchAway(c, s)
  PROVE  IInv'
<1> DEFINE p == proc[c]
<1>1. /\ pc[c] = "run" /\ p \in Slots /\ p # NoProc
      /\ \A d \in CPUs : proc[d] = p => d = c
  BY DEF SwitchAway, IInv, RunsOnOneCPU, TableOK
<1>2. TableOK'
  BY DEF SwitchAway, Goto, IInv, TableOK
<1>3. \A d \in CPUs : /\ proc'[d] = IF d = c THEN NoProc ELSE proc[d]
                      /\ pc'[d] = IF d = c THEN "top" ELSE pc[d]
  BY DEF SwitchAway, Goto, IInv, TableOK
<1>4. \A q \in Slots : state'[q] = IF q = p THEN s ELSE state[q]
  BY DEF SwitchAway, IInv, TableOK
<1>5. RunsOnOneCPU'
  BY <1>1, <1>3, <1>4 DEF IInv, TableOK, RunsOnOneCPU
<1> QED
  BY <1>2, <1>5 DEF IInv

\* wakeup() and kfork() make a slot RUNNABLE that was not RUNNING.
LEMMA StepReady ==
  ASSUME IInv, NEW p \in Slots, state[p] # "RUNNING",
         state' = [state EXCEPT ![p] = "RUNNABLE"], UNCHANGED <<pc, at, proc>>
  PROVE  IInv'
BY DEF IInv, TableOK, RunsOnOneCPU

\* Each step of scheduler() preserves the invariant.
LEMMA StepScheduler ==
  ASSUME IInv, NEW c \in CPUs, scheduler(c)
  PROVE  IInv'
<1> USE DEF Goto, Set, EndIteration, locals, table
<1>0. at \in [CPUs -> Slots] /\ 1 \in Slots /\ at[c] \in Slots
  BY SizeAssumption DEF IInv, TableOK, Slots
<1>a. at[c] < NPROC => at[c] + 1 \in Slots
  BY <1>0, SizeAssumption DEF Slots
<1>1. CASE top(c)
  BY <1>0, <1>1, StepScan DEF top
<1>2. CASE count(c)
  <2>1. at' \in [CPUs -> Slots]
    BY <1>0, <1>a, <1>2 DEF count
  <2>2. pc[c] # "run" /\ UNCHANGED <<state, proc>>
    BY <1>2 DEF count
  <2>3. pc' = pc \/ pc' = [pc EXCEPT ![c] = "load"] \/ pc' = [pc EXCEPT ![c] = "wfi"]
    BY <1>2 DEF count
  <2> QED
    BY <2>1, <2>2, <2>3, StepScan
<1>3. CASE random_load(c) \/ random_store(c) \/ wfi(c)
  <2>1. at' \in [CPUs -> Slots]
    BY <1>0, <1>3 DEF random_load, random_store, wfi
  <2>2. pc[c] # "run" /\ UNCHANGED <<state, proc>>
    BY <1>3 DEF random_load, random_store, wfi
  <2>3. \E l \in {"store", "select", "top"} : pc' = [pc EXCEPT ![c] = l]
    BY <1>3 DEF random_load, random_store, wfi
  <2> QED
    BY <2>1, <2>2, <2>3, StepScan
<1>4. CASE select(c)
  <2>1. at' \in [CPUs -> Slots] /\ at[c] \in Slots
    BY <1>0, <1>a, <1>4 DEF select
  <2>2. pc[c] = "select"
    BY <1>4 DEF select
  <2>3. \/ /\ state[at[c]] = "RUNNABLE" /\ state' = [state EXCEPT ![at[c]] = "RUNNING"]
           /\ proc' = [proc EXCEPT ![c] = at[c]] /\ pc' = [pc EXCEPT ![c] = "run"]
        \/ /\ UNCHANGED <<state, proc>>
           /\ pc' = pc \/ pc' = [pc EXCEPT ![c] = "wfi"]
    BY <1>4 DEF select, Won
  <2> QED
    BY <2>1, <2>2, <2>3, StepScan, StepDispatch
<1> QED
  BY <1>1, <1>2, <1>3, <1>4 DEF scheduler

\* Every step preserves the invariant.
LEMMA StepIInv == IInv /\ [Next]_vars => IInv'
<1> SUFFICES ASSUME IInv, [Next]_vars PROVE IInv'
  OBVIOUS
<1>1. CASE UNCHANGED vars
  BY <1>1 DEF vars, table, IInv, TableOK, RunsOnOneCPU
<1>2. ASSUME NEW c \in CPUs, yield(c) \/ sleep(c) \/ kexit(c)
      PROVE  IInv'
  BY <1>2, StepSwitchAway DEF yield, sleep, kexit
<1>3. ASSUME NEW c \in CPUs, NEW n \in Requests, sys_settickets(c, n)
      PROVE  IInv'
  BY <1>3 DEF sys_settickets, IInv, TableOK, RunsOnOneCPU
<1>4. ASSUME NEW c \in CPUs, NEW p \in Slots, wakeup(c, p) \/ kfork(c, p)
      PROVE  IInv'
  BY <1>4, StepReady DEF wakeup, kfork
<1> QED
  BY <1>1, <1>2, <1>3, <1>4, StepScheduler DEF Next

\* However the CPUs interleave their counting, drawing and dispatching, no
\* process runs on two of them (scheduler() rechecks the state under p->lock).
THEOREM OneCPUHolds == Spec => []RunsOnOneCPU
<1>1. IInv => RunsOnOneCPU
  BY DEF IInv
<1> QED
  BY <1>1, InitIInv, StepIInv, PTL DEF Spec
-----------------------------------------------------------------------------
(* A draw on one CPU.                                                      *)

\* F sums the tickets tk of the RUNNABLE processes in the first m slots, of
\* which none has more than t.
Sums(F, m, st, tk, t) ==
  /\ F \in [0 .. m -> Int] /\ F[0] = 0
  /\ \A p \in 1 .. m : F[p] = IF st[p] = "RUNNABLE" THEN F[p - 1] + tk[p] ELSE F[p - 1]
  /\ \A p \in 0 .. m : /\ F[p] \in 0 .. p * t
                       /\ F[p] > 0 <=> \E q \in 1 .. p : st[q] = "RUNNABLE"

\* What scheduler() has found out of the table, with F.
Counting(c, t) ==
  \E F : Sums(F, at[c] - 1, state, tickets, t) /\ total[c] = F[at[c] - 1]

Drawing(c, t) ==
  total[c] > 0 /\ \E F : Sums(F, NPROC, state, tickets, t) /\ total[c] = F[NPROC]

Selecting(c, t) ==
  /\ total[c] > 0 /\ winner[c] < total[c]
  /\ \E F : /\ Sums(F, NPROC, state, tickets, t) /\ total[c] = F[NPROC] /\ counter[c] = F[at[c] - 1]
            /\ F[at[c] - 1] <= winner[c] \/ F[at[c] - 1] = 0

LocalsOK(t) ==
  /\ tickets \in [Slots -> 1 .. t]
  /\ rand_state \in Int
  /\ total \in [CPUs -> Int] /\ winner \in [CPUs -> Int] /\ counter \in [CPUs -> Int]

DrawOK(c, t) ==
  /\ pc[c] \in {"top", "wfi", "run"} => at[c] = 1 /\ total[c] = 0
  /\ pc[c] \in {"top", "wfi", "run", "count", "load", "store"} => counter[c] = 0
  /\ pc[c] = "count" => Counting(c, t)
  /\ pc[c] \in {"load", "store"} => Drawing(c, t)
  /\ pc[c] = "select" => Selecting(c, t)

DrawInv(t) == IInv /\ LocalsOK(t) /\ (\A c \in CPUs : DrawOK(c, t)) /\ IdleMeansNothingRunnable

\* The tickets of all processes fit into an int.
Fit(t) ==
  /\ t \in Nat /\ Tickets0 <= t /\ \A n \in Requests : n <= t
  /\ Modulus \in Nat /\ NPROC * t < Modulus \div 2

\* A sum that fits does not wrap.
LEMMA SignedSame ==
  ASSUME Modulus \in Nat, NEW v \in Nat, v < Modulus \div 2
  PROVE  Signed(v) = v
BY DEF Signed

\* The remainder of scheduler()'s draw is below its divisor.
LEMMA CModBelow ==
  ASSUME NEW a \in Int, NEW b \in Nat, b > 0
  PROVE  CMod(a, b) \in Int /\ CMod(a, b) < b
BY DEF CMod

\* p slots hold no more tickets than all of them.
LEMMA Product ==
  ASSUME NEW t \in Nat, NEW p \in 1 .. NPROC
  PROVE  (p - 1) * t + t = p * t /\ p * t <= NPROC * t /\ p * t \in Nat
<1>1. p \in Int /\ t \in Int /\ NPROC \in Int /\ NPROC - p \in Nat
  BY SizeAssumption
<1>2. (p - 1) * t + t = p * t
  BY <1>1
<1>3. (NPROC - p) * t \in Nat /\ p * t \in Nat
  BY <1>1
<1>4. (NPROC - p) * t = NPROC * t - p * t
  BY <1>1
<1> QED
  BY <1>1, <1>2, <1>3, <1>4

\* One turn of a loop over the table goes from the sum of the slots before p to
\* that of the slots up to p.
LEMMA SumsNext ==
  ASSUME NEW t, Fit(t), LocalsOK(t), NEW p \in Slots, NEW F, Sums(F, p - 1, state, tickets, t)
  PROVE  LET n == IF state[p] = "RUNNABLE" THEN Signed(F[p - 1] + tickets[p]) ELSE F[p - 1]
         IN  /\ n = IF state[p] = "RUNNABLE" THEN F[p - 1] + tickets[p] ELSE F[p - 1]
             /\ \E G : Sums(G, p, state, tickets, t) /\ G[p] = n
<1>1. /\ p \in 1 .. NPROC /\ t \in Nat /\ tickets[p] \in 1 .. t /\ F[p - 1] \in 0 .. (p - 1) * t
      /\ Modulus \in Nat /\ NPROC * t < Modulus \div 2
  BY SizeAssumption DEF Slots, Fit, LocalsOK, Sums
<1>2. (p - 1) * t + t = p * t /\ p * t <= NPROC * t /\ p * t \in Nat
  BY <1>1, Product
<1>3. F[p - 1] + tickets[p] \in Nat /\ F[p - 1] + tickets[p] <= p * t
  BY <1>1, <1>2
<1>4. NPROC * t \in Int /\ Modulus \div 2 \in Int
  BY <1>1, SizeAssumption
<1>5. Signed(F[p - 1] + tickets[p]) = F[p - 1] + tickets[p]
  <2>1. F[p - 1] + tickets[p] < Modulus \div 2
    BY <1>1, <1>2, <1>3, <1>4
  <2> QED
    BY <1>1, <1>3, <2>1, SignedSame
<1> DEFINE n == IF state[p] = "RUNNABLE" THEN F[p - 1] + tickets[p] ELSE F[p - 1]
           G == [q \in 0 .. p |-> IF q = p THEN n ELSE F[q]]
<1>6. n \in 0 .. p * t
  BY <1>1, <1>2, <1>3
<1>7. n > 0 <=> \E q \in 1 .. p : state[q] = "RUNNABLE"
  <2>1. F[p - 1] > 0 <=> \E q \in 1 .. p - 1 : state[q] = "RUNNABLE"
    BY <1>1 DEF Sums
  <2> QED
    BY <1>1, <1>3, <2>1
<1>8. /\ \A q \in 0 .. p - 1 : G[q] = F[q]
      /\ G[p] = n /\ DOMAIN G = 0 .. p /\ G = [q \in 0 .. p |-> G[q]]
  BY <1>1
<1>9. n = IF state[p] = "RUNNABLE" THEN F[p - 1] + tickets[p] ELSE F[p - 1]
  OBVIOUS
<1> HIDE DEF n, G
<1>10. /\ \A q \in 0 .. p - 1 : F[q] \in Int /\ F[q] \in 0 .. q * t
       /\ \A q \in 0 .. p - 1 : F[q] > 0 <=> \E r \in 1 .. q : state[r] = "RUNNABLE"
       /\ F[0] = 0
       /\ \A q \in 1 .. p - 1 :
            F[q] = IF state[q] = "RUNNABLE" THEN F[q - 1] + tickets[q] ELSE F[q - 1]
  BY DEF Sums
<1>11. Sums(G, p, state, tickets, t)
  <2>1. G \in [0 .. p -> Int] /\ G[0] = 0
    <3>1. \A q \in 0 .. p : q = p \/ q \in 0 .. p - 1
      BY <1>1
    <3>2. n \in Int /\ 0 \in 0 .. p - 1
      BY <1>1, <1>2, <1>6
    <3>3. \A q \in 0 .. p : G[q] \in Int
      BY <1>8, <1>10, <3>1, <3>2, Zenon
    <3> QED
      BY <1>8, <1>10, <3>2, <3>3, Zenon
  <2>2. ASSUME NEW q \in 1 .. p
        PROVE  G[q] = IF state[q] = "RUNNABLE" THEN G[q - 1] + tickets[q] ELSE G[q - 1]
    <3>1. q - 1 \in 0 .. p - 1 /\ (q # p => q \in 1 .. p - 1 /\ q \in 0 .. p - 1)
      BY <1>1
    <3> QED
      BY <1>8, <1>9, <1>10, <3>1, Zenon
  <2>3. ASSUME NEW q \in 0 .. p
        PROVE  /\ G[q] \in 0 .. q * t
               /\ G[q] > 0 <=> \E r \in 1 .. q : state[r] = "RUNNABLE"
    <3>1. q # p => q \in 0 .. p - 1
      BY <1>1
    <3> QED
      BY <1>6, <1>7, <1>8, <1>10, <3>1
  <2> QED
    BY <2>1, <2>2, <2>3, Zenon DEF Sums
<1> QED
  BY <1>5, <1>8, <1>9, <1>11, Zenon

\* The steps of scheduler() that only look at the table, on the only CPU.
LEMMA DrawCount ==
  ASSUME NEW t, Fit(t), NEW c, CPUs = {c}, DrawInv(t), count(c)
  PROVE  DrawInv(t)'
<1> USE DEF Goto, Set, EndIteration, table
<1>1. /\ pc[c] = "count" /\ UNCHANGED <<state, tickets, rand_state, proc>>
      /\ IInv /\ LocalsOK(t) /\ DrawOK(c, t) /\ IdleMeansNothingRunnable /\ at[c] \in Slots
      /\ at \in [{c} -> Slots] /\ pc = [d \in {c} |-> pc[d]]
      /\ total \in [{c} -> Int] /\ winner \in [{c} -> Int] /\ counter \in [{c} -> Int]
  BY DEF DrawInv, count, IInv, TableOK, LocalsOK
<1> DEFINE p == at[c]
           n == IF state[p] = "RUNNABLE" THEN Signed(total[c] + tickets[p]) ELSE total[c]
<1>2. PICK F : Sums(F, p - 1, state, tickets, t) /\ total[c] = F[p - 1]
  BY <1>1 DEF DrawOK, Counting
<1>3. \E G : Sums(G, p, state, tickets, t) /\ G[p] = n
  BY <1>1, <1>2, SumsNext
<1>4. n \in Int /\ p \in 1 .. NPROC
  BY <1>1, <1>3 DEF Sums, Slots
<1>5. IInv'
  BY <1>1, StepScheduler DEF scheduler
<1>6. counter[c] = 0
  BY <1>1 DEF DrawOK
<1> HIDE DEF n, p
<1>7. \/ /\ p < NPROC /\ at'[c] = p + 1 /\ total'[c] = n /\ pc'[c] = "count"
         /\ UNCHANGED <<winner, counter>>
      \/ /\ p = NPROC /\ n > 0 /\ total'[c] = n /\ pc'[c] = "load" /\ UNCHANGED <<winner, counter>>
      \/ /\ p = NPROC /\ n <= 0 /\ total'[c] = 0 /\ pc'[c] = "wfi" /\ at'[c] = 1
         /\ counter'[c] = 0 /\ winner'[c] = 0
  BY <1>1 DEF count, n, p
<1>8. /\ total' \in [{c} -> Int] /\ winner' \in [{c} -> Int] /\ counter' \in [{c} -> Int]
  BY <1>1, <1>4 DEF count, n, p
<1>9. LocalsOK(t)'
  BY <1>1, <1>8 DEF LocalsOK
<1>10. CASE pc'[c] = "count"
  <2>1. p < NPROC /\ at'[c] - 1 = p /\ total'[c] = n /\ counter'[c] = 0
    BY <1>4, <1>6, <1>7, <1>10
  <2>2. DrawOK(c, t)'
    BY <1>1, <1>3, <1>10, <2>1 DEF DrawOK, Counting
  <2> QED
    BY <1>1, <1>5, <1>9, <1>10, <2>2 DEF DrawInv, IdleMeansNothingRunnable
<1>11. CASE pc'[c] = "load"
  <2>1. p = NPROC /\ n > 0 /\ total'[c] = n /\ counter'[c] = 0
    BY <1>6, <1>7, <1>11
  <2>2. DrawOK(c, t)'
    BY <1>1, <1>3, <1>11, <2>1 DEF DrawOK, Drawing
  <2> QED
    BY <1>1, <1>5, <1>9, <1>11, <2>2 DEF DrawInv, IdleMeansNothingRunnable
<1>12. CASE pc'[c] = "wfi"
  <2>1. p = NPROC /\ n <= 0 /\ total'[c] = 0 /\ at'[c] = 1 /\ counter'[c] = 0
    BY <1>7, <1>12
  <2>2. \A q \in Slots : state[q] # "RUNNABLE"
    <3>1. PICK G : Sums(G, p, state, tickets, t) /\ G[p] = n
      BY <1>3
    <3>2. p \in 0 .. p /\ ~(n > 0)
      BY <1>4, <2>1
    <3>3. G[p] > 0 <=> \E q \in 1 .. p : state[q] = "RUNNABLE"
      BY <3>1, <3>2 DEF Sums
    <3> QED
      BY <2>1, <3>1, <3>2, <3>3 DEF Slots
  <2>3. DrawOK(c, t)'
    BY <1>12, <2>1 DEF DrawOK
  <2> QED
    BY <1>1, <1>5, <1>9, <2>2, <2>3 DEF DrawInv, IdleMeansNothingRunnable
<1> QED
  BY <1>7, <1>10, <1>11, <1>12

\* The only CPU selects: a turn of the loop that does not dispatch its process
\* leaves tickets that pass the winner's, and the last turn cannot be one.
LEMMA DrawSelect ==
  ASSUME NEW t, Fit(t), NEW c, CPUs = {c}, DrawInv(t), select(c)
  PROVE  DrawInv(t)'
<1> USE DEF Goto, Set, EndIteration
<1>1. /\ pc[c] = "select" /\ UNCHANGED <<tickets, rand_state>>
      /\ IInv /\ LocalsOK(t) /\ DrawOK(c, t) /\ at[c] \in Slots
      /\ at \in [{c} -> Slots] /\ pc = [d \in {c} |-> pc[d]]
      /\ total \in [{c} -> Int] /\ winner \in [{c} -> Int] /\ counter \in [{c} -> Int]
  BY DEF DrawInv, select, IInv, TableOK, LocalsOK
<1> DEFINE p == at[c]
           n == IF state[p] = "RUNNABLE" THEN Signed(counter[c] + tickets[p]) ELSE counter[c]
<1>2. PICK F : /\ Sums(F, NPROC, state, tickets, t) /\ total[c] = F[NPROC]
               /\ counter[c] = F[p - 1] /\ (F[p - 1] <= winner[c] \/ F[p - 1] = 0)
  BY <1>1 DEF DrawOK, Selecting
<1>3. p \in 1 .. NPROC /\ total[c] > 0 /\ winner[c] < total[c]
  BY <1>1 DEF Slots, DrawOK, Selecting
<1>4. n = F[p]
  <2>1. F[p] = IF state[p] = "RUNNABLE" THEN F[p - 1] + tickets[p] ELSE F[p - 1]
    BY <1>2, <1>3 DEF Sums
  <2>2. /\ t \in Nat /\ Modulus \in Nat /\ NPROC * t < Modulus \div 2 /\ NPROC * t \in Int
        /\ F[p] \in 0 .. p * t /\ p * t <= NPROC * t /\ p * t \in Nat
    <3>1. t \in Nat /\ Modulus \in Nat /\ NPROC * t < Modulus \div 2 /\ NPROC * t \in Int
      BY SizeAssumption DEF Fit
    <3>2. F[p] \in 0 .. p * t
      BY <1>2, <1>3 DEF Sums
    <3> QED
      BY <1>3, <3>1, <3>2, Product
  <2>3. F[p] \in Nat /\ F[p] < Modulus \div 2
    BY <2>2
  <2> QED
    BY <1>2, <2>1, <2>2, <2>3, SignedSame
<1>5. F[p] \in Int /\ winner[c] \in Int /\ F[p - 1] \in Int
  BY <1>1, <1>2, <1>3 DEF Sums
<1>6. IInv'
  BY <1>1, StepScheduler DEF scheduler
<1> HIDE DEF n, p
<1>7. \/ /\ Won(c, p, n) /\ pc'[c] = "run" /\ at'[c] = 1 /\ total'[c] = 0 /\ counter'[c] = 0
      \/ /\ ~Won(c, p, n) /\ p < NPROC /\ at'[c] = p + 1 /\ counter'[c] = n
         /\ UNCHANGED <<state, pc, total, winner>>
      \/ /\ ~Won(c, p, n) /\ p = NPROC /\ pc'[c] = "wfi"
  BY <1>1 DEF select, n, p
<1>8. /\ total' \in [{c} -> Int] /\ winner' \in [{c} -> Int] /\ counter' \in [{c} -> Int]
  BY <1>1, <1>4, <1>5 DEF select, n, p
<1>9. LocalsOK(t)'
  BY <1>1, <1>8 DEF LocalsOK
<1>10. ASSUME ~Won(c, p, n)
       PROVE  F[p] <= winner[c] \/ F[p] = 0
  BY <1>2, <1>3, <1>4, <1>5, <1>10 DEF Won, Sums
<1>11. CASE Won(c, p, n)
  <2>1. pc'[c] = "run" /\ at'[c] = 1 /\ total'[c] = 0 /\ counter'[c] = 0
    BY <1>7, <1>11
  <2>2. DrawOK(c, t)'
    BY <2>1 DEF DrawOK
  <2> QED
    BY <1>6, <1>9, <2>1, <2>2 DEF DrawInv, IdleMeansNothingRunnable
<1>12. CASE ~Won(c, p, n) /\ p < NPROC
  <2>1. at'[c] - 1 = p /\ counter'[c] = n /\ UNCHANGED <<state, pc, total, winner>>
    BY <1>3, <1>7, <1>12
  <2>2. Selecting(c, t)'
    <3>1. /\ Sums(F, NPROC, state', tickets', t) /\ total'[c] = F[NPROC]
          /\ counter'[c] = F[at'[c] - 1] /\ (F[at'[c] - 1] <= winner'[c] \/ F[at'[c] - 1] = 0)
      BY <1>1, <1>2, <1>4, <1>10, <1>12, <2>1
    <3> QED
      BY <1>3, <2>1, <3>1 DEF Selecting
  <2>3. DrawOK(c, t)'
    BY <1>1, <2>1, <2>2 DEF DrawOK
  <2> QED
    BY <1>1, <1>6, <1>9, <2>1, <2>3 DEF DrawInv, IdleMeansNothingRunnable
<1>13. CASE ~Won(c, p, n) /\ p = NPROC
  BY <1>2, <1>3, <1>5, <1>10, <1>13
<1> QED
  BY <1>3, <1>7, <1>11, <1>12, <1>13

\* The winner is drawn below the sum of the tickets.
LEMMA DrawRandom ==
  ASSUME NEW t, Fit(t), NEW c, CPUs = {c}, DrawInv(t), random_load(c) \/ random_store(c)
  PROVE  DrawInv(t)'
<1> USE DEF Goto, Set, table
<1>1. /\ UNCHANGED <<state, tickets, total, counter>> /\ pc[c] \in {"load", "store"}
      /\ IInv /\ LocalsOK(t) /\ DrawOK(c, t) /\ at \in [{c} -> Slots] /\ 1 \in Slots
      /\ pc = [d \in {c} |-> pc[d]] /\ total \in [{c} -> Int] /\ winner \in [{c} -> Int]
      /\ rand_state \in Int /\ Modulus \in Nat /\ counter[c] = 0
  BY SizeAssumption DEF DrawInv, random_load, random_store, IInv, TableOK, LocalsOK, Fit, DrawOK,
                        Slots
<1>2. IInv'
  BY <1>1, StepScheduler DEF scheduler
<1>3. PICK F : Sums(F, NPROC, state, tickets, t) /\ total[c] = F[NPROC] /\ total[c] > 0
  BY <1>1 DEF DrawOK, Drawing
<1>4. CASE random_load(c)
  <2>1. LocalsOK(t)'
    BY <1>1, <1>4 DEF LocalsOK, random_load
  <2>2. pc'[c] = "store"
    BY <1>1, <1>4 DEF random_load
  <2>3. DrawOK(c, t)'
    BY <1>1, <1>3, <2>2 DEF DrawOK, Drawing
  <2> QED
    BY <1>2, <2>1, <2>2, <2>3 DEF DrawInv, IdleMeansNothingRunnable
<1>5. CASE random_store(c)
  <2> DEFINE r == (winner[c] * 1664525 + 1013904223) % Modulus
             w == CMod(Signed(r), total[c])
  <2>1. Modulus > 0
    BY <1>1, SizeAssumption, <1>3 DEF Fit
  <2>2. r \in Int /\ Signed(r) \in Int
    BY <1>1, <2>1 DEF Signed
  <2>3. w \in Int /\ w < total[c]
    BY <1>1, <1>3, <2>2, CModBelow
  <2> HIDE DEF r, w
  <2>4. rand_state' = r /\ winner' = [winner EXCEPT ![c] = w] /\ at'[c] = 1 /\ pc'[c] = "select"
    BY <1>1, <1>5 DEF random_store, r, w
  <2>5. LocalsOK(t)'
    BY <1>1, <2>2, <2>3, <2>4 DEF LocalsOK
  <2>6. Selecting(c, t)'
    <3>1. /\ Sums(F, NPROC, state', tickets', t) /\ total'[c] = F[NPROC]
          /\ counter'[c] = F[at'[c] - 1] /\ F[at'[c] - 1] = 0
      BY <1>1, <1>3, <2>4 DEF Sums
    <3> QED
      BY <1>1, <1>3, <2>3, <2>4, <3>1 DEF Selecting
  <2>7. DrawOK(c, t)'
    BY <2>4, <2>6 DEF DrawOK
  <2> QED
    BY <1>2, <2>4, <2>5, <2>7 DEF DrawInv, IdleMeansNothingRunnable
<1> QED
  BY <1>4, <1>5

\* Every other step begins and ends where the only CPU has no sums.
LEMMA DrawOther ==
  ASSUME NEW t, Fit(t), NEW c, CPUs = {c}, DrawInv(t), Next,
         ~count(c), ~random_load(c), ~random_store(c), ~select(c)
  PROVE  DrawInv(t)'
<1>1. /\ IInv /\ LocalsOK(t) /\ DrawOK(c, t) /\ pc = [d \in {c} |-> pc[d]]
      /\ tickets \in [Slots -> 1 .. t] /\ Requests \subseteq Int /\ t \in Nat /\ 1 \in 1 .. t
      /\ \A n \in Requests : n <= t
  BY TicketsAssumption DEF DrawInv, IInv, TableOK, LocalsOK, Fit
<1>2. pc[c] = "run" => proc[c] \in Slots
  BY <1>1 DEF IInv, TableOK, RunsOnOneCPU
<1>3. \/ top(c) \/ wfi(c) \/ yield(c) \/ sleep(c) \/ kexit(c)
      \/ \E n \in Requests : sys_settickets(c, n)
      \/ \E p \in Slots : wakeup(c, p) \/ kfork(c, p)
  BY DEF Next, scheduler
<1>4. /\ UNCHANGED <<rand_state, at, total, winner, counter>>
      /\ pc[c] \in {"top", "wfi", "run"} /\ pc'[c] \in {"top", "count", "run"}
      /\ (pc'[c] = "count" => pc[c] = "top")
  BY <1>1, <1>3 DEF top, wfi, yield, sleep, kexit, SwitchAway, sys_settickets, wakeup, kfork, Goto,
                    locals, table
<1>5. tickets' \in [Slots -> 1 .. t]
  <2>1. ASSUME NEW n \in Requests, sys_settickets(c, n) PROVE tickets' \in [Slots -> 1 .. t]
    BY <1>1, <1>2, <2>1 DEF sys_settickets
  <2>2. ASSUME NEW p \in Slots, kfork(c, p) PROVE tickets' \in [Slots -> 1 .. t]
    BY <1>1, <1>2, <2>2 DEF kfork
  <2> QED
    BY <1>1, <1>3, <2>1, <2>2 DEF top, wfi, yield, sleep, kexit, SwitchAway, wakeup, table
<1>6. IInv'
  BY <1>1, StepIInv
<1>7. LocalsOK(t)'
  BY <1>1, <1>4, <1>5 DEF LocalsOK
<1>8. at[c] = 1 /\ total[c] = 0 /\ counter[c] = 0
  BY <1>1, <1>4 DEF DrawOK
<1>9. ASSUME pc'[c] = "count"
      PROVE  Counting(c, t)'
  <2> DEFINE F == [q \in 0 .. 0 |-> 0]
  <2>1. Sums(F, 0, state', tickets', t)
    BY <1>1 DEF Sums
  <2>2. F[0] = 0 /\ 1 - 1 = 0
    OBVIOUS
  <2> QED
    BY <1>4, <1>8, <2>1, <2>2 DEF Counting
<1>10. DrawOK(c, t)'
  BY <1>4, <1>8, <1>9 DEF DrawOK
<1> QED
  BY <1>4, <1>6, <1>7, <1>10 DEF DrawInv, IdleMeansNothingRunnable

\* With one CPU a draw of scheduler() never comes to nothing, whatever the
\* random numbers: the winner lies below the sum that the first loop found, and
\* the second one meets the same processes.  The CPU waits for an interrupt only
\* when no process is RUNNABLE, as long as the tickets of all fit into an int.
THEOREM OneCPUDraws ==
  ASSUME NEW c, CPUs = {c}, NEW t, Fit(t)
  PROVE  Spec => []IdleMeansNothingRunnable
<1>1. Init => DrawInv(t)
  <2> SUFFICES ASSUME Init PROVE DrawInv(t)
    OBVIOUS
  <2>1. LocalsOK(t)
    BY TicketsAssumption DEF Init, LocalsOK, Fit
  <2>2. DrawOK(c, t) /\ IdleMeansNothingRunnable
    BY DEF Init, DrawOK, IdleMeansNothingRunnable
  <2> QED
    BY <2>1, <2>2, InitIInv DEF DrawInv
<1>2. DrawInv(t) /\ [Next]_vars => DrawInv(t)'
  <2> SUFFICES ASSUME DrawInv(t), [Next]_vars PROVE DrawInv(t)'
    OBVIOUS
  <2>1. CASE Next
    BY <2>1, DrawCount, DrawRandom, DrawSelect, DrawOther
  <2>2. CASE UNCHANGED vars
    <3>1. IInv'
      BY <2>2, StepIInv DEF DrawInv
    <3> QED
      BY <2>2, <3>1 DEF vars, table, locals, DrawInv, LocalsOK, DrawOK, Counting, Drawing,
                        Selecting, IdleMeansNothingRunnable
  <2> QED
    BY <2>1, <2>2
<1>3. DrawInv(t) => IdleMeansNothingRunnable
  BY DEF DrawInv
<1> QED
  BY <1>1, <1>2, <1>3, PTL DEF Spec
=============================================================================
