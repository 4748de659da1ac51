----------------------------- MODULE ProcProofs -----------------------------
(***************************************************************************)
(* Proofs about module Proc, for any number of slots, CPUs and pids: no    *)
(* panic of sched(), no slot reused too early, no child without a living   *)
(* parent, no wakeup lost between exit() and wait().                       *)
(***************************************************************************)
EXTENDS Proc, TLAPS

USE Zenon

-----------------------------------------------------------------------------
\* Slots are numbered from 1.
LEMMA SlotRange == NPROC \in Nat /\ \A p \in Slots : p \in Int /\ 1 <= p /\ p <= NPROC
  BY SizeAssumption, SMT DEF Slots

\* The first one is init's, and None is no slot.
LEMMA SlotNames == 1 \in Slots /\ initproc \in Slots /\ None \notin Slots
  BY SizeAssumption, SMT DEF Slots, None, initproc

\* The slot after p is in the table, unless p is the last one.
LEMMA NextSlot == \A p \in Slots : p # NPROC => p < NPROC /\ p + 1 \in Slots
  BY SizeAssumption, SMT DEF Slots

-----------------------------------------------------------------------------
(* The inductive invariant.                                                *)

Holding   == {"sleep", "sleep_release", "reparent", "wake_init", "wake_parent", "zombie",
              "scan", "scanned"}
Switching == {"sleep_release", "sleep_sched", "exit_sched"}
Forking   == {"fork", "fork_parent", "fork_ready"}
Exiting   == {"exit", "reparent", "wake_init", "wake_parent", "zombie", "exit_sched", "dead"}
Looping   == {"scan", "wake_init", "wake_parent"}
Living    == {"SLEEPING", "RUNNABLE", "RUNNING"}

\* Who holds wait_lock, and the p->lock of whom, follows from where each
\* process is; in the loops of reparent() and wakeup() it also is in range.
LockInv ==
  /\ \A p \in Slots : wait_lock = p <=> pc[p] \in Holding
  /\ \A p \in Slots : plock[p] = p <=> pc[p] \in Switching
  /\ \A p, q \in Slots : p # q => (plock[q] = p <=> pc[p] = "fork" /\ child[p] = q)

\* Where each process is and its p->state agree.
StateInv ==
  \A p \in Slots :
    /\ state[p] \in {"UNUSED", "USED"} => pc[p] = "dead"
    /\ pc[p] = "dead" => state[p] \in {"UNUSED", "USED", "ZOMBIE"}
    /\ state[p] = "ZOMBIE" => pc[p] \in {"exit_sched", "dead"}
    /\ pc[p] = "exit_sched" => state[p] = "ZOMBIE"
    /\ state[p] = "SLEEPING" => pc[p] = "woken" /\ chan[p] = p
    /\ state[p] = "RUNNABLE" => pc[p] \in {"user", "woken"}

\* The locals: np of kfork(), pp of reparent(), and the loop variables.
LocalInv ==
  \A p \in Slots :
    /\ pc[p] \in {"reparent", "wake_init"} => child[p] \in Slots
    /\ pc[p] \notin Looping => at[p] = 1
    /\ pc[p] \in Exiting => p # initproc
    /\ pc[p] \in Forking => child[p] \in Slots /\ state[child[p]] = "USED"
    /\ \A r \in Slots : pc[p] \in Forking /\ pc[r] \in Forking /\ p # r => child[p] # child[r]

\* A slot has no parent until kfork() sets it, after which it is the caller's.
NewSlots ==
  /\ \A p \in Slots : state[p] = "UNUSED" => parent[p] = None
  /\ \A p \in Slots : pc[p] \in {"fork", "fork_parent"} => parent[child[p]] = None
  /\ \A p \in Slots : pc[p] = "fork_ready" => parent[child[p]] = p

\* Every process has a living parent, whoever holds wait_lock.
ParentLives ==
  \A p \in Slots \ {initproc} : state[p] \in Living \cup {"ZOMBIE"} =>
    parent[p] \in Slots /\ state[parent[p]] \in Living

\* An exiting process has no child among the slots reparent() has passed.
ChildrenPassed ==
  \A p, q \in Slots : parent[q] = p =>
    /\ pc[p] = "reparent" => q >= child[p]
    /\ pc[p] = "wake_init" => q > child[p]
    /\ pc[p] \notin {"wake_parent", "zombie", "exit_sched", "dead"}

FamilyInv == NewSlots /\ ParentLives /\ ChildrenPassed

\* p sleeps in wait(), or has decided to.
Waiting(p) == state[p] = "SLEEPING" \/ pc[p] \in {"sleep", "sleep_release", "sleep_sched"}

\* Who waits, or is about to because its scan found a child, has one.
HasChild ==
  \A p \in Slots :
    \/ Waiting(p)
    \/ pc[p] \in {"scan", "scanned"} /\ havekids[p]
    => \E q \in Slots : parent[q] = p

\* It has a zombie child only while the process that handed it to init has
\* still to reach init in wakeup().
ZombieTold ==
  \A p, q \in Slots : Waiting(p) /\ parent[q] = p /\ state[q] = "ZOMBIE" =>
    p = initproc /\ \E r \in Slots : pc[r] = "wake_init" /\ at[r] = initproc

\* Who exits has woken its parent when wakeup() is past it.
ParentTold ==
  \A q \in Slots :
    /\ pc[q] = "wake_parent" /\ Waiting(parent[q]) => at[q] <= parent[q]
    /\ pc[q] = "zombie" => ~ Waiting(parent[q])

\* A scan has met no zombie child in the slots it has passed.
ScanSeen ==
  \A p, q \in Slots : parent[q] = p /\ state[q] = "ZOMBIE" =>
    /\ pc[p] = "scan" => q >= at[p]
    /\ pc[p] # "scanned"

WakeInv == HasChild /\ ZombieTold /\ ParentTold /\ ScanSeen

\* Only a process whose pid was the argument of kill() is marked.
KillInv ==
  /\ \A p \in Slots : state[p] = "UNUSED" => pid[p] = None
  /\ \A p \in Slots : killed[p] => pid[p] \in KillPids

IInv == TypeOK /\ LockInv /\ StateInv /\ LocalInv /\ FamilyInv /\ WakeInv

-----------------------------------------------------------------------------
(* Every step keeps it.                                                    *)

\* One turn of wakeup(c): only the process it looks at changes, from SLEEPING to
\* RUNNABLE, which it does when it sleeps on c; the loop stays in the table.
LEMMA WakeTurn ==
  ASSUME TypeOK, NEW p \in Slots, NEW c, WakeSlot(p, c)
  PROVE  \E s, a :
           /\ state' = [state EXCEPT ![at[p]] = s]
           /\ s = state[at[p]] \/ (at[p] # p /\ state[at[p]] = "SLEEPING" /\ s = "RUNNABLE")
           /\ at[p] # p /\ chan[at[p]] = c => s # "SLEEPING"
           /\ at' = [at EXCEPT ![p] = a] /\ a \in Slots
           /\ a = IF at[p] = NPROC THEN 1 ELSE at[p] + 1
<1> DEFINE s == IF at[p] # p /\ state[at[p]] = "SLEEPING" /\ chan[at[p]] = c
                THEN "RUNNABLE" ELSE state[at[p]]
           a == IF at[p] = NPROC THEN 1 ELSE at[p] + 1
<1>1. at[p] \in Slots
  BY DEF TypeOK
<1>2. at[p] < NPROC <=> at[p] # NPROC
  BY <1>1, SlotRange, SMT
<1>3. at' = [at EXCEPT ![p] = a]
  BY <1>2 DEF WakeSlot, Set
<1>4. a \in Slots
  BY <1>1, SlotNames, NextSlot DEF initproc
<1>5. state' = [state EXCEPT ![at[p]] = s]
  BY <1>1 DEF TypeOK, WakeSlot, Set
<1> WITNESS s, a
<1> QED
  BY <1>3, <1>4, <1>5

\* reparent() goes on to the next slot, or to wakeup(p->parent).
LEMMA ChildTurn ==
  ASSUME TypeOK, NEW p \in Slots, child[p] \in Slots, NextChild(p)
  PROVE  \E c \in Slots \cup {None}, l \in {"reparent", "wake_parent"} :
           /\ child' = [child EXCEPT ![p] = c] /\ pc' = [pc EXCEPT ![p] = l]
           /\ l = "reparent" => c \in Slots /\ c = child[p] + 1
           /\ l = "wake_parent" => child[p] = NPROC
<1>1. CASE child[p] < NPROC
  <2>1. child[p] + 1 \in Slots
    BY <1>1, SlotRange, NextSlot, SMT
  <2> QED
    BY <1>1, <2>1 DEF NextChild, Set, Goto
<1>2. CASE ~ child[p] < NPROC
  <2>1. child[p] = NPROC
    BY <1>2, SlotRange, SMT
  <2> QED
    BY <1>2, <2>1 DEF NextChild, Set, Goto
<1> QED
  BY <1>1, <1>2

\* init never exits, so it is there to inherit.
LEMMA InitLives == IInv => state[initproc] \in Living /\ pc[initproc] \notin Exiting
  BY SlotNames, SMT DEF IInv, TypeOK, StateInv, LocalInv, Living, Exiting

\* Who is in kexit() has a parent, and not itself once its children are gone.
LEMMA ParentHere ==
  ASSUME IInv, NEW p \in Slots, pc[p] \in Exiting \ {"dead"}
  PROVE  parent[p] \in Slots /\ (pc[p] = "wake_parent" => parent[p] # p)
<1>1. state[p] \in Living \cup {"ZOMBIE"} /\ p # initproc
  BY SMT DEF IInv, TypeOK, StateInv, LocalInv, Exiting, Living
<1>2. parent[p] \in Slots
  BY <1>1 DEF IInv, FamilyInv, ParentLives
<1>3. pc[p] = "wake_parent" => parent[p] # p
  BY <1>1 DEF IInv, FamilyInv, ChildrenPassed
<1> QED BY <1>2, <1>3

\* In wakeup(p->parent), a parent that waits after the turn is one that the loop
\* has still to reach: it can be neither inside sleep(), for want of wait_lock
\* and of its own lock, nor asleep on anything but itself.
LEMMA ParentTurn ==
  ASSUME IInv, NEW p \in Slots, kexit_wakeup(p)
  PROVE  Waiting(parent[p])' => at[p] < parent[p]
<1> DEFINE w == parent[p]
<1>1. w \in Slots /\ w # p
  BY ParentHere DEF kexit_wakeup, At, Exiting
<1>2. pc[p] = "wake_parent" /\ parent' = parent /\ pc'[w] = pc[w] /\ wait_lock = p
      /\ WakeSlot(p, w)
  BY <1>1, SMT DEF kexit_wakeup, WakeSlot, At, Goto, Set, IInv, TypeOK, LockInv, Holding
<1>3. PICK s, a :
           /\ state' = [state EXCEPT ![at[p]] = s]
           /\ s = state[at[p]] \/ (at[p] # p /\ state[at[p]] = "SLEEPING" /\ s = "RUNNABLE")
           /\ at[p] # p /\ chan[at[p]] = w => s # "SLEEPING"
  BY <1>2, WakeTurn DEF IInv
<1>4. Waiting(w)' => Waiting(w) /\ at[p] # w
  <2>1. CASE at[p] = w
     <3>1. plock[w] = None /\ chan[w] = chan[at[p]]
       BY <1>1, <1>2, <2>1 DEF WakeSlot
     <3>2. pc[w] \notin {"sleep", "sleep_release", "sleep_sched"}
       BY <1>1, <1>2, <3>1, SlotNames DEF IInv, LockInv, Holding, Switching
     <3>3. state'[w] # "SLEEPING"
       BY <1>1, <1>3, <2>1 DEF IInv, TypeOK, StateInv
     <3> QED BY <1>2, <3>2, <3>3 DEF Waiting
  <2>2. CASE at[p] # w
     BY <1>1, <1>2, <1>3, <2>2 DEF Waiting, IInv, TypeOK
  <2> QED BY <2>1, <2>2
<1>5. Waiting(w) => at[p] <= w
  BY <1>2 DEF IInv, WakeInv, ParentTold
<1>6. at[p] \in Slots
  BY DEF IInv, TypeOK
<1>7. at[p] # w /\ at[p] <= w => at[p] < w
  BY <1>1, <1>6, SlotRange, SMT
<1> QED
  BY <1>4, <1>5, <1>7

\* The turn of reparent() that hands a child to init leaves p no child up to it.
LEMMA HandedOver == ASSUME IInv, NEW p \in Slots, reparent(p), parent[child[p]] = p PROVE ChildrenPassed'
<1>1. child[p] \in Slots /\ parent' = [parent EXCEPT ![child[p]] = initproc]
  BY DEF reparent, Set, IInv, LocalInv, At
<1>2. pc' = [pc EXCEPT ![p] = "wake_init"] /\ UNCHANGED child /\ pc[p] = "reparent"
  BY DEF reparent, Set, Goto, At
<1> SUFFICES ASSUME NEW r \in Slots, NEW q \in Slots, parent'[q] = r
             PROVE  /\ pc'[r] = "reparent" => q >= child'[r]
                    /\ pc'[r] = "wake_init" => q > child'[r]
                    /\ pc'[r] \notin {"wake_parent", "zombie", "exit_sched", "dead"}
  BY DEF ChildrenPassed
<1>3. CASE q = child[p]
  BY <1>1, <1>2, <1>3, InitLives DEF IInv, TypeOK, Exiting, LocalInv
<1>4. CASE q # child[p]
  <2>1. q \in Int /\ child[p] \in Int
    BY <1>1, SlotRange
  <2>2. parent[q] = r
    BY <1>1, <1>4 DEF IInv, TypeOK
  <2> QED
    BY <1>2, <1>4, <2>1, <2>2, SMT DEF IInv, TypeOK, FamilyInv, ChildrenPassed
<1> QED BY <1>3, <1>4

\* The turn that goes on to the next slot leaves p no child before it.
LEMMA ChildPassed == ASSUME IInv, NEW p \in Slots, pc[p] \in {"reparent", "wake_init"}, child[p] \in Slots, UNCHANGED parent,
     parent[child[p]] # p,
   NEW c \in Slots \cup {None}, NEW l \in {"reparent", "wake_parent"}, 
         /\ child' = [child EXCEPT ![p] = c] /\ pc' = [pc EXCEPT ![p] = l],
          l = "reparent" => c \in Slots /\ c = child[p] + 1,
          l = "wake_parent" => child[p] = NPROC
 PROVE ChildrenPassed'
<1>2. ASSUME NEW q \in Slots, parent[q] = p PROVE q > child[p]
  <2>1. q \in Int /\ child[p] \in Int /\ q # child[p]
    BY <1>2, SlotRange
  <2> QED
    BY <1>2, <2>1, SMT DEF IInv, FamilyInv, ChildrenPassed
<1>3. ASSUME NEW q \in Slots, parent[q] = p PROVE child[p] # NPROC /\ q >= child[p] + 1
  BY <1>2, <1>3, SlotRange, SMT
<1> QED
  BY <1>3 DEF IInv, TypeOK, FamilyInv, ChildrenPassed

\* A turn of kwait()'s scan that finds no zombie leaves none up to its slot.
LEMMA ScanPassed == ASSUME IInv, NEW p \in Slots, kwait_scan(p) PROVE ScanSeen'
<1>1. UNCHANGED <<state, parent>> /\ pc[p] = "scan" /\ (parent[at[p]] # p \/ state[at[p]] # "ZOMBIE")
   /\ pc' = (IF at[p] < NPROC THEN pc ELSE [pc EXCEPT ![p] = "scanned"])
  /\ at' = [at EXCEPT ![p] = IF at[p] < NPROC THEN at[p] + 1 ELSE 1]
  BY DEF kwait_scan, Set, Goto, At, fields
<1>2. ASSUME NEW q \in Slots, parent[q] = p, state[q] = "ZOMBIE" PROVE at[p] < NPROC /\ q >= at[p] + 1
  <2>1. q \in Int /\ at[p] \in Int /\ q # at[p] /\ NPROC \in Int /\ q <= NPROC
    BY <1>1, <1>2, SlotRange, SMT DEF IInv, TypeOK
  <2>2. q >= at[p]
    BY <1>1, <1>2 DEF IInv, WakeInv, ScanSeen
  <2> QED
    BY <2>1, <2>2, SMT
<1> QED
  BY <1>1, <1>2 DEF IInv, TypeOK, WakeInv, ScanSeen

\* wait_lock admits one process to the end of kexit(): if that one tells its
\* parent, ParentTold is kept.
LEMMA OneTells ==
  ASSUME IInv, NEW p \in Slots, pc[p] \in Holding, UNCHANGED parent,
         \A q \in Slots \ {p} : pc'[q] = pc[q],
         pc'[p] = "wake_parent" /\ Waiting(parent[p])' => at'[p] <= parent[p],
         pc'[p] = "zombie" => ~ Waiting(parent[p])'
  PROVE  ParentTold'
<1>1. ASSUME NEW q \in Slots, pc'[q] \in {"wake_parent", "zombie"}
      PROVE  q = p
  BY <1>1, SlotNames, SMT DEF IInv, LockInv, Holding
<1> QED
  BY <1>1 DEF ParentTold

\* wakeup(p->parent) begins before the parent's slot.
LEMMA TellBegins ==
  ASSUME IInv, NEW p \in Slots, reparent_wakeup(p), at[p] = NPROC,
         NEW l \in {"reparent", "wake_parent"}, pc' = [pc EXCEPT ![p] = l],
         NEW a, at' = [at EXCEPT ![p] = a], a = IF at[p] = NPROC THEN 1 ELSE at[p] + 1
  PROVE  ParentTold'
<1>1. pc[p] = "wake_init" /\ UNCHANGED parent
  BY DEF reparent_wakeup, WakeSlot, At
<1>2. at'[p] = 1 BY DEF IInv, TypeOK
<1>3. 1 <= parent[p]
  BY <1>1, ParentHere, SlotRange DEF Exiting
<1>4. pc'[p] # "zombie" BY DEF IInv, TypeOK
<1>5. \A q \in Slots \ {p} : pc'[q] = pc[q]
  BY DEF IInv, TypeOK
<1> QED
  BY <1>1, <1>2, <1>3, <1>4, <1>5, OneTells DEF Holding

\* A turn of wakeup(p->parent) leaves no waiting parent behind.
LEMMA TellGoesOn ==
  ASSUME IInv, NEW p \in Slots, kexit_wakeup(p),
         NEW a, at' = [at EXCEPT ![p] = a], a = IF at[p] = NPROC THEN 1 ELSE at[p] + 1
  PROVE  ParentTold'
<1>1. pc[p] = "wake_parent" /\ UNCHANGED parent /\ pc' = IF at[p] = NPROC THEN [pc EXCEPT ![p] = "zombie"] ELSE pc
  BY DEF kexit_wakeup, WakeSlot, At, Goto, Set
<1>2. at[p] \in Slots /\ parent[p] \in Slots
  BY <1>1, ParentHere DEF Exiting, IInv, TypeOK
<1>3. at[p] \in Int /\ parent[p] \in Int /\ parent[p] <= NPROC /\ NPROC \in Int
  BY <1>2, SlotRange, SMT
<1>4. \A q \in Slots \ {p} : pc'[q] = pc[q]
  BY <1>1 DEF IInv, TypeOK
<1>5. pc'[p] = "zombie" => ~ Waiting(parent[p])'
  BY <1>1, <1>3, ParentTurn, SMT
<1>6. pc'[p] = "wake_parent" /\ Waiting(parent[p])' => at'[p] <= parent[p]
  <2>1. pc'[p] = "wake_parent" => at[p] # NPROC
    BY <1>1 DEF IInv, TypeOK
  <2>2. at[p] # NPROC => at'[p] = at[p] + 1
    BY DEF IInv, TypeOK
  <2> QED
  BY <1>3, <2>1, <2>2, ParentTurn, SMT
<1> QED
  BY <1>1, <1>4, <1>5, <1>6, OneTells DEF Holding

\* freeproc() leaves a slot whose fields have their types.
LEMMA FreeTypes ==
  ASSUME TypeOK, NEW q \in Slots, freeproc(q)
  PROVE  /\ state' \in [Slots -> {"UNUSED", "USED", "SLEEPING", "RUNNABLE", "RUNNING", "ZOMBIE"}]
         /\ chan' \in [Slots -> Slots \cup {None}] /\ killed' \in [Slots -> BOOLEAN]
         /\ pid' \in [Slots -> 0 .. MaxPid] /\ parent' \in [Slots -> Slots \cup {None}]
<1>1. None \in 0 .. MaxPid
  BY SizeAssumption, SMT DEF None
<1> QED
  BY <1>1 DEF TypeOK, freeproc, Set


\* Every step keeps the types: np in kfork() and pp in reparent() are slots when
\* they are used, and no loop over proc[] leaves the table.
LEMMA TypeStep == IInv /\ [Next]_vars => TypeOK'
<1> SUFFICES ASSUME IInv, [Next]_vars PROVE TypeOK'
  OBVIOUS
<1> USE DEF Set, Goto, At, OnCPU, fields, locks, locals
<1>1. ASSUME NEW p \in Slots,
             \/ Dispatch(p) \/ yield(p) \/ sleep(p) \/ sleep_release(p) \/ sleep_sched(p)
      PROVE  TypeOK'
  BY <1>1, SMTT(30) DEF Dispatch, yield, sleep, sleep_release, sleep_sched, IInv, TypeOK
<1>2. ASSUME NEW p \in Slots, NEW q \in Slots, (\E n \in KillPids : kkill(p, n, q))
      PROVE  TypeOK'
  BY <1>2, SMTT(30) DEF kkill, IInv, TypeOK
<1>3. ASSUME NEW p \in Slots, NEW q \in Slots, kfork(p, q)
      PROVE  TypeOK'
  <2>1. nextpid \in 0 .. MaxPid /\ nextpid' \in 2 .. MaxPid + 1
    BY <1>3, SizeAssumption, SMT DEF kfork, IInv, TypeOK
  <2> QED
    BY <1>3, <2>1 DEF kfork, IInv, TypeOK
<1>4. ASSUME NEW p \in Slots, kfork_copied(p) \/ kfork_parent(p) \/ kfork_ready(p)
      PROVE  TypeOK'
  BY <1>4, SMTT(30) DEF kfork_copied, kfork_parent, kfork_ready, IInv, TypeOK, Forking
<1>5. ASSUME NEW p \in Slots, kfork_fail(p)
      PROVE  TypeOK'
  <2>1. child[p] \in Slots
    BY <1>5 DEF kfork_fail, IInv, LocalInv, Forking
  <2> QED
    BY <1>5, <2>1, FreeTypes DEF kfork_fail, IInv, TypeOK
<1>6. ASSUME NEW p \in Slots,
             \/ kexit(p) \/ kexit_acquire(p) \/ kexit_zombie(p) \/ kexit_sched(p)
      PROVE  TypeOK'
  BY <1>6, SlotNames, SMTT(30) DEF kexit, kexit_acquire, kexit_zombie, kexit_sched, IInv, TypeOK
<1>7. ASSUME NEW p \in Slots, reparent(p)
      PROVE  TypeOK'
  <2>1. CASE parent[child[p]] = p
    BY <1>7, <2>1, SlotNames, SMT DEF reparent, IInv, TypeOK, Forking
  <2>2. CASE parent[child[p]] # p
    <3>1. child[p] \in Slots /\ NextChild(p)
      BY <1>7, <2>2 DEF reparent, IInv, LocalInv
    <3>2. PICK c \in Slots \cup {None}, l \in {"reparent", "wake_parent"} :
         /\ child' = [child EXCEPT ![p] = c] /\ pc' = [pc EXCEPT ![p] = l]
         /\ l = "reparent" => c \in Slots /\ c = child[p] + 1
         /\ l = "wake_parent" => child[p] = NPROC
      BY <3>1, ChildTurn DEF IInv
    <3> QED
      BY <1>7, <2>2, <3>1, <3>2 DEF reparent, IInv, TypeOK
  <2> QED
    BY <2>1, <2>2
<1>8. ASSUME NEW p \in Slots, reparent_wakeup(p)
      PROVE  TypeOK'
  <2>1. WakeSlot(p, initproc)
    BY <1>8 DEF reparent_wakeup
  <2>2. PICK s, a :
           /\ state' = [state EXCEPT ![at[p]] = s]
           /\ s = state[at[p]] \/ (at[p] # p /\ state[at[p]] = "SLEEPING" /\ s = "RUNNABLE")
           /\ at[p] # p /\ chan[at[p]] = initproc => s # "SLEEPING"
           /\ at' = [at EXCEPT ![p] = a] /\ a \in Slots
           /\ a = IF at[p] = NPROC THEN 1 ELSE at[p] + 1
    BY <2>1, WakeTurn, SMT DEF IInv
  <2>3. CASE at[p] # NPROC
    BY <1>8, <2>2, <2>3, SMT DEF reparent_wakeup, WakeSlot, IInv, TypeOK
  <2>4. CASE at[p] = NPROC
    <3>1. child[p] \in Slots /\ NextChild(p)
      BY <1>8, <2>4 DEF reparent_wakeup, IInv, LocalInv
    <3>2. PICK c \in Slots \cup {None}, l \in {"reparent", "wake_parent"} :
         /\ child' = [child EXCEPT ![p] = c] /\ pc' = [pc EXCEPT ![p] = l]
         /\ l = "reparent" => c \in Slots /\ c = child[p] + 1
         /\ l = "wake_parent" => child[p] = NPROC
      BY <3>1, ChildTurn DEF IInv
    <3> QED
      BY <1>8, <2>2, <2>4, <3>1, <3>2, SMT DEF reparent_wakeup, WakeSlot, IInv, TypeOK
  <2> QED
    BY <2>3, <2>4
<1>9. ASSUME NEW p \in Slots, kexit_wakeup(p)
      PROVE  TypeOK'
  <2>1. WakeSlot(p, parent[p])
    BY <1>9 DEF kexit_wakeup
  <2>2. PICK s, a :
           /\ state' = [state EXCEPT ![at[p]] = s]
           /\ s = state[at[p]] \/ (at[p] # p /\ state[at[p]] = "SLEEPING" /\ s = "RUNNABLE")
           /\ at[p] # p /\ chan[at[p]] = parent[p] => s # "SLEEPING"
           /\ at' = [at EXCEPT ![p] = a] /\ a \in Slots
           /\ a = IF at[p] = NPROC THEN 1 ELSE at[p] + 1
    BY <2>1, WakeTurn, SMT DEF IInv
  <2>3. CASE at[p] # NPROC
    BY <1>9, <2>2, <2>3, SMT DEF kexit_wakeup, WakeSlot, IInv, TypeOK
  <2>4. CASE at[p] = NPROC
    BY <1>9, <2>2, <2>4, SMT DEF kexit_wakeup, WakeSlot, IInv, TypeOK
  <2> QED
    BY <2>3, <2>4
<1>10. ASSUME NEW p \in Slots, kwait(p)
      PROVE  TypeOK'
  BY <1>10, SMTT(30) DEF kwait, IInv, TypeOK
<1>11. ASSUME NEW p \in Slots, kwait_acquire(p)
      PROVE  TypeOK'
  BY <1>11, SMTT(30) DEF kwait_acquire, IInv, TypeOK
<1>12. ASSUME NEW p \in Slots, kwait_copyout_fail(p)
      PROVE  TypeOK'
  BY <1>12, SlotNames, SMTT(30) DEF kwait_copyout_fail, ReturnFromWait, IInv, TypeOK
<1>13. ASSUME NEW p \in Slots, kwait_scan(p)
      PROVE  TypeOK'
  <2>1. at[p] \in Slots /\ 1 \in Slots /\ (at[p] < NPROC => at[p] + 1 \in Slots)
    BY SlotRange, SlotNames, NextSlot, SMT DEF IInv, TypeOK
  <2> QED
    BY <1>13, <2>1 DEF kwait_scan, IInv, TypeOK
<1>14. ASSUME NEW p \in Slots, kwait_reap(p)
      PROVE  TypeOK'
  <2>1. at[p] \in Slots /\ 1 \in Slots
    BY SlotNames DEF IInv, TypeOK
  <2> QED
    BY <1>14, <2>1, FreeTypes DEF kwait_reap, ReturnFromWait, IInv, TypeOK
<1>15. ASSUME NEW p \in Slots, kwait_scanned(p)
      PROVE  TypeOK'
  <2>1. CASE ~havekids[p] \/ killed[p]
    BY <1>15, <2>1, SlotNames DEF kwait_scanned, ReturnFromWait, IInv, TypeOK
  <2>2. CASE ~ (~havekids[p] \/ killed[p])
    BY <1>15, <2>2 DEF kwait_scanned, IInv, TypeOK
  <2> QED
    BY <2>1, <2>2
<1>16. CASE UNCHANGED vars
  BY <1>16 DEF vars, IInv, TypeOK
<1> QED
  BY <1>1, <1>2, <1>3, <1>4, <1>5, <1>6, <1>7, <1>8, <1>9, <1>10, <1>11, <1>12, <1>13, <1>14,
     <1>15, <1>16 DEF Next, Kernel

\* Every step keeps wait_lock and each p->lock with whoever is in the code between
\* their acquire() and release().
LEMMA LockStep == IInv /\ [Next]_vars => LockInv'
<1> SUFFICES ASSUME IInv, [Next]_vars PROVE LockInv'
  OBVIOUS
<1> USE DEF Set, Goto, At, OnCPU, fields, locks, locals
<1>1. ASSUME NEW p \in Slots,
             \/ Dispatch(p) \/ yield(p) \/ sleep(p) \/ sleep_release(p) \/ sleep_sched(p)
      PROVE  LockInv'
  <2>1. CASE Dispatch(p)
    BY <2>1, SMT DEF Dispatch, IInv, LockInv
  <2>2. CASE yield(p)
    BY <2>2, SMT DEF yield, IInv, LockInv
  <2>3. CASE sleep(p)
    BY <2>3, SlotNames, SMT DEF sleep, IInv, TypeOK, LockInv, Holding, Switching
  <2>4. CASE sleep_release(p)
    BY <2>4, SlotNames, SMT DEF sleep_release, IInv, TypeOK, LockInv, Holding, Switching
  <2>5. CASE sleep_sched(p)
    BY <2>5, SlotNames, SMT DEF sleep_sched, IInv, TypeOK, LockInv, Holding, Switching
  <2> QED
    BY <1>1, <2>1, <2>2, <2>3, <2>4, <2>5
<1>2. ASSUME NEW p \in Slots, NEW q \in Slots, kfork(p, q) \/ (\E n \in KillPids : kkill(p, n, q))
      PROVE  LockInv'
  BY <1>2, SlotNames, SMTT(30) DEF kfork, kkill, IInv, TypeOK, LockInv, Holding, Switching
<1>3. ASSUME NEW p \in Slots,
             \/ kfork_fail(p) \/ kfork_copied(p) \/ kfork_parent(p) \/ kfork_ready(p)
      PROVE  LockInv'
  <2>1. CASE kfork_fail(p)
    BY <2>1, SMT DEF kfork_fail, IInv, TypeOK, LockInv, LocalInv, Holding, Switching, Forking
  <2>2. CASE kfork_copied(p)
    BY <2>2, SMT DEF kfork_copied, IInv, TypeOK, LockInv, LocalInv, Holding, Switching, Forking
  <2>3. CASE kfork_parent(p)
    BY <2>3, SMT DEF kfork_parent, IInv, LockInv, Holding, Switching
  <2>4. CASE kfork_ready(p)
    BY <2>4, SMT DEF kfork_ready, IInv, TypeOK, LockInv, StateInv, LocalInv, Holding, Switching,
       Forking
  <2> QED
    BY <1>3, <2>1, <2>2, <2>3, <2>4
<1>4. ASSUME NEW p \in Slots, kexit(p) \/ kexit_acquire(p)
      PROVE  LockInv'
  BY <1>4, SlotNames, SMTT(30) DEF kexit, kexit_acquire, IInv, TypeOK, LockInv, Holding,
     Switching, Forking
<1>5. ASSUME NEW p \in Slots, kexit_zombie(p) \/ kexit_sched(p)
      PROVE  LockInv'
  <2>1. CASE kexit_zombie(p)
    BY <2>1, SlotNames, SMT DEF kexit_zombie, IInv, TypeOK, LockInv, Holding, Switching
  <2>2. CASE kexit_sched(p)
    BY <2>2, SlotNames, SMT DEF kexit_sched, IInv, TypeOK, LockInv, Holding, Switching
  <2> QED
    BY <1>5, <2>1, <2>2
<1>6. ASSUME NEW p \in Slots, reparent(p)
      PROVE  LockInv'
  BY <1>6, SMTT(30) DEF reparent, NextChild, IInv, TypeOK, LockInv, Holding, Switching
<1>7. ASSUME NEW p \in Slots, reparent_wakeup(p)
      PROVE  LockInv'
  BY <1>7, SlotRange, SMTT(30) DEF reparent_wakeup, WakeSlot, NextChild, IInv, TypeOK, LockInv,
     LocalInv, Holding, Switching, Forking
<1>8. ASSUME NEW p \in Slots, kexit_wakeup(p)
      PROVE  LockInv'
  BY <1>8, SMTT(30) DEF kexit_wakeup, WakeSlot, IInv, TypeOK, LockInv, Holding, Switching
<1>9. ASSUME NEW p \in Slots,
             \/ kwait(p) \/ kwait_acquire(p) \/ kwait_scan(p) \/ kwait_reap(p)
             \/ kwait_copyout_fail(p) \/ kwait_scanned(p)
      PROVE  LockInv'
  <2>1. CASE kwait(p)
    BY <2>1, SMT DEF kwait, IInv, LockInv, Holding, Switching
  <2>2. CASE kwait_acquire(p)
    BY <2>2, SlotNames, SMT DEF kwait_acquire, IInv, TypeOK, LockInv, Holding, Switching
  <2>3. CASE kwait_scan(p)
    BY <2>3, SMT DEF kwait_scan, IInv, TypeOK, LockInv, Holding, Switching
  <2>4. CASE kwait_reap(p)
    BY <2>4, SlotNames, SMT DEF kwait_reap, ReturnFromWait, IInv, TypeOK, LockInv, Holding, Switching
  <2>5. CASE kwait_copyout_fail(p)
    BY <2>5, SlotNames, SMT DEF kwait_copyout_fail, ReturnFromWait, IInv, TypeOK, LockInv, Holding,
       Switching
  <2>6. CASE kwait_scanned(p)
    BY <2>6, SlotRange, SlotNames, SMT DEF kwait_scanned, ReturnFromWait, IInv, TypeOK, LockInv,
       Holding, Switching
  <2> QED
    BY <1>9, <2>1, <2>2, <2>3, <2>4, <2>5, <2>6
<1>10. CASE UNCHANGED vars
  BY <1>10 DEF vars, IInv, LockInv
<1> QED
  BY <1>1, <1>2, <1>3, <1>4, <1>5, <1>6, <1>7, <1>8, <1>9, <1>10 DEF Next, Kernel

\* Every step keeps p->state in agreement with where p is.
LEMMA StateStep == IInv /\ [Next]_vars => StateInv'
<1> SUFFICES ASSUME IInv, [Next]_vars PROVE StateInv'
  OBVIOUS
<1> USE DEF Set, Goto, At, OnCPU, fields, locks, locals
<1>1. ASSUME NEW p \in Slots,
             \/ Dispatch(p) \/ yield(p) \/ sleep(p) \/ sleep_release(p) \/ sleep_sched(p)
      PROVE  StateInv'
  BY <1>1, SMTT(30) DEF Dispatch, yield, sleep, sleep_release, sleep_sched, IInv, TypeOK,
     StateInv
<1>2. ASSUME NEW p \in Slots, NEW q \in Slots, kfork(p, q) \/ (\E n \in KillPids : kkill(p, n, q))
      PROVE  StateInv'
  BY <1>2, SMTT(30) DEF kfork, kkill, IInv, TypeOK, LockInv, StateInv, Switching
<1>3. ASSUME NEW p \in Slots,
             \/ kfork_fail(p) \/ kfork_copied(p) \/ kfork_parent(p) \/ kfork_ready(p)
      PROVE  StateInv'
  BY <1>3, SMTT(30) DEF kfork_fail, freeproc, kfork_copied, kfork_parent, kfork_ready, IInv,
     TypeOK, StateInv, LocalInv, Forking
<1>4. ASSUME NEW p \in Slots,
             \/ kexit(p) \/ kexit_acquire(p) \/ kexit_zombie(p) \/ kexit_sched(p)
      PROVE  StateInv'
  BY <1>4, SMTT(30) DEF kexit, kexit_acquire, kexit_zombie, kexit_sched, IInv, TypeOK, LockInv,
     StateInv, Switching
<1>5. ASSUME NEW p \in Slots, reparent(p)
      PROVE  StateInv'
  BY <1>5, SMTT(30) DEF reparent, NextChild, IInv, TypeOK, StateInv
<1>6. ASSUME NEW p \in Slots, reparent_wakeup(p)
      PROVE  StateInv'
  BY <1>6, SMTT(30) DEF reparent_wakeup, WakeSlot, NextChild, IInv, TypeOK, StateInv
<1>7. ASSUME NEW p \in Slots, kexit_wakeup(p)
      PROVE  StateInv'
  BY <1>7, SMTT(30) DEF kexit_wakeup, WakeSlot, IInv, TypeOK, StateInv
<1>8. ASSUME NEW p \in Slots,
             \/ kwait(p) \/ kwait_acquire(p) \/ kwait_scan(p) \/ kwait_reap(p)
             \/ kwait_copyout_fail(p) \/ kwait_scanned(p)
      PROVE  StateInv'
  BY <1>8, SlotNames, SMTT(30) DEF kwait, kwait_acquire, kwait_scan, kwait_reap, freeproc,
     ReturnFromWait, kwait_copyout_fail, kwait_scanned, IInv, TypeOK, LockInv, StateInv,
     Switching
<1>9. CASE UNCHANGED vars
  BY <1>9 DEF vars, IInv, StateInv
<1> QED
  BY <1>1, <1>2, <1>3, <1>4, <1>5, <1>6, <1>7, <1>8, <1>9 DEF Next, Kernel

\* Every step keeps the locals of kfork(), reparent() and the loops sound: no two
\* callers of kfork() share a slot, and init does not exit.
LEMMA LocalStep == IInv /\ [Next]_vars => LocalInv'
<1> SUFFICES ASSUME IInv, [Next]_vars PROVE LocalInv'
  OBVIOUS
<1> USE DEF Set, Goto, At, OnCPU, fields, locks, locals
<1>1. ASSUME NEW p \in Slots,
             \/ Dispatch(p) \/ yield(p) \/ sleep(p) \/ sleep_release(p) \/ sleep_sched(p)
      PROVE  LocalInv'
  BY <1>1, SMTT(30) DEF Dispatch, yield, sleep, sleep_release, sleep_sched, IInv, TypeOK,
     StateInv, LocalInv, Forking, Exiting, Looping
<1>2. ASSUME NEW p \in Slots, NEW q \in Slots, kfork(p, q) \/ (\E n \in KillPids : kkill(p, n, q))
      PROVE  LocalInv'
  BY <1>2, SMTT(30) DEF kfork, kkill, IInv, TypeOK, LocalInv, Exiting, Looping
<1>3. ASSUME NEW p \in Slots,
             \/ kfork_fail(p) \/ kfork_copied(p) \/ kfork_parent(p) \/ kfork_ready(p)
      PROVE  LocalInv'
  BY <1>3, SMTT(30) DEF kfork_fail, freeproc, kfork_copied, kfork_parent, kfork_ready, IInv,
     TypeOK, LockInv, StateInv, LocalInv, Forking, Exiting, Looping
<1>4. ASSUME NEW p \in Slots,
             \/ kexit(p) \/ kexit_acquire(p) \/ kexit_zombie(p) \/ kexit_sched(p)
      PROVE  LocalInv'
  BY <1>4, SlotNames, SMTT(30) DEF kexit, kexit_acquire, kexit_zombie, kexit_sched, IInv,
     TypeOK, LocalInv, Forking, Exiting, Looping
<1>5. ASSUME NEW p \in Slots, reparent(p)
      PROVE  LocalInv'
  <2>1. CASE parent[child[p]] = p
    BY <1>5, <2>1, SMT DEF reparent, IInv, TypeOK, LocalInv, Forking, Exiting, Looping
  <2>2. CASE parent[child[p]] # p
    <3>1. child[p] \in Slots /\ NextChild(p)
      BY <1>5, <2>2 DEF reparent, IInv, LocalInv
    <3>2. PICK c \in Slots \cup {None}, l \in {"reparent", "wake_parent"} :
         /\ child' = [child EXCEPT ![p] = c] /\ pc' = [pc EXCEPT ![p] = l]
         /\ l = "reparent" => c \in Slots /\ c = child[p] + 1
         /\ l = "wake_parent" => child[p] = NPROC
      BY <3>1, ChildTurn DEF IInv
    <3> QED
      BY <1>5, <2>2, <3>1, <3>2, SMT DEF reparent, IInv, TypeOK, LocalInv, Forking, Exiting, Looping
  <2> QED
    BY <2>1, <2>2
<1>6. ASSUME NEW p \in Slots, reparent_wakeup(p)
      PROVE  LocalInv'
  <2>1. WakeSlot(p, initproc)
    BY <1>6 DEF reparent_wakeup
  <2>2. PICK s, a :
           /\ state' = [state EXCEPT ![at[p]] = s]
           /\ s = state[at[p]] \/ (at[p] # p /\ state[at[p]] = "SLEEPING" /\ s = "RUNNABLE")
           /\ at[p] # p /\ chan[at[p]] = initproc => s # "SLEEPING"
           /\ at' = [at EXCEPT ![p] = a] /\ a \in Slots
           /\ a = IF at[p] = NPROC THEN 1 ELSE at[p] + 1
    BY <2>1, WakeTurn, SMT DEF IInv
  <2>3. CASE at[p] # NPROC
    BY <1>6, <2>2, <2>3, SMT DEF reparent_wakeup, IInv, LocalInv, Looping
  <2>4. CASE at[p] = NPROC
    <3>1. child[p] \in Slots /\ NextChild(p)
      BY <1>6, <2>4 DEF reparent_wakeup, IInv, LocalInv
    <3>2. PICK c \in Slots \cup {None}, l \in {"reparent", "wake_parent"} :
         /\ child' = [child EXCEPT ![p] = c] /\ pc' = [pc EXCEPT ![p] = l]
         /\ l = "reparent" => c \in Slots /\ c = child[p] + 1
         /\ l = "wake_parent" => child[p] = NPROC
      BY <3>1, ChildTurn DEF IInv
    <3> QED
      BY <1>6, <2>2, <2>4, <3>1, <3>2, SMT DEF reparent_wakeup, IInv, TypeOK, LocalInv, Forking,
         Exiting
  <2> QED
    BY <2>3, <2>4
<1>7. ASSUME NEW p \in Slots, kexit_wakeup(p)
      PROVE  LocalInv'
  <2>1. WakeSlot(p, parent[p])
    BY <1>7 DEF kexit_wakeup
  <2>2. PICK s, a :
           /\ state' = [state EXCEPT ![at[p]] = s]
           /\ s = state[at[p]] \/ (at[p] # p /\ state[at[p]] = "SLEEPING" /\ s = "RUNNABLE")
           /\ at[p] # p /\ chan[at[p]] = parent[p] => s # "SLEEPING"
           /\ at' = [at EXCEPT ![p] = a] /\ a \in Slots
           /\ a = IF at[p] = NPROC THEN 1 ELSE at[p] + 1
    BY <2>1, WakeTurn, SMT DEF IInv
  <2>3. CASE at[p] # NPROC
    BY <1>7, <2>2, <2>3, SMT DEF kexit_wakeup, IInv, LocalInv, Looping
  <2>4. CASE at[p] = NPROC
    BY <1>7, <2>2, <2>4, SMT DEF kexit_wakeup, IInv, TypeOK, LocalInv, Forking, Exiting
  <2> QED
    BY <2>3, <2>4
<1>8. ASSUME NEW p \in Slots,
             \/ kwait(p) \/ kwait_acquire(p) \/ kwait_scan(p) \/ kwait_reap(p)
             \/ kwait_copyout_fail(p) \/ kwait_scanned(p)
      PROVE  LocalInv'
  BY <1>8, SMTT(30) DEF kwait, kwait_acquire, kwait_scan, kwait_reap, freeproc, ReturnFromWait,
     kwait_copyout_fail, kwait_scanned, IInv, TypeOK, LocalInv, Forking, Exiting, Looping
<1>9. CASE UNCHANGED vars
  BY <1>9 DEF vars, IInv, LocalInv
<1> QED
  BY <1>1, <1>2, <1>3, <1>4, <1>5, <1>6, <1>7, <1>8, <1>9 DEF Next, Kernel

\* Every step keeps each process with a living parent, and each exiting process
\* without the children reparent() has passed.
LEMMA FamilyStep == IInv /\ [Next]_vars => FamilyInv'
<1> SUFFICES ASSUME IInv, [Next]_vars PROVE FamilyInv'
  OBVIOUS
<1> USE DEF Set, Goto, At, OnCPU, fields, locks, locals
<1>1. ASSUME NEW p \in Slots,
             \/ Dispatch(p) \/ yield(p) \/ sleep(p) \/ sleep_release(p) \/ sleep_sched(p)
      PROVE  FamilyInv'
  BY <1>1, SMTT(30) DEF Dispatch, yield, sleep, sleep_release, sleep_sched, IInv, TypeOK,
     StateInv, FamilyInv, NewSlots, ParentLives, ChildrenPassed, Living
<1>2. ASSUME NEW p \in Slots, NEW q \in Slots, kfork(p, q)
      PROVE  FamilyInv'
  BY <1>2, SMTT(30) DEF kfork, IInv, TypeOK, FamilyInv, NewSlots, ParentLives, ChildrenPassed,
     Living
<1>3. ASSUME NEW p \in Slots, NEW q \in Slots, (\E n \in KillPids : kkill(p, n, q))
      PROVE  FamilyInv'
  BY <1>3, SMTT(30) DEF kkill, IInv, FamilyInv, NewSlots, ParentLives, ChildrenPassed, Living
<1>4. ASSUME NEW p \in Slots, kfork_fail(p)
      PROVE  FamilyInv'
  BY <1>4, SMTT(30) DEF kfork_fail, freeproc, IInv, TypeOK, LocalInv, FamilyInv, NewSlots,
     ParentLives, ChildrenPassed, Forking, Living
<1>5. ASSUME NEW p \in Slots, kfork_copied(p) \/ kfork_parent(p) \/ kfork_ready(p)
      PROVE  FamilyInv'
  <2>1. CASE kfork_copied(p)
    BY <2>1, SMT DEF kfork_copied, IInv, FamilyInv, NewSlots, ParentLives, ChildrenPassed
  <2>2. CASE kfork_parent(p)
    BY <2>2, SlotNames, SMT DEF kfork_parent, IInv, TypeOK, LocalInv, FamilyInv, NewSlots,
       ParentLives, ChildrenPassed, Forking
  <2>3. CASE kfork_ready(p)
    BY <2>3, SMT DEF kfork_ready, IInv, TypeOK, StateInv, FamilyInv, NewSlots, ParentLives,
       ChildrenPassed, Living
  <2> QED
    BY <1>5, <2>1, <2>2, <2>3
<1>6. ASSUME NEW p \in Slots,
             \/ kexit(p) \/ kexit_acquire(p) \/ kexit_zombie(p) \/ kexit_sched(p)
      PROVE  FamilyInv'
  BY <1>6, SlotRange, SMTT(30) DEF kexit, kexit_acquire, kexit_zombie, kexit_sched, IInv,
     TypeOK, StateInv, FamilyInv, NewSlots, ParentLives, ChildrenPassed, Living
<1>7. ASSUME NEW p \in Slots, reparent(p)
      PROVE  FamilyInv'
  <2>1. CASE parent[child[p]] = p
    <3>a. NewSlots'
      BY <1>7, <2>1, SlotNames, SMT DEF reparent, IInv, TypeOK, LocalInv, FamilyInv, Forking,
         NewSlots
    <3>b. ParentLives'
      BY <1>7, <2>1, InitLives, SlotNames, SMT DEF reparent, IInv, TypeOK, FamilyInv, ParentLives
    <3>c. ChildrenPassed'
      BY <1>7, <2>1, HandedOver
    <3> QED
      BY <3>a, <3>b, <3>c DEF FamilyInv
  <2>2. CASE parent[child[p]] # p
    <3>1. child[p] \in Slots /\ NextChild(p)
      BY <1>7, <2>2 DEF reparent, IInv, LocalInv
    <3>2. PICK c \in Slots \cup {None}, l \in {"reparent", "wake_parent"} :
         /\ child' = [child EXCEPT ![p] = c] /\ pc' = [pc EXCEPT ![p] = l]
         /\ l = "reparent" => c \in Slots /\ c = child[p] + 1
         /\ l = "wake_parent" => child[p] = NPROC
      BY <3>1, ChildTurn DEF IInv
    <3>a. NewSlots'
      BY <1>7, <2>2, <3>1, <3>2, SMT DEF reparent, IInv, FamilyInv, NewSlots
    <3>b. ParentLives'
      BY <1>7, <2>2, <3>1, <3>2 DEF reparent, IInv, FamilyInv, ParentLives
    <3>c. ChildrenPassed'
      BY <1>7, <2>2, <3>1, <3>2, ChildPassed DEF reparent
    <3> QED
      BY <3>a, <3>b, <3>c DEF FamilyInv
  <2> QED
    BY <2>1, <2>2
<1>8. ASSUME NEW p \in Slots, reparent_wakeup(p)
      PROVE  FamilyInv'
  <2>1. WakeSlot(p, initproc)
    BY <1>8 DEF reparent_wakeup
  <2>2. PICK s, a :
           /\ state' = [state EXCEPT ![at[p]] = s]
           /\ s = state[at[p]] \/ (at[p] # p /\ state[at[p]] = "SLEEPING" /\ s = "RUNNABLE")
           /\ at[p] # p /\ chan[at[p]] = initproc => s # "SLEEPING"
           /\ at' = [at EXCEPT ![p] = a] /\ a \in Slots
           /\ a = IF at[p] = NPROC THEN 1 ELSE at[p] + 1
    BY <2>1, WakeTurn, SMT DEF IInv
  <2>3. CASE at[p] # NPROC
    BY <1>8, <2>2, <2>3, SMT DEF reparent_wakeup, WakeSlot, IInv, FamilyInv, NewSlots, ParentLives,
       ChildrenPassed, Living
  <2>4. CASE at[p] = NPROC
    <3>1. child[p] \in Slots /\ NextChild(p)
      BY <1>8, <2>4 DEF reparent_wakeup, IInv, LocalInv
    <3>2. PICK c \in Slots \cup {None}, l \in {"reparent", "wake_parent"} :
         /\ child' = [child EXCEPT ![p] = c] /\ pc' = [pc EXCEPT ![p] = l]
         /\ l = "reparent" => c \in Slots /\ c = child[p] + 1
         /\ l = "wake_parent" => child[p] = NPROC
      BY <3>1, ChildTurn DEF IInv
    <3>a. NewSlots'
      BY <1>8, <2>2, <2>4, <3>1, <3>2, SMT DEF reparent_wakeup, WakeSlot, IInv, FamilyInv, NewSlots
    <3>b. ParentLives'
      BY <1>8, <2>2, <2>4, <3>1, <3>2, SMT DEF reparent_wakeup, WakeSlot, IInv, FamilyInv, Living,
         ParentLives
    <3>3. parent[child[p]] # p
      BY <1>8, <3>1, SlotRange, SMT DEF reparent_wakeup, IInv, FamilyInv, ChildrenPassed
    <3>c. ChildrenPassed'
      BY <1>8, <3>1, <3>2, <3>3, ChildPassed DEF reparent_wakeup, WakeSlot
    <3> QED
      BY <3>a, <3>b, <3>c DEF FamilyInv
  <2> QED
    BY <2>3, <2>4
<1>9. ASSUME NEW p \in Slots, kexit_wakeup(p)
      PROVE  FamilyInv'
  <2>1. WakeSlot(p, parent[p])
    BY <1>9 DEF kexit_wakeup
  <2>2. PICK s, a :
           /\ state' = [state EXCEPT ![at[p]] = s]
           /\ s = state[at[p]] \/ (at[p] # p /\ state[at[p]] = "SLEEPING" /\ s = "RUNNABLE")
           /\ at[p] # p /\ chan[at[p]] = parent[p] => s # "SLEEPING"
           /\ at' = [at EXCEPT ![p] = a] /\ a \in Slots
           /\ a = IF at[p] = NPROC THEN 1 ELSE at[p] + 1
    BY <2>1, WakeTurn, SMT DEF IInv
  <2>3. CASE at[p] # NPROC
    BY <1>9, <2>2, <2>3, SMT DEF kexit_wakeup, WakeSlot, IInv, FamilyInv, NewSlots, ParentLives,
       ChildrenPassed, Living
  <2>4. CASE at[p] = NPROC
    BY <1>9, <2>2, <2>4, SMT DEF kexit_wakeup, WakeSlot, IInv, TypeOK, FamilyInv, NewSlots,
       ParentLives, ChildrenPassed, Living
  <2> QED
    BY <2>3, <2>4
<1>10. ASSUME NEW p \in Slots,
             \/ kwait(p) \/ kwait_acquire(p) \/ kwait_scan(p) \/ kwait_copyout_fail(p)
             \/ kwait_scanned(p)
      PROVE  FamilyInv'
  BY <1>10, SMTT(30) DEF kwait, kwait_acquire, kwait_scan, kwait_copyout_fail, ReturnFromWait,
     kwait_scanned, IInv, TypeOK, FamilyInv, NewSlots, ParentLives, ChildrenPassed
<1>11. ASSUME NEW p \in Slots, kwait_reap(p)
      PROVE  FamilyInv'
  BY <1>11, SlotNames, SMTT(30) DEF kwait_reap, freeproc, ReturnFromWait, IInv, TypeOK,
     FamilyInv, NewSlots, ParentLives, ChildrenPassed, Living
<1>12. CASE UNCHANGED vars
  BY <1>12 DEF vars, IInv, FamilyInv, NewSlots, ParentLives, ChildrenPassed
<1> QED
  BY <1>1, <1>2, <1>3, <1>4, <1>5, <1>6, <1>7, <1>8, <1>9, <1>10, <1>11, <1>12 DEF Next, Kernel

\* Every step keeps each sleeper in wait() with a child to wait for and without a
\* zombie that nobody is about to tell it of.
LEMMA WakeStep == IInv /\ [Next]_vars => WakeInv'
<1> SUFFICES ASSUME IInv, [Next]_vars PROVE WakeInv'
  OBVIOUS
<1> USE DEF Set, Goto, At, OnCPU, fields, locks, locals
<1>1. ASSUME NEW p \in Slots,
             \/ Dispatch(p) \/ yield(p) \/ sleep(p) \/ sleep_release(p) \/ sleep_sched(p)
      PROVE  WakeInv'
  BY <1>1, SlotRange, SlotNames, SMTT(30) DEF Dispatch, yield, sleep, sleep_release,
     sleep_sched, IInv, TypeOK, StateInv, LocalInv, FamilyInv, ParentLives, ChildrenPassed,
     WakeInv, HasChild, ZombieTold, ParentTold, ScanSeen, Waiting, Holding, Switching, Forking,
     Exiting, Living
<1>2. ASSUME NEW p \in Slots, NEW q \in Slots, kfork(p, q)
      PROVE  WakeInv'
  BY <1>2, SMTT(30) DEF kfork, IInv, WakeInv, HasChild, ZombieTold, ParentTold, ScanSeen,
     Waiting
<1>3. ASSUME NEW p \in Slots, NEW q \in Slots, (\E n \in KillPids : kkill(p, n, q))
      PROVE  WakeInv'
  BY <1>3, SMTT(30) DEF kkill, IInv, WakeInv, HasChild, ZombieTold, ParentTold, ScanSeen,
     Waiting
<1>4. ASSUME NEW p \in Slots, kfork_fail(p) \/ kfork_copied(p) \/ kfork_parent(p)
      PROVE  WakeInv'
  <2>1. CASE kfork_fail(p)
    <3>a. HasChild'
      BY <2>1, SMT DEF kfork_fail, freeproc, IInv, FamilyInv, NewSlots, WakeInv, HasChild, Waiting
    <3>b. ZombieTold'
      BY <2>1, SlotNames, SMT DEF kfork_fail, freeproc, IInv, WakeInv, ZombieTold, Waiting
    <3>c. ParentTold'
      BY <2>1, SMT DEF kfork_fail, freeproc, IInv, FamilyInv, NewSlots, WakeInv, ParentTold, Waiting
    <3>d. ScanSeen'
      BY <2>1, SlotNames, SMT DEF kfork_fail, freeproc, IInv, WakeInv, ScanSeen
    <3> QED
      BY <3>a, <3>b, <3>c, <3>d DEF WakeInv
  <2>2. CASE kfork_copied(p)
    <3>a. HasChild'
      BY <2>2, SMT DEF kfork_copied, IInv, WakeInv, HasChild, Waiting
    <3>b. ZombieTold'
      BY <2>2, SMT DEF kfork_copied, IInv, WakeInv, ZombieTold, Waiting
    <3>c. ParentTold'
      BY <2>2, SMT DEF kfork_copied, IInv, WakeInv, ParentTold, Waiting
    <3>d. ScanSeen'
      BY <2>2, SMT DEF kfork_copied, IInv, WakeInv, ScanSeen
    <3> QED
      BY <3>a, <3>b, <3>c, <3>d DEF WakeInv
  <2>3. CASE kfork_parent(p)
    <3>a. HasChild'
      BY <2>3, SlotNames, SMT DEF kfork_parent, IInv, FamilyInv, NewSlots, WakeInv, HasChild, Waiting
    <3>b. ZombieTold'
      BY <2>3, SMT DEF kfork_parent, IInv, StateInv, WakeInv, ZombieTold, Waiting
    <3>c. ParentTold'
      BY <2>3, SMT DEF kfork_parent, IInv, StateInv, WakeInv, ParentTold, Waiting
    <3>d. ScanSeen'
      BY <2>3, SMT DEF kfork_parent, IInv, WakeInv, ScanSeen
    <3> QED
      BY <3>a, <3>b, <3>c, <3>d DEF WakeInv
  <2> QED
    BY <1>4, <2>1, <2>2, <2>3
<1>5. ASSUME NEW p \in Slots, kfork_ready(p)
      PROVE  WakeInv'
  <2>a. HasChild'
    BY <1>5 DEF kfork_ready, IInv, TypeOK, WakeInv, Waiting, HasChild
  <2>b. ZombieTold'
    BY <1>5, SMT DEF kfork_ready, IInv, TypeOK, StateInv, LocalInv, Forking, WakeInv, Waiting,
       ZombieTold
  <2>c. ParentTold'
    BY <1>5, SMT DEF kfork_ready, IInv, TypeOK, StateInv, LocalInv, FamilyInv, Forking, Exiting,
       Living, ParentLives, WakeInv, Waiting, ParentTold
  <2>d. ScanSeen'
    BY <1>5 DEF kfork_ready, IInv, TypeOK, WakeInv, ScanSeen
  <2> QED
    BY <2>a, <2>b, <2>c, <2>d DEF WakeInv
<1>6. ASSUME NEW p \in Slots,
             \/ kexit(p) \/ kexit_acquire(p) \/ kexit_zombie(p) \/ kexit_sched(p)
      PROVE  WakeInv'
  <2>1. CASE kexit(p)
    <3>a. HasChild'
      BY <2>1, SMT DEF kexit, IInv, WakeInv, HasChild, Waiting
    <3>b. ZombieTold'
      BY <2>1, SMT DEF kexit, IInv, WakeInv, ZombieTold, Waiting
    <3>c. ParentTold'
      BY <2>1, SMT DEF kexit, IInv, WakeInv, ParentTold, Waiting
    <3>d. ScanSeen'
      BY <2>1, SMT DEF kexit, IInv, WakeInv, ScanSeen
    <3> QED
      BY <3>a, <3>b, <3>c, <3>d DEF WakeInv
  <2>2. CASE kexit_acquire(p)
    <3>a. HasChild'
      BY <2>2, SMT DEF kexit_acquire, IInv, WakeInv, HasChild, Waiting
    <3>b. ZombieTold'
      BY <2>2, SMT DEF kexit_acquire, IInv, WakeInv, ZombieTold, Waiting
    <3>c. ParentTold'
      BY <2>2, SMT DEF kexit_acquire, IInv, WakeInv, ParentTold, Waiting
    <3>d. ScanSeen'
      BY <2>2, SMT DEF kexit_acquire, IInv, WakeInv, ScanSeen
    <3> QED
      BY <3>a, <3>b, <3>c, <3>d DEF WakeInv
  <2>3. CASE kexit_zombie(p)
    <3>a. HasChild'
      BY <2>3, SMT DEF kexit_zombie, IInv, WakeInv, HasChild, Waiting
    <3>b. ZombieTold'
      BY <2>3, SMT DEF kexit_zombie, IInv, WakeInv, ZombieTold, ParentTold, Waiting
    <3>c. ParentTold'
      BY <2>3, SMT DEF kexit_zombie, IInv, WakeInv, ParentTold, Waiting
    <3>d. ScanSeen'
      BY <2>3, SMT DEF kexit_zombie, IInv, LockInv, ScanSeen, Holding
    <3> QED
      BY <3>a, <3>b, <3>c, <3>d DEF WakeInv
  <2>4. CASE kexit_sched(p)
    <3>a. HasChild'
      BY <2>4, SMT DEF kexit_sched, IInv, WakeInv, HasChild, Waiting
    <3>b. ZombieTold'
      BY <2>4, SMT DEF kexit_sched, IInv, WakeInv, ZombieTold, Waiting
    <3>c. ParentTold'
      BY <2>4, SMT DEF kexit_sched, IInv, WakeInv, ParentTold, Waiting
    <3>d. ScanSeen'
      BY <2>4, SMT DEF kexit_sched, IInv, WakeInv, ScanSeen
    <3> QED
      BY <3>a, <3>b, <3>c, <3>d DEF WakeInv
  <2> QED
    BY <1>6, <2>1, <2>2, <2>3, <2>4
<1>7. ASSUME NEW p \in Slots, reparent(p)
      PROVE  WakeInv'
  <2>1. CASE parent[child[p]] = p
    <3>a. HasChild'
      BY <1>7, <2>1, SMT DEF reparent, IInv, TypeOK, StateInv, WakeInv, Waiting, HasChild
    <3>b. ZombieTold'
      BY <1>7, <2>1, SMT DEF reparent, IInv, TypeOK, LocalInv, Switching, Looping, WakeInv, Waiting,
         ZombieTold, initproc
    <3>c. ParentTold'
      BY <1>7, <2>1, SMT DEF reparent, IInv, TypeOK, LockInv, Holding, ParentTold
    <3>d. ScanSeen'
      BY <1>7, <2>1, SMT DEF reparent, IInv, TypeOK, LockInv, Holding, Exiting, ChildrenPassed,
         ScanSeen
    <3> QED
      BY <3>a, <3>b, <3>c, <3>d DEF WakeInv
  <2>2. CASE parent[child[p]] # p
    <3>1. child[p] \in Slots /\ NextChild(p)
      BY <1>7, <2>2 DEF reparent, IInv, LocalInv
    <3>2. PICK c \in Slots \cup {None}, l \in {"reparent", "wake_parent"} :
         /\ child' = [child EXCEPT ![p] = c] /\ pc' = [pc EXCEPT ![p] = l]
         /\ l = "reparent" => c \in Slots /\ c = child[p] + 1
         /\ l = "wake_parent" => child[p] = NPROC
      BY <3>1, ChildTurn DEF IInv
    <3>a. HasChild'
      BY <1>7, <2>2, <3>1, <3>2, SMT DEF reparent, IInv, WakeInv, Waiting, HasChild
    <3>b. ZombieTold'
      BY <1>7, <2>2, <3>1, <3>2, SMT DEF reparent, IInv, WakeInv, Waiting, ZombieTold
    <3>c. ParentTold'
      BY <1>7, <2>2, <3>1, <3>2, SlotRange, SlotNames, SMT DEF reparent, IInv, TypeOK, LockInv,
         StateInv, LocalInv, FamilyInv, Holding, Exiting, Looping, Living, ParentLives,
         Waiting, ParentTold
    <3>d. ScanSeen'
      BY <1>7, <2>2, <3>1, <3>2, SMT DEF reparent, IInv, LockInv, Holding, ScanSeen
    <3> QED
      BY <3>a, <3>b, <3>c, <3>d DEF WakeInv
  <2> QED
    BY <2>1, <2>2
<1>8. ASSUME NEW p \in Slots, reparent_wakeup(p)
      PROVE  WakeInv'
  <2>1. WakeSlot(p, initproc)
    BY <1>8 DEF reparent_wakeup
  <2>2. PICK s, a :
           /\ state' = [state EXCEPT ![at[p]] = s]
           /\ s = state[at[p]] \/ (at[p] # p /\ state[at[p]] = "SLEEPING" /\ s = "RUNNABLE")
           /\ at[p] # p /\ chan[at[p]] = initproc => s # "SLEEPING"
           /\ at' = [at EXCEPT ![p] = a] /\ a \in Slots
           /\ a = IF at[p] = NPROC THEN 1 ELSE at[p] + 1
    BY <2>1, WakeTurn, SMT DEF IInv
  <2>3. CASE at[p] # NPROC
    <3>a. HasChild'
      BY <1>8, <2>2, <2>3, SMT DEF reparent_wakeup, WakeSlot, IInv, WakeInv, Waiting, HasChild
    <3>b. ZombieTold'
      BY <1>8, <2>2, <2>3, SlotNames, SMT DEF reparent_wakeup, WakeSlot, IInv, TypeOK, LockInv,
         StateInv, Holding, Switching, WakeInv, Waiting, ZombieTold
    <3>c. ParentTold'
      BY <1>8, <2>2, <2>3, SMT DEF reparent_wakeup, IInv, LockInv, Holding, ParentTold
    <3>d. ScanSeen'
      BY <1>8, <2>2, <2>3, SMT DEF reparent_wakeup, IInv, LockInv, Holding, ScanSeen
    <3> QED
      BY <3>a, <3>b, <3>c, <3>d DEF WakeInv
  <2>4. CASE at[p] = NPROC
    <3>1. child[p] \in Slots /\ NextChild(p)
      BY <1>8, <2>4 DEF reparent_wakeup, IInv, LocalInv
    <3>2. PICK c \in Slots \cup {None}, l \in {"reparent", "wake_parent"} :
         /\ child' = [child EXCEPT ![p] = c] /\ pc' = [pc EXCEPT ![p] = l]
         /\ l = "reparent" => c \in Slots /\ c = child[p] + 1
         /\ l = "wake_parent" => child[p] = NPROC
      BY <3>1, ChildTurn DEF IInv
    <3>a. HasChild'
      BY <1>8, <2>2, <2>4, <3>1, <3>2, SMT DEF reparent_wakeup, WakeSlot, IInv, WakeInv, Waiting,
         HasChild
    <3>b. ZombieTold'
      BY <1>8, <2>2, <2>4, <3>1, <3>2, SlotNames, SMT DEF reparent_wakeup, WakeSlot, IInv, TypeOK,
         LockInv, StateInv, Holding, Switching, WakeInv, Waiting, ZombieTold
    <3>c. ParentTold'
      BY <1>8, <2>2, <2>4, <3>2, TellBegins
    <3>d. ScanSeen'
      BY <1>8, <2>2, <2>4, <3>1, <3>2, SMT DEF reparent_wakeup, IInv, LockInv, Holding, ScanSeen
    <3> QED
      BY <3>a, <3>b, <3>c, <3>d DEF WakeInv
  <2> QED
    BY <2>3, <2>4
<1>9. ASSUME NEW p \in Slots, kexit_wakeup(p)
      PROVE  WakeInv'
  <2>1. WakeSlot(p, parent[p])
    BY <1>9 DEF kexit_wakeup
  <2>2. PICK s, a :
           /\ state' = [state EXCEPT ![at[p]] = s]
           /\ s = state[at[p]] \/ (at[p] # p /\ state[at[p]] = "SLEEPING" /\ s = "RUNNABLE")
           /\ at[p] # p /\ chan[at[p]] = parent[p] => s # "SLEEPING"
           /\ at' = [at EXCEPT ![p] = a] /\ a \in Slots
           /\ a = IF at[p] = NPROC THEN 1 ELSE at[p] + 1
    BY <2>1, WakeTurn, SMT DEF IInv
  <2>3. CASE at[p] # NPROC
    <3>a. HasChild'
      BY <1>9, <2>2, <2>3, SMT DEF kexit_wakeup, WakeSlot, IInv, WakeInv, Waiting, HasChild
    <3>b. ZombieTold'
      BY <1>9, <2>2, <2>3, SMT DEF kexit_wakeup, WakeSlot, IInv, WakeInv, Waiting, ZombieTold
    <3>c. ParentTold'
      BY <1>9, <2>2, TellGoesOn
    <3>d. ScanSeen'
      BY <1>9, <2>2, <2>3, SMT DEF kexit_wakeup, IInv, LockInv, Holding, ScanSeen
    <3> QED
      BY <3>a, <3>b, <3>c, <3>d DEF WakeInv
  <2>4. CASE at[p] = NPROC
    <3>a. HasChild'
      BY <1>9, <2>2, <2>4, SMT DEF kexit_wakeup, WakeSlot, IInv, TypeOK, WakeInv, Waiting, HasChild
    <3>b. ZombieTold'
      BY <1>9, <2>2, <2>4, SMT DEF kexit_wakeup, WakeSlot, IInv, TypeOK, WakeInv, Waiting, ZombieTold
    <3>c. ParentTold'
      BY <1>9, <2>2, TellGoesOn
    <3>d. ScanSeen'
      BY <1>9, <2>2, <2>4, SMT DEF kexit_wakeup, IInv, TypeOK, LockInv, Holding, ScanSeen
    <3> QED
      BY <3>a, <3>b, <3>c, <3>d DEF WakeInv
  <2> QED
    BY <2>3, <2>4
<1>10. ASSUME NEW p \in Slots, kwait(p) \/ kwait_acquire(p)
      PROVE  WakeInv'
  <2>1. CASE kwait(p)
    <3>a. HasChild'
      BY <2>1, SMT DEF kwait, IInv, WakeInv, HasChild, Waiting
    <3>b. ZombieTold'
      BY <2>1, SMT DEF kwait, IInv, WakeInv, ZombieTold, Waiting
    <3>c. ParentTold'
      BY <2>1, SMT DEF kwait, IInv, WakeInv, ParentTold, Waiting
    <3>d. ScanSeen'
      BY <2>1, SMT DEF kwait, IInv, WakeInv, ScanSeen
    <3> QED
      BY <3>a, <3>b, <3>c, <3>d DEF WakeInv
  <2>2. CASE kwait_acquire(p)
    <3>a. HasChild'
      BY <2>2 DEF kwait_acquire, IInv, TypeOK, WakeInv, HasChild, Waiting
    <3>b. ZombieTold'
      BY <2>2, SMT DEF kwait_acquire, IInv, WakeInv, ZombieTold, Waiting
    <3>c. ParentTold'
      BY <2>2, SMT DEF kwait_acquire, IInv, WakeInv, ParentTold, Waiting
    <3>d. ScanSeen'
      BY <2>2, SlotRange, SMT DEF kwait_acquire, IInv, LocalInv, WakeInv, ScanSeen, Looping, Living
    <3> QED
      BY <3>a, <3>b, <3>c, <3>d DEF WakeInv
  <2> QED
    BY <1>10, <2>1, <2>2
<1>11. ASSUME NEW p \in Slots, kwait_reap(p) \/ kwait_copyout_fail(p)
      PROVE  WakeInv'
  <2>1. CASE kwait_reap(p)
    <3>a. HasChild'
      BY <2>1, SMT DEF kwait_reap, freeproc, ReturnFromWait, IInv, TypeOK, StateInv, WakeInv,
         HasChild, Waiting
    <3>b. ZombieTold'
      BY <2>1, SlotNames, SMT DEF kwait_reap, freeproc, ReturnFromWait, IInv, WakeInv, ZombieTold,
         Waiting
    <3>c. ParentTold'
      BY <2>1, SMT DEF kwait_reap, ReturnFromWait, IInv, LockInv, ParentTold, Holding
    <3>d. ScanSeen'
      BY <2>1, SlotRange, SlotNames, SMT DEF kwait_reap, freeproc, ReturnFromWait, IInv, WakeInv,
         ScanSeen
    <3> QED
      BY <3>a, <3>b, <3>c, <3>d DEF WakeInv
  <2>2. CASE kwait_copyout_fail(p)
    <3>a. HasChild'
      BY <2>2, SMT DEF kwait_copyout_fail, ReturnFromWait, IInv, WakeInv, HasChild, Waiting
    <3>b. ZombieTold'
      BY <2>2, SMT DEF kwait_copyout_fail, ReturnFromWait, IInv, WakeInv, ZombieTold, Waiting
    <3>c. ParentTold'
      BY <2>2, SMT DEF kwait_copyout_fail, ReturnFromWait, IInv, WakeInv, ParentTold, Waiting
    <3>d. ScanSeen'
      BY <2>2, SlotRange, SMT DEF kwait_copyout_fail, ReturnFromWait, IInv, WakeInv, ScanSeen
    <3> QED
      BY <3>a, <3>b, <3>c, <3>d DEF WakeInv
  <2> QED
    BY <1>11, <2>1, <2>2
<1>12. ASSUME NEW p \in Slots, kwait_scan(p)
      PROVE  WakeInv'
  <2>a. HasChild'
    BY <1>12, SMT DEF kwait_scan, IInv, TypeOK, WakeInv, Waiting, HasChild
  <2>b. ZombieTold'
    BY <1>12, SMT DEF kwait_scan, IInv, TypeOK, Holding, WakeInv, Waiting, ZombieTold
  <2>c. ParentTold'
    BY <1>12, SMT DEF kwait_scan, IInv, TypeOK, LockInv, Holding, ParentTold
  <2>d. ScanSeen'
    BY <1>12, ScanPassed
  <2> QED
    BY <2>a, <2>b, <2>c, <2>d DEF WakeInv
<1>13. ASSUME NEW p \in Slots, kwait_scanned(p)
      PROVE  WakeInv'
  <2>1. CASE ~havekids[p] \/ killed[p]
    BY <1>13, <2>1, SMT DEF kwait_scanned, ReturnFromWait, IInv, TypeOK, LockInv, WakeInv, HasChild,
       ZombieTold, ParentTold, ScanSeen, Waiting, Holding, Exiting, Living
  <2>2. CASE ~ (~havekids[p] \/ killed[p])
    BY <1>13, <2>2, SMTT(30) DEF kwait_scanned, IInv, TypeOK, LockInv, WakeInv, HasChild,
       ZombieTold, ParentTold, ScanSeen, Waiting, Holding
  <2> QED
    BY <2>1, <2>2
<1>14. CASE UNCHANGED vars
  BY <1>14 DEF vars, IInv, WakeInv, HasChild, ZombieTold, ParentTold, ScanSeen, Waiting
<1> QED
  BY <1>1, <1>2, <1>3, <1>4, <1>5, <1>6, <1>7, <1>8, <1>9, <1>10, <1>11, <1>12, <1>13,
     <1>14 DEF Next, Kernel

\* The invariant holds at boot: init alone, RUNNABLE, and no lock held.
LEMMA InitInv == Init => IInv
<1> SUFFICES ASSUME Init PROVE IInv
  OBVIOUS
<1> USE SlotNames DEF Init
<1>1. TypeOK
  <2>1. None \in 0 .. MaxPid /\ 1 \in 0 .. MaxPid /\ nextpid \in 2 .. MaxPid + 1
    BY SizeAssumption, SMT DEF None
  <2> QED
    BY <2>1 DEF TypeOK
<1>2. LockInv
  BY DEF LockInv, Holding, Switching
<1>3. StateInv
  BY DEF StateInv
<1>4. LocalInv
  BY DEF LocalInv, Looping, Exiting, Forking
<1>5. FamilyInv
  <2>1. \A p \in Slots : parent[p] = None /\ pc[p] \in {"user", "dead"}
    OBVIOUS
  <2>2. \A p \in Slots \ {initproc} : state[p] = "UNUSED"
    OBVIOUS
  <2> QED
    BY <2>1, <2>2, SlotNames DEF FamilyInv, NewSlots, ParentLives, ChildrenPassed, Living
<1>6. WakeInv
  <2>1. \A p \in Slots : pc[p] \in {"user", "dead"} /\ state[p] \in {"RUNNABLE", "UNUSED"}
    OBVIOUS
  <2>2. \A p \in Slots : ~ Waiting(p)
    BY <2>1 DEF Waiting
  <2> QED
    BY <2>1, <2>2 DEF WakeInv, HasChild, ZombieTold, ParentTold, ScanSeen
<1> QED
  BY <1>1, <1>2, <1>3, <1>4, <1>5, <1>6 DEF IInv

\* The invariant that carries the theorems below.
THEOREM Invariance == Spec => []IInv
<1>1. IInv /\ [Next]_vars => IInv'
  BY TypeStep, LockStep, StateStep, LocalStep, FamilyStep, WakeStep DEF IInv
<1> QED
  BY InitInv, <1>1, PTL DEF Spec

-----------------------------------------------------------------------------
(* What follows from it.                                                   *)

\* However fork, exit, wait, kill and the scheduler interleave, sched() is called
\* with exactly one lock held, the caller's own, and every variable keeps its
\* type: none of sched()'s panics is reached from sleep() and kexit().
THEOREM SchedNeverPanics == Spec => []SchedSafe
<1>1. IInv => SchedSafe
  BY SlotNames DEF IInv, LockInv, Holding, Switching, SchedSafe, SchedOK
<1> QED
  BY <1>1, Invariance, PTL

\* Whenever nobody holds wait_lock, a process asleep in wait() has a child and no
\* zombie among its children: the lock that kexit() holds from reparent() to
\* ZOMBIE, and that sleep() lets go only under p->lock, leaves no gap for a
\* wakeup to fall into.
THEOREM NoWakeupLost == Spec => []NoLostWakeup
<1>1. IInv => NoLostWakeup
  BY SlotNames, SMT DEF IInv, LockInv, Holding, WakeInv, HasChild, ZombieTold, Waiting, NoLostWakeup
<1> QED
  BY <1>1, Invariance, PTL

\* Every step keeps the marks of kill() to processes it was meant for: when no
\* caller passes 0, which is the pid of every UNUSED slot, allocproc() finds its
\* slot unmarked, and freeproc() takes mark and pid away together.
LEMMA KillStep ==
  ASSUME None \notin KillPids, IInv, KillInv, [Next]_vars
  PROVE  KillInv'
<1> USE DEF Set, fields, locks, locals
<1>1. ASSUME UNCHANGED <<killed, pid>>, \A q \in Slots : state'[q] = "UNUSED" => state[q] = "UNUSED"
      PROVE  KillInv'
  BY <1>1 DEF KillInv
<1>2. ASSUME NEW q \in Slots, freeproc(q)
      PROVE  KillInv'
  BY <1>2 DEF freeproc, KillInv, IInv, TypeOK
<1>3. ASSUME NEW p \in Slots, NEW c, WakeSlot(p, c)
      PROVE  KillInv'
  BY <1>1, <1>3, WakeTurn, SMT DEF WakeSlot, IInv, TypeOK
<1>4. ASSUME NEW p \in Slots,
             \/ Dispatch(p) \/ yield(p) \/ sleep(p) \/ sleep_release(p) \/ sleep_sched(p)
             \/ kfork_copied(p) \/ kfork_parent(p) \/ kfork_ready(p) \/ kexit(p) \/ kexit_acquire(p)
             \/ reparent(p) \/ kexit_zombie(p) \/ kexit_sched(p) \/ kwait(p) \/ kwait_acquire(p)
             \/ kwait_scan(p) \/ kwait_copyout_fail(p) \/ kwait_scanned(p)
      PROVE  KillInv'
  BY <1>1, <1>4 DEF Dispatch, yield, sleep, sleep_release, sleep_sched, kfork_copied,
     kfork_parent, kfork_ready, kexit, kexit_acquire, reparent, kexit_zombie, kexit_sched,
     kwait, kwait_acquire, kwait_scan, kwait_copyout_fail, kwait_scanned, IInv, TypeOK
<1>5. ASSUME NEW p \in Slots, kfork_fail(p)
      PROVE  KillInv'
  BY <1>2, <1>5 DEF kfork_fail, At, IInv, LocalInv, Forking
<1>6. ASSUME NEW p \in Slots, reparent_wakeup(p) \/ kexit_wakeup(p)
      PROVE  KillInv'
  BY <1>3, <1>6 DEF reparent_wakeup, kexit_wakeup
<1>7. ASSUME NEW p \in Slots, kwait_reap(p)
      PROVE  KillInv'
  BY <1>2, <1>7 DEF kwait_reap, IInv, TypeOK
<1>8. ASSUME NEW p \in Slots, NEW q \in Slots, kfork(p, q)
      PROVE  KillInv'
  BY <1>8 DEF kfork, KillInv, IInv, TypeOK
<1>9. ASSUME NEW p \in Slots, NEW q \in Slots, NEW n \in KillPids, kkill(p, n, q)
      PROVE  KillInv'
  BY <1>9 DEF kkill, KillInv, IInv, TypeOK
<1>10. CASE UNCHANGED vars
  BY <1>1, <1>10 DEF vars
<1> QED
  BY <1>4, <1>5, <1>6, <1>7, <1>8, <1>9, <1>10 DEF Next, Kernel

\* When no caller passes 0 to kill(): a slot is reused only after its process has
\* left its kernel stack and wait() has freed it, no mark of kill() outlives the
\* process it was meant for, and whenever nobody holds wait_lock every process
\* but init has a parent that is alive to wait for it.  (kkill(0) would mark
\* the first UNUSED slot, which allocproc() does not undo.)
THEOREM FamiliesSound ==
  ASSUME None \notin KillPids
  PROVE  Spec => []FamilySound
<1>1. Init => KillInv
  BY SlotNames, SMT DEF Init, KillInv
<1>2. Spec => []KillInv
  <2>1. IInv /\ KillInv /\ [Next]_vars => KillInv'
    BY KillStep
  <2> QED
    BY <1>1, <2>1, Invariance, PTL DEF Spec
<1>3. IInv /\ KillInv => FamilySound
  <2> SUFFICES ASSUME IInv, KillInv PROVE FamilySound
    OBVIOUS
  <2>1. SlotsReused
    BY DEF SlotsReused, IInv, KillInv, LockInv, StateInv, Switching
  <2>2. ParentAlive
    BY SlotNames DEF ParentAlive, IInv, FamilyInv, ParentLives, Living
  <2> QED
    BY <2>1, <2>2 DEF FamilySound
<1> QED
  BY <1>2, <1>3, Invariance, PTL
=============================================================================
