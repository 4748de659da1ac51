--------------------------- MODULE SpinlockProofs ---------------------------
(***************************************************************************)
(* Spin locks, interrupts and switches, for any number of CPUs and         *)
(* processes: no panic() of spinlock.c, sched() or kerneltrap() is         *)
(* reached, noff and the interrupt state are what the running thread needs *)
(* on whichever CPU it is, CPUs never spin in a circle, and no sleeper in  *)
(* pause() misses its tick.  The inductive invariant comes first, with the *)
(* types and what it says about the locks; then the switches, interrupts,  *)
(* the steps of acquire() and release() and the code between the calls,    *)
(* which keep the stacks, the CPUs and the lock words, and the part about  *)
(* ticks and sleepers, which every step keeps.                             *)
(***************************************************************************)
EXTENDS Spinlock, TLAPS

USE Zenon
-----------------------------------------------------------------------------
(* What a frame's label says.                                              *)

Acq      == {"acquire", "push", "spin", "mark"}
Rel      == {"release", "unlock", "pop"}
Sub      == Acq \cup Rel
TrapCode == {"trap", "tick", "wake", "wakeup", "tkilled", "tkilled1", "tyield", "yield",
             "yielded", "tret"}
ProcCode == {"user", "entry", "entry1", "syscall", "start", "loop", "killed", "killed1", "sleep",
             "sleep1", "sched", "slept", "woken", "return", "return1", "forkret", "prepare"}
IdleCode == {"idle", "open", "scan", "try", "back"}

\* The label of the outermost frame of context k.
Outer(k) == IF k \in Procs THEN ProcCode ELSE IdleCode

\* How many locks the code at a label holds, and which: TickHeld has tickslock,
\* OwnHeld the lock of its own process, and ItsHeld the one that x names.
Two      == {"killed1", "sleep1", "wakeup"}
TickHeld == {"start", "loop", "killed", "sleep", "tick", "wake"} \cup Two
OwnHeld  == {"entry1", "killed1", "sleep1", "sched", "slept", "return1", "forkret", "tkilled1",
             "yield", "yielded"}
ItsHeld  == {"wakeup", "try", "back"}

Held(k, f) ==
  {l \in Locks : \/ l = tickslock /\ f.at \in TickHeld
                 \/ l = k /\ f.at \in OwnHeld
                 \/ l = f.x /\ f.at \in ItsHeld}

Count(f) ==
  IF f.at \in Two THEN 2
  ELSE IF f.at \in TickHeld \cup OwnHeld \cup ItsHeld THEN 1 ELSE 0

\* Interrupts at a label that holds no lock; at one that does, intena.  At
\* "prepare", "idle" and "back" they may be either.
IntrOn  == {"user", "return", "woken", "open", "start", "loop", "killed", "killed1", "sleep",
            "sleep1", "sched", "return1"}
IntrOff == (TrapCode \cup ProcCode \cup IdleCode) \ (IntrOn \cup {"prepare", "idle", "back"})

Agrees(b, f) == (f.at \in IntrOn => b) /\ (f.at \in IntrOff => ~b)
-----------------------------------------------------------------------------
(* The inductive invariant.                                                *)

Frames == [at : Labels, x : 0 .. NPROC + 1, old : BOOLEAN]

FrameOK(k, f) ==
  /\ f \in Frames
  /\ f.at = "wake" => f.x >= 1
  /\ f.at \in ItsHeld => f.x \in Procs
  /\ f.at \in OwnHeld \cup {"tkilled"} => k \in Procs

\* No acquire() returns to these.
NoAcq == {"prepare", "idle", "back", "killed", "sleep", "sched"}

\* f is a call of acquire() or release() that g makes; a second lock is that of
\* a process.
CallOK(k, f, g) ==
  /\ f \in Frames /\ f.x \in Locks
  /\ f.at \in Acq => f.x \in Held(k, g)
  /\ f.at \in Rel => f.x \notin Held(k, g)
  /\ f.at \in Acq => g.at \notin NoAcq
  /\ f.at \in Acq /\ g.at \in Two => f.x # tickslock
  /\ g.at # "back"

\* A stack that an interrupt may find: it holds nothing and interrupts are on.
Interrupted(k, s) ==
  \/ /\ Len(s) = 1 /\ FrameOK(k, s[1])
     /\ s[1].at \in Outer(k) \cap {"user", "return", "woken", "prepare", "idle", "open"}
  \/ /\ Len(s) = 2 /\ FrameOK(k, s[2]) /\ CallOK(k, s[1], s[2])
     /\ s[1].at \in {"acquire", "push"} /\ (s[1].at = "push" => s[1].old)
     /\ s[2].at \in Outer(k) \cap {"start", "loop", "return1"}

\* The code of the outermost frame, or of a trap handler.
Code(k, s) ==
  /\ FrameOK(k, s[1])
  /\ \/ Len(s) = 1 /\ s[1].at \in Outer(k)
     \/ Len(s) \in 2 .. 3 /\ s[1].at \in TrapCode /\ Interrupted(k, Tail(s))

Stack(k, s) ==
  /\ s \in Seq(Frames)
  /\ \/ Code(k, s)
     \/ Len(s) \in 2 .. 4 /\ s[1].at \in Sub /\ CallOK(k, s[1], s[2]) /\ Code(k, Tail(s))

\* The frame that runs, or that waits for its acquire() or release().
Code1(s) == IF s[1].at \in Sub THEN s[2] ELSE s[1]

StackInv ==
  /\ DOMAIN stk = Contexts
  /\ \A k \in Contexts : Stack(k, stk[k])

\* What runs where: a scheduler waits in swtch() for the process it switched
\* to, and a process that no CPU runs in the one that it called.
Parked(p) ==
  \/ Len(stk[p]) = 1 /\ stk[p][1].at = "slept" /\ saved[p]
  \/ Len(stk[p]) = 1 /\ stk[p][1].at = "forkret"
  \/ stk[p][1].at = "yielded" /\ ~saved[p]

RunInv ==
  /\ \A c \in CPUs : on[c] \in Procs =>
       /\ state[on[c]] = "RUNNING"
       /\ Len(stk[c]) = 1 /\ stk[c][1].at = "back" /\ stk[c][1].x = on[c]
  /\ \A c \in CPUs : on[c] \in CPUs => on[c] = c
  /\ \A c, d \in CPUs : on[c] = on[d] => c = d
  /\ \A p \in Procs : (\A c \in CPUs : on[c] # p) => Parked(p)
  /\ \A c \in CPUs : Code1(stk[on[c]]).at = "yielded" => ~saved[on[c]]
  /\ \A c \in CPUs : Code1(stk[on[c]]).at = "slept" => saved[on[c]]
  /\ \A c \in CPUs : Code1(stk[on[c]]).at \in {"tick", "wake", "wakeup"} => c = Cpu0

\* n, i and e are the noff, interrupt state and intena that stack s needs.
Fits(s, n, i, e) ==
  LET f == Code1(s)
      a == s[1].at
  IN  /\ n = CASE a \in {"acquire", "push"} -> Count(f) - 1
               [] a \in Rel                 -> Count(f) + 1
               [] OTHER                     -> Count(f)
      /\ IF a \in {"spin", "mark"} \cup Rel \/ n # 0 THEN ~i /\ Agrees(e, f) ELSE Agrees(i, f)
      /\ a = "push" => s[1].old = i

CpuInv == \A c \in CPUs : Fits(stk[on[c]], noff[c], intr[c], intena[c])

\* The locks that context k holds with stack s: acquire() has them when it has
\* written lk->cpu, and release() until it clears it.
Owns(k, s) ==
  IF s[1].at \in Acq THEN Held(k, Code1(s)) \ {s[1].x}
  ELSE IF s[1].at = "release" THEN Held(k, Code1(s)) \cup {s[1].x}
  ELSE Held(k, Code1(s))

\* In between, a lock is taken and says no owner.
Between(s, l) == s[1].at \in {"mark", "unlock"} /\ s[1].x = l

\* What the lock words say is what the stacks of the CPUs say.
LockInv ==
  /\ \A c \in CPUs, l \in Locks : holding(c, l) <=> l \in Owns(on[c], stk[on[c]])
  /\ \A l \in Locks : ~locked[l] => lkcpu[l] = None
  /\ \A c \in CPUs, l \in Locks : Between(stk[on[c]], l) => locked[l] /\ lkcpu[l] = None
  /\ \A c, d \in CPUs, l \in Locks : Between(stk[on[c]], l) /\ Between(stk[on[d]], l) => c = d

\* The wakeup(&ticks) in progress has still to look at p.
Coming(p) ==
  LET f == Code1(stk[on[Cpu0]]) IN f.at \in {"wake", "wakeup"} /\ f.x <= p

\* Who decided to sleep saw its time not up, and no tick has come since without
\* a wakeup() that will find it asleep.
Deciding == {"killed", "killed1", "sleep", "sleep1"}

TickInv ==
  \A p \in Procs :
    /\ Code1(stk[p]).at \in Deciding => Elapsed(p) < N
    /\ Code1(stk[p]).at = "sched" => Elapsed(p) < N \/ Coming(p)
    /\ state[p] = "SLEEPING" => Elapsed(p) < N \/ Coming(p)

Types ==
  /\ locked \in [Locks -> BOOLEAN] /\ lkcpu \in [Locks -> CPUs \cup {None}]
  /\ noff \in [CPUs -> 0 .. 3] /\ intena \in [CPUs -> BOOLEAN] /\ intr \in [CPUs -> BOOLEAN]
  /\ on \in [CPUs -> Contexts]
  /\ saved \in [Procs -> BOOLEAN]
  /\ state \in [Procs -> {"RUNNABLE", "RUNNING", "SLEEPING"}]
  /\ ticks \in 0 .. TickMod - 1 /\ ticks0 \in [Procs -> 0 .. TickMod - 1]

IInv == Types /\ StackInv /\ RunInv /\ CpuInv /\ LockInv /\ TickInv

\* The invariant without the ticks.
SafeInv == Types /\ StackInv /\ RunInv /\ CpuInv /\ LockInv
-----------------------------------------------------------------------------
(* The running frame.                                                      *)

\* Locks and processes are numbered apart from the CPUs.
LEMMA Names ==
  /\ tickslock \in Locks /\ tickslock \notin Procs /\ Procs \subseteq Locks
  /\ Procs \subseteq Contexts /\ CPUs \subseteq Contexts /\ CPUs \cap Procs = {}
  /\ Contexts = Procs \cup CPUs /\ None \notin CPUs /\ Cpu0 \in CPUs
BY SpinlockAssumption, SMT DEF tickslock, Locks, Procs, Contexts

\* A frame holds at most two locks.
LEMMA CountRange == \A f : Count(f) \in 0 .. 2
BY SMT DEF Count

\* What a CPU runs is the top of the stack of some context.
LEMMA StackHere ==
  ASSUME Types, StackInv, NEW c \in CPUs
  PROVE  /\ on[c] \in Contexts /\ on[c] \in DOMAIN stk /\ Stack(on[c], stk[on[c]])
         /\ stk[on[c]] \in Seq(Frames) /\ stk[on[c]] # << >>
         /\ Top(c) = stk[on[c]][1] /\ stk[on[c]][1] \in Frames
<1> DEFINE s == stk[on[c]]
<1>1. on[c] \in Contexts /\ on[c] \in DOMAIN stk /\ Stack(on[c], s)
  BY DEF Types, StackInv
<1> HIDE DEF s
<1>2. s \in Seq(Frames) /\ s # << >>
  BY <1>1, SMT DEF Stack, Code
<1>3. s[1] \in Frames /\ Head(s) = s[1]
  BY <1>2, SMT
<1> QED
  BY <1>1, <1>2, <1>3 DEF s, Top

\* What the invariant says of the code that a CPU runs.
LEMMA Here ==
  ASSUME SafeInv, NEW c \in CPUs
  PROVE  /\ on[c] \in Contexts /\ Top(c) \in Frames
         /\ on[c] \in Procs \/ on[c] = c
         /\ Top(c).at \notin Sub =>
              /\ FrameOK(on[c], Top(c)) /\ Top(c).at \in TrapCode \cup Outer(on[c])
              /\ noff[c] = Count(Top(c))
              /\ IF noff[c] = 0 THEN Agrees(intr[c], Top(c))
                 ELSE ~intr[c] /\ Agrees(intena[c], Top(c))
              /\ Top(c).at \in {"tick", "wake", "wakeup"} => c = Cpu0
<1> DEFINE s == stk[on[c]]
<1>1. on[c] \in Contexts /\ Stack(on[c], s) /\ Fits(s, noff[c], intr[c], intena[c])
  BY StackHere DEF SafeInv, CpuInv
<1>2. s[1] \in Frames /\ Top(c) = s[1]
  BY StackHere DEF SafeInv
<1>3. on[c] \in Procs \/ on[c] = c
  BY <1>1 DEF SafeInv, RunInv, Contexts
<1>4. ASSUME s[1].at \notin Sub
      PROVE  /\ Code(on[c], s) /\ Code1(s) = s[1] /\ noff[c] = Count(s[1])
             /\ IF noff[c] = 0 THEN Agrees(intr[c], s[1])
                ELSE ~intr[c] /\ Agrees(intena[c], s[1])
  BY <1>1, <1>4 DEF Stack, Code1, Fits, Sub, Acq, Rel
<1>5. Code1(s).at \in {"tick", "wake", "wakeup"} => c = Cpu0
  BY DEF SafeInv, RunInv
<1>6. Code(on[c], s) => FrameOK(on[c], s[1]) /\ s[1].at \in TrapCode \cup Outer(on[c])
  BY DEF Code
<1> HIDE DEF s
<1> QED
  BY <1>1, <1>2, <1>3, <1>4, <1>5, <1>6

\* A step of the running frame leaves the stacks of the other CPUs alone.
LEMMA Elsewhere ==
  ASSUME Types, StackInv, RunInv, NEW c \in CPUs, NEW t, stk' = [stk EXCEPT ![on[c]] = t],
         on' = on
  PROVE  /\ on[c] \in Contexts /\ stk'[on[c]] = t /\ DOMAIN stk' = Contexts
         /\ \A k \in Contexts \ {on[c]} : stk'[k] = stk[k]
         /\ \A d \in CPUs \ {c} : on[d] \in Contexts /\ stk'[on[d]] = stk[on[d]]
BY Names DEF Types, StackInv, RunInv

\* Frame() makes frames.
LEMMA NewFrame ==
  ASSUME NEW l \in Labels, NEW x \in 0 .. NPROC + 1
  PROVE  /\ Frame(l, x) \in Frames /\ Frame(l, x).at = l /\ Frame(l, x).x = x
BY DEF Frame, Frames
-----------------------------------------------------------------------------
(* The beginning, and the types.                                           *)

\* Initially the CPUs are in scheduler(), and the processes are new.
LEMMA InitInv ==
  ASSUME Init
  PROVE  IInv
<1> DEFINE f == Frame("idle", 0)
           g == Frame("forkret", 0)
<1>1. /\ f \in Frames /\ f.at = "idle" /\ g \in Frames /\ g.at = "forkret"
  BY NewFrame, SpinlockAssumption, SMT DEF Labels
<1>2. /\ \A c \in CPUs : stk[c] = <<f>>
      /\ \A p \in Procs : stk[p] = <<g>>
      /\ DOMAIN stk = Contexts
  BY Names DEF Init
<1> HIDE DEF f, g
<1>3. <<f>> \in Seq(Frames) /\ <<g>> \in Seq(Frames)
  BY <1>1, SMT
<1>4. /\ Len(<<f>>) = 1 /\ <<f>>[1] = f /\ Code1(<<f>>) = f
      /\ Len(<<g>>) = 1 /\ <<g>>[1] = g /\ Code1(<<g>>) = g
  BY <1>1 DEF Code1, Sub, Acq, Rel
<1>5. /\ \A c \in CPUs : FrameOK(c, f) /\ f.at \in Outer(c)
      /\ \A p \in Procs : FrameOK(p, g) /\ g.at \in Outer(p)
  BY <1>1, Names, SMT DEF FrameOK, Outer, ItsHeld, OwnHeld, ProcCode, IdleCode
<1>6. Types
  BY SpinlockAssumption, Names, SMT DEF Init, Types
<1>7. StackInv
  <2>1. \A c \in CPUs : Stack(c, <<f>>)
    BY <1>3, <1>4, <1>5 DEF Stack, Code
  <2>2. \A p \in Procs : Stack(p, <<g>>)
    BY <1>3, <1>4, <1>5 DEF Stack, Code
  <2> QED
    BY <1>2, <2>1, <2>2, Names DEF StackInv
<1>8. \A c \in CPUs : on[c] = c /\ stk[on[c]] = <<f>>
  BY <1>2 DEF Init
<1>9. RunInv
  BY <1>1, <1>2, <1>4, <1>8, Names, SMT DEF RunInv, Parked
<1>10. CpuInv
  <2>1. Fits(<<f>>, 0, FALSE, FALSE)
    BY <1>1, <1>4 DEF Fits, Count, Two, TickHeld, OwnHeld, ItsHeld, Agrees, IntrOn, IntrOff, Rel
  <2> QED
    BY <1>8, <2>1 DEF CpuInv, Init
<1>11. LockInv
  <2>1. \A c \in CPUs : Owns(c, <<f>>) = {}
    BY <1>1, <1>4, SMT DEF Owns, Held, Acq, TickHeld, Two, OwnHeld, ItsHeld
  <2>2. \A l \in Locks : ~locked[l] /\ lkcpu[l] = None /\ ~Between(<<f>>, l)
    BY <1>1, <1>4 DEF Init, Between
  <2> QED
    BY <1>8, <2>1, <2>2 DEF LockInv, holding
<1>12. TickInv
  BY <1>1, <1>2, <1>4 DEF TickInv, Init, Deciding
<1> QED
  BY <1>6, <1>7, <1>9, <1>10, <1>11, <1>12 DEF IInv

\* The invariant bounds every variable.
LEMMA InvTypes ==
  ASSUME SafeInv
  PROVE  TypeOK
<1>1. \A k \in Contexts : stk[k] \in Seq(Frames) /\ Len(stk[k]) \in 1 .. 4
  BY SMT DEF SafeInv, StackInv, Stack, Code
<1>2. \A k \in Contexts : \A i \in 1 .. Len(stk[k]) : stk[k][i] \in Frames
  BY <1>1, SMT
<1> QED
  BY <1>1, <1>2 DEF SafeInv, Types, TypeOK, Frames

\* A return uncovers the caller.
LEMMA PopTop ==
  ASSUME NEW s \in Seq(Frames), Len(s) >= 2
  PROVE  Tail(s) \in Seq(Frames) /\ Len(Tail(s)) = Len(s) - 1 /\ Tail(s)[1] = s[2]
BY SMT

\* What is left of stack s when the function of spinlock.c on it returns.
SubOff(k, s, t) ==
  /\ Stack(k, t) /\ t[1] = s[2] /\ Code1(t) = s[2] /\ s[2].at \notin Sub
  /\ Code1(s) = s[2] /\ CallOK(k, s[1], s[2])

\* Returning from acquire(), release(), push_off() or pop_off() leaves the
\* stack of the code that called it.
LEMMA SubReturn ==
  ASSUME NEW k, NEW s, Stack(k, s), s[1].at \in Sub, NEW t, t = Tail(s)
  PROVE  SubOff(k, s, t)
<1>1. Sub \cap (TrapCode \cup ProcCode \cup IdleCode) = {}
  BY DEF Sub, Acq, Rel, TrapCode, ProcCode, IdleCode
<1>2. ~ Code(k, s)
  BY <1>1 DEF Code, Outer
<1>3. s \in Seq(Frames) /\ Len(s) \in 2 .. 4 /\ CallOK(k, s[1], s[2]) /\ Code(k, t)
  BY <1>2 DEF Stack
<1>4. t \in Seq(Frames) /\ t[1] = s[2]
  BY <1>3, PopTop, SMT
<1>5. s[2].at \notin Sub
  BY <1>1, <1>3, <1>4 DEF Code, Outer
<1>6. Stack(k, t)
  BY <1>3, <1>4 DEF Stack
<1>7. Code1(t) = s[2] /\ Code1(s) = s[2]
  BY <1>4, <1>5 DEF Code1
<1> QED
  BY <1>3, <1>4, <1>5, <1>6, <1>7 DEF SubOff

\* A CPU in acquire() or release() is at work on a lock.
LEMMA SubHere ==
  ASSUME SafeInv, NEW c \in CPUs, Top(c).at \in Sub
  PROVE  /\ Stack(on[c], stk[on[c]]) /\ Top(c) = stk[on[c]][1] /\ Top(c) \in Frames
         /\ CallOK(on[c], stk[on[c]][1], Code1(stk[on[c]])) /\ Top(c).x \in Locks
         /\ Fits(stk[on[c]], noff[c], intr[c], intena[c])
         /\ noff[c] \in 0 .. 3
<1> DEFINE s == stk[on[c]]
<1>1. Stack(on[c], s) /\ Top(c) = s[1] /\ s[1] \in Frames
  BY StackHere DEF SafeInv
<1>2. SubOff(on[c], s, Tail(s))
  BY <1>1, SubReturn
<1>3. CallOK(on[c], s[1], Code1(s))
  BY <1>2 DEF SubOff
<1> QED
  BY <1>1, <1>3 DEF SafeInv, CpuInv, CallOK, Types

\* Every variable keeps its type.
LEMMA TypesStep ==
  ASSUME SafeInv, NEW c \in CPUs, Step(c)
  PROVE  Types'
\* The bounds of noff when push_off() and pop_off() change it.
<1>1. /\ push_off(c) => noff[c] \in 0 .. 1 /\ Top(c).old \in BOOLEAN
      /\ pop_off(c) => noff[c] \in 1 .. 3
  <2> DEFINE s == stk[on[c]]
  <2>1. ASSUME Top(c).at \in Sub
        PROVE  /\ s[1] = Top(c) /\ Top(c) \in Frames /\ Fits(s, noff[c], intr[c], intena[c])
               /\ noff[c] \in 0 .. 3
    BY <2>1, SubHere
  <2>2. Count(Code1(s)) \in 0 .. 2
    BY CountRange, SMT
  <2> HIDE DEF s
  <2>3. push_off(c) => noff[c] \in 0 .. 1 /\ Top(c).old \in BOOLEAN
    <3> SUFFICES ASSUME Top(c).at = "push" PROVE noff[c] \in 0 .. 1 /\ Top(c).old \in BOOLEAN
      BY DEF push_off, At
    <3>1. Fits(s, noff[c], intr[c], intena[c]) /\ noff[c] \in 0 .. 3 /\ s[1].at = "push"
      BY <2>1, SMT DEF Sub, Acq
    <3>2. noff[c] = Count(Code1(s)) - 1
      BY <3>1 DEF Fits, Rel
    <3>3. Top(c).old \in BOOLEAN
      BY <2>1 DEF Sub, Acq, Frames
    <3> QED
      BY <2>2, <3>1, <3>2, <3>3, SMT
  <2>4. pop_off(c) => noff[c] \in 1 .. 3
    <3> SUFFICES ASSUME Top(c).at = "pop" PROVE noff[c] \in 1 .. 3
      BY DEF pop_off, At
    <3>1. noff[c] = Count(Code1(s)) + 1
      BY <2>1 DEF Sub, Rel, Fits
    <3> QED
      BY <2>2, <3>1, SMT
  <2> QED
    BY <2>3, <2>4, SMT
<1> USE DEF lks, cpu
<1>2. Types
  BY SMT DEF SafeInv
<1>3. CASE push_off_get(c) \/ usertrap_killed(c) \/ sys_pause_loop(c) \/ sys_pause_killed(c) \/ sleep(c)
  BY <1>2, <1>3 DEF Types, push_off_get, usertrap_killed, sys_pause_loop, sys_pause_killed, sleep
<1>4. CASE \/ forkret(c) \/ clockintr(c) \/ wakeup(c) \/ yield(c) \/ scheduler_scan(c)
           \/ scheduler_release(c)
  BY <1>2, <1>4 DEF Types, forkret, clockintr, wakeup, yield, scheduler_scan, scheduler_release
<1>5. CASE \/ usertrap(c) \/ sys_pause(c) \/ prepare_return(c) \/ interrupt(c)
           \/ kerneltrap_return(c) \/ scheduler_intr(c)
  BY <1>2, <1>5 DEF Types, usertrap, sys_pause, prepare_return, interrupt, kerneltrap_return,
                    scheduler_intr
<1>6. CASE acquire_spin(c) \/ acquire_mark(c) \/ release(c) \/ release_unlock(c)
  BY <1>2, <1>6 DEF Types, acquire_spin, acquire_mark, release, release_unlock
<1>7. CASE push_off(c)
  <2>1. noff[c] \in 0 .. 1 /\ Top(c).old \in BOOLEAN
    BY <1>7, <1>1
  <2>2. noff[c] + 1 \in 0 .. 3 /\ (IF noff[c] = 0 THEN Top(c).old ELSE intena[c]) \in BOOLEAN
    BY <1>2, <2>1, SMT DEF Types
  <2> QED
    BY <1>2, <1>7, <2>2, SMT DEF Types, push_off
<1>8. CASE pop_off(c)
  <2>1. noff[c] \in 1 .. 3
    BY <1>8, <1>1
  <2>2. noff[c] - 1 \in 0 .. 3
    BY <2>1, SMT
  <2>3. (intr[c] \/ (noff[c] = 1 /\ intena[c])) \in BOOLEAN
    OBVIOUS
  <2> QED
    BY <1>2, <1>8, <2>2, <2>3 DEF Types, pop_off
<1>9. CASE sleep_back(c) \/ yield_back(c)
  <2>1. Top(c).at \in {"slept", "yielded"} => Top(c).at \notin Sub /\ Top(c).at \in OwnHeld
    BY DEF Sub, Acq, Rel, OwnHeld
  <2>2. Top(c).at \in {"slept", "yielded"} => saved[on[c]] \in BOOLEAN
    BY <1>2, <2>1, Here, SMT DEF FrameOK, Types
  <2> QED
    BY <1>2, <1>9, <2>2 DEF Types, sleep_back, yield_back, sched_back, At
<1>10. CASE sys_pause_start(c) \/ wakeup_one(c)
  BY <1>2, <1>10, SMT DEF Types, sys_pause_start, wakeup_one
<1>11. CASE clockintr_tick(c)
  <2>1. TickMod \in Nat /\ TickMod > 0 /\ ticks \in Nat
    BY <1>2, SpinlockAssumption, SMT DEF Types
  <2>2. (ticks + 1) % TickMod \in 0 .. TickMod - 1
    BY <2>1, SMT
  <2> QED
    BY <1>2, <1>11, <2>2 DEF Types, clockintr_tick
<1>12. CASE sleep_sched(c) \/ yield_sched(c)
  BY <1>2, <1>12, Names, SMT DEF Types, sleep_sched, yield_sched, sched
<1>13. CASE scheduler_swtch(c)
  <2>1. Top(c).x \in Contexts
    <3>1. Top(c).at = "try" => Top(c).at \notin Sub /\ Top(c).at \in ItsHeld
      BY DEF Sub, Acq, Rel, ItsHeld
    <3> QED
      BY <1>13, <3>1, Here, Names DEF FrameOK, scheduler_swtch, At
  <2> QED
    BY <1>2, <1>13, <2>1 DEF Types, scheduler_swtch
<1> QED
  BY <1>3, <1>4, <1>5, <1>6, <1>7, <1>8, <1>9, <1>10, <1>11, <1>12, <1>13, SMT DEF Step
-----------------------------------------------------------------------------
(* What the invariant means for the locks.                                 *)

\* The frame that runs, or waits for its acquire() or release(), is in order.
LEMMA CodeFrame ==
  ASSUME SafeInv, NEW c \in CPUs
  PROVE  FrameOK(on[c], Code1(stk[on[c]]))
<1>1. on[c] \in Contexts /\ Stack(on[c], stk[on[c]])
  BY Here DEF SafeInv, StackInv
<1>2. \A s : Code(on[c], s) => s[1].at \notin Sub
  BY SMT DEF Code, TrapCode, Outer, ProcCode, IdleCode, Sub, Acq, Rel
<1>3. stk[on[c]] \in Seq(Frames) /\ stk[on[c]] # << >>
  BY <1>1, SMT DEF Stack, Code
<1>4. CASE Code(on[c], stk[on[c]])
  BY <1>2, <1>4 DEF Code, Code1
<1>5. CASE ~Code(on[c], stk[on[c]])
  <2>1. /\ Len(stk[on[c]]) \in 2 .. 4 /\ stk[on[c]][1].at \in Sub
        /\ FrameOK(on[c], Tail(stk[on[c]])[1])
    BY <1>1, <1>5 DEF Stack, Code
  <2>2. Tail(stk[on[c]])[1] = stk[on[c]][2]
    BY <1>3, <2>1, SMT
  <2> QED
    BY <2>1, <2>2 DEF Code1
<1> QED
  BY <1>4, <1>5, SMT

\* The locks whose words say that CPU c holds them are the ones it owns.
LEMMA HeldOwned ==
  ASSUME SafeInv, NEW c \in CPUs
  PROVE  {l \in Locks : holding(c, l)} = Owns(on[c], stk[on[c]])
<1>1. Owns(on[c], stk[on[c]]) \subseteq Locks
  <2>1. stk[on[c]][1].at = "release" => stk[on[c]][1].x \in Locks
    <3>1. Top(c) = stk[on[c]][1]
      BY StackHere DEF SafeInv
    <3>2. Top(c).at = "release" => Top(c).at \in Sub
      BY DEF Sub, Rel
    <3> QED
      BY <3>1, <3>2, SubHere
  <2> QED
    BY <2>1, SMT DEF Owns, Held
<1> QED
  BY <1>1 DEF SafeInv, LockInv

\* Interrupts are off in a trap handler and in usertrap()'s entry, and on in a
\* process outside the kernel.
LEMMA InterruptsHere ==
  ASSUME SafeInv, NEW c \in CPUs
  PROVE  /\ intr[c] => noff[c] = 0
         /\ Top(c).at \in {"trap", "tkilled", "tyield", "tret", "entry", "syscall", "scan"} =>
              ~intr[c]
         /\ Top(c).at \in {"user", "return"} => intr[c]
<1>1. intr[c] => noff[c] = 0
  <2>1. CASE Top(c).at \in Sub
    BY <2>1, SubHere DEF Fits
  <2>2. CASE Top(c).at \notin Sub
    BY <2>2, Here
  <2> QED
    BY <2>1, <2>2, SMT
<1>2. ASSUME Top(c).at \in {"trap", "tkilled", "tyield", "tret", "entry", "syscall", "scan"}
      PROVE  ~intr[c]
  <2>1. Top(c).at \notin Sub /\ Top(c).at \in IntrOff
    BY <1>2, SMT DEF Sub, Acq, Rel, IntrOff, IntrOn, TrapCode, ProcCode, IdleCode
  <2> QED
    BY <2>1, Here DEF Agrees
<1>3. ASSUME Top(c).at \in {"user", "return"}
      PROVE  intr[c]
  <2>1. Top(c).at \notin Sub /\ Top(c).at \in IntrOn /\ Count(Top(c)) = 0
    BY <1>3 DEF Sub, Acq, Rel, IntrOn, Count, Two, TickHeld, OwnHeld, ItsHeld
  <2> QED
    BY <2>1, Here DEF Agrees
<1> QED
  BY <1>1, <1>2, <1>3

\* No panic() is reached on CPU c.
LEMMA NoPanicHere ==
  ASSUME SafeInv, NEW c \in CPUs
  PROVE  /\ Top(c).at = "spin" => ~holding(c, Top(c).x)
         /\ Top(c).at = "release" => holding(c, Top(c).x)
         /\ Top(c).at = "pop" => ~intr[c] /\ noff[c] >= 1
         /\ Top(c).at \in {"sched", "yield"} => holding(c, on[c]) /\ noff[c] = 1 /\ ~intr[c]
         /\ Top(c).at = "trap" => ~intr[c]
<1> DEFINE s == stk[on[c]]
<1>1. \A l \in Locks : holding(c, l) <=> l \in Owns(on[c], s)
  BY DEF SafeInv, LockInv
<1>2. Top(c).at \in Sub =>
        Top(c) = s[1] /\ Top(c).x \in Locks /\ Fits(s, noff[c], intr[c], intena[c])
  BY SubHere
<1>3. Count(Code1(s)) \in 0 .. 2
  BY CountRange
<1> HIDE DEF s
<1>4. Top(c).at = "spin" => ~holding(c, Top(c).x)
  BY <1>1, <1>2, SMT DEF Owns, Sub, Acq
<1>5. Top(c).at = "release" => holding(c, Top(c).x)
  BY <1>1, <1>2 DEF Owns, Sub, Acq, Rel
<1>6. Top(c).at = "pop" => ~intr[c] /\ noff[c] >= 1
  BY <1>2, <1>3, SMT DEF Fits, Sub, Rel
<1>7. ASSUME Top(c).at \in {"sched", "yield"}
      PROVE  holding(c, on[c]) /\ noff[c] = 1 /\ ~intr[c]
  <2>1. /\ Top(c).at \notin Sub /\ Top(c).at \in OwnHeld /\ Count(Top(c)) = 1
        /\ Top(c).at \notin Acq /\ Top(c).at # "release"
    BY <1>7 DEF Sub, Acq, Rel, Count, Two, TickHeld, OwnHeld, ItsHeld
  <2>2. noff[c] = 1 /\ ~intr[c] /\ on[c] \in Procs /\ Top(c) = s[1]
    BY <2>1, Here, SMT DEF FrameOK, Top, s
  <2>3. Code1(s) = Top(c) /\ Owns(on[c], s) = Held(on[c], Top(c))
    BY <2>1, <2>2 DEF Owns, Code1
  <2>4. on[c] \in Locks /\ on[c] \in Held(on[c], Top(c))
    BY <2>1, <2>2, Names, SMT DEF Held
  <2> QED
    BY <1>1, <2>2, <2>3, <2>4
<1> QED
  BY <1>4, <1>5, <1>6, <1>7, InterruptsHere, SMT

\* A CPU that spins and holds a lock holds tickslock and spins on another one:
\* tickslock is taken first.
LEMMA SpinOrder ==
  ASSUME SafeInv, NEW c \in CPUs, At(c, "spin"), NEW y \in Locks, holding(c, y)
  PROVE  y = tickslock /\ Top(c).x # tickslock
<1> DEFINE s == stk[on[c]]
           k == on[c]
           g == Code1(s)
<1>1. Top(c) = s[1] /\ s[1].at = "spin" /\ CallOK(k, s[1], g) /\ FrameOK(k, g)
  BY SubHere, CodeFrame DEF At, Sub, Acq
<1>2. y \in Owns(k, s)
  BY DEF SafeInv, LockInv
<1> HIDE DEF s, k, g
<1>3. y \in Held(k, g) /\ y # s[1].x /\ s[1].x \in Held(k, g)
  BY <1>1, <1>2 DEF Owns, CallOK, Acq, g
<1>4. g.at \in Two
  BY <1>3, SMT DEF Held, Two, TickHeld, OwnHeld, ItsHeld
<1>5. s[1].x # tickslock
  BY <1>1, <1>4 DEF CallOK, Acq
<1>6. CASE g.at \in {"killed1", "sleep1"}
  <2>1. s[1].x = k
    BY <1>3, <1>5, <1>6, SMT DEF Held, ItsHeld
  <2> QED
    BY <1>1, <1>3, <1>5, <1>6, <2>1 DEF Held, ItsHeld
<1>7. CASE g.at = "wakeup"
  <2>1. s[1].x = g.x
    BY <1>3, <1>5, <1>7, SMT DEF Held, OwnHeld
  <2> QED
    BY <1>1, <1>3, <1>5, <1>7, <2>1 DEF Held, OwnHeld
<1> QED
  BY <1>4, <1>6, <1>7 DEF Two
-----------------------------------------------------------------------------
(* Jumps.                                                                  *)

\* A running frame that goes on at another label is still on top of its callers.
LEMMA JumpTop ==
  ASSUME NEW s \in Seq(Frames), s # << >>, NEW l \in Labels, NEW x \in 0 .. NPROC + 1,
         NEW b \in BOOLEAN
  PROVE  LET t == [s EXCEPT ![1] = [at |-> l, x |-> x, old |-> b]]
         IN  /\ t \in Seq(Frames) /\ Len(t) = Len(s)
             /\ t[1] = [at |-> l, x |-> x, old |-> b] /\ Tail(t) = Tail(s)
             /\ Len(s) >= 2 => t[2] = s[2]
<1> DEFINE f == [at |-> l, x |-> x, old |-> b]
           t == [s EXCEPT ![1] = f]
<1>1. f \in Frames
  BY DEF Frames
<1> HIDE DEF f
<1>2. t \in Seq(Frames) /\ Len(t) = Len(s) /\ t[1] = f
  BY <1>1, SMT
<1>3. Tail(t) = Tail(s)
  BY <1>2, SMT
<1>4. Len(s) >= 2 => t[2] = s[2]
  BY <1>2, SMT
<1> QED
  BY <1>2, <1>3, <1>4 DEF f

\* Code at f may go on at g in the same function.
Follows(k, f, g) ==
  /\ FrameOK(k, g)
  /\ g.at \in TrapCode <=> f.at \in TrapCode
  /\ g.at \in Outer(k) <=> f.at \in Outer(k)
  /\ f.at \notin Sub /\ g.at \notin Sub

\* Code at f may go on at g and hold the locks it held.
Moves(k, f, g) == Follows(k, f, g) /\ Held(k, g) = Held(k, f) /\ Count(g) = Count(f)

\* A stack after such a step.
Moved(k, s, g, t) == Stack(k, t) /\ t[1] = g /\ Code1(t) = g /\ Owns(k, t) = Owns(k, s)

\* Going on without a call leaves such a stack.
LEMMA JumpStack ==
  ASSUME NEW k, NEW s, Stack(k, s), NEW g, g.old = s[1].old, Moves(k, s[1], g),
         NEW t, t = [s EXCEPT ![1] = g]
  PROVE  Moved(k, s, g, t)
<1> DEFINE f == s[1]
<1>1. Follows(k, f, g) /\ g \in Frames /\ f.at \notin Sub /\ g.at \notin Sub
  BY DEF Moves, Follows, FrameOK
<1>2. Code(k, s) /\ s # << >> /\ s \in Seq(Frames)
  BY <1>1, SMT DEF Follows, Stack, Code
<1>3. t \in Seq(Frames) /\ Len(t) = Len(s) /\ t[1] = g /\ Tail(t) = Tail(s)
  BY <1>1, <1>2, JumpTop, SMT
<1> HIDE DEF f
<1>4. Stack(k, t)
  BY <1>1, <1>2, <1>3 DEF Stack, Code, Follows, f
<1>5. Code1(t) = g /\ Code1(s) = f
  BY <1>1, <1>3 DEF Code1, f
<1>6. f.at \notin Acq /\ g.at \notin Acq /\ f.at # "release" /\ g.at # "release"
  BY <1>1 DEF Sub, Rel
<1>7. Owns(k, t) = Owns(k, s)
  BY <1>3, <1>5, <1>6 DEF Owns, Moves, f
<1> QED
  BY <1>3, <1>4, <1>5, <1>7 DEF Moved

\* The interrupt state and intena that code at g needs.
Settled(g, i, e) == IF Count(g) = 0 THEN Agrees(i, g) ELSE ~i /\ Agrees(e, g)

\* Then noff, the interrupt state and intena suit the code on top.
LEMMA CodeFits ==
  ASSUME NEW t, NEW g, t[1] = g, Code1(t) = g, g.at \notin Sub, NEW i, NEW e, Settled(g, i, e)
  PROVE  Fits(t, Count(g), i, e)
BY DEF Fits, Settled, Sub, Acq, Rel

\* Jump() replaces the frame on top.
GoesTo(f, l, x) == [f EXCEPT !.at = l, !.x = x]

\* The new frame is a frame, and returns where the old one does.
LEMMA JumpFrame ==
  ASSUME NEW f \in Frames, NEW l \in Labels, NEW x \in 0 .. NPROC + 1
  PROVE  /\ GoesTo(f, l, x) \in Frames /\ GoesTo(f, l, x).at = l /\ GoesTo(f, l, x).x = x
         /\ GoesTo(f, l, x).old = f.old
BY DEF Frames, GoesTo

\* Jump() changes nothing but the top of the stack of the CPU.
LEMMA JumpIs ==
  ASSUME Types, StackInv, NEW c \in CPUs, NEW l, NEW x, Jump(c, l, x)
  PROVE  stk' = [stk EXCEPT ![on[c]] = [stk[on[c]] EXCEPT ![1] = GoesTo(Top(c), l, x)]]
<1> DEFINE k == on[c]
           s == stk[k]
<1>1. k \in DOMAIN stk /\ s \in Seq(Frames) /\ s # << >> /\ Top(c) = s[1]
  BY StackHere
<1>2. 1 \in DOMAIN s
  BY <1>1, SMT
<1> QED
  BY <1>1, <1>2 DEF Jump, GoesTo
-----------------------------------------------------------------------------
(* Switches.                                                               *)

\* A process runs the code of a process.
LEMMA ProcHere ==
  ASSUME SafeInv, NEW c \in CPUs, Top(c).at \in ProcCode \cup {"tkilled", "tkilled1", "yield"}
  PROVE  on[c] \in Procs
<1>1. Top(c).at \notin Sub
  BY DEF ProcCode, Sub, Acq, Rel
<1>2. FrameOK(on[c], Top(c)) /\ Top(c).at \in TrapCode \cup Outer(on[c])
  BY <1>1, Here
<1> QED
  BY <1>2 DEF FrameOK, OwnHeld, Outer, ProcCode, TrapCode, IdleCode

\* sched() switches to the scheduler of the CPU, with only p->lock held.
LEMMA SchedSteps ==
  ASSUME SafeInv, NEW c \in CPUs, sleep_sched(c) \/ yield_sched(c)
  PROVE  StackInv' /\ RunInv' /\ CpuInv' /\ LockInv'
<1> DEFINE k == on[c]
           s == stk[k]
           f == Top(c)
<1>1. PICK st \in {"SLEEPING", "RUNNABLE"}, l \in {"slept", "yielded"} :
        /\ sched(c, st, l) /\ f.at = (IF l = "slept" THEN "sched" ELSE "yield")
  BY DEF sleep_sched, yield_sched, At
<1>2. f.at \notin Sub /\ f.at \in OwnHeld /\ f.at \notin TickHeld \cup ItsHeld \cup Two
  BY <1>1 DEF Sub, Acq, Rel, OwnHeld, TickHeld, ItsHeld, Two
<1>3. k \in Procs
  BY <1>1, ProcHere DEF ProcCode
<1>4. /\ Stack(k, s) /\ f = s[1] /\ f \in Frames /\ FrameOK(k, f)
      /\ f.at \in TrapCode \cup Outer(k)
      /\ noff[c] = 1 /\ ~intr[c] /\ Agrees(intena[c], f)
  <2>1. Count(f) = 1
    BY <1>2 DEF Count
  <2>2. Stack(k, s) /\ f = s[1] /\ f \in Frames
    BY StackHere DEF SafeInv
  <2>3. /\ FrameOK(k, f) /\ f.at \in TrapCode \cup Outer(k) /\ noff[c] = Count(f)
        /\ IF noff[c] = 0 THEN Agrees(intr[c], f) ELSE ~intr[c] /\ Agrees(intena[c], f)
    BY <1>2, Here
  <2> QED
    BY <2>1, <2>2, <2>3, SMT
<1>5. state[k] = "RUNNING" /\ Len(stk[c]) = 1 /\ stk[c][1].at = "back" /\ stk[c][1].x = k
  BY <1>3 DEF SafeInv, RunInv
<1> DEFINE g == GoesTo(f, l, 0)
           t == [s EXCEPT ![1] = g]
<1>6. /\ l \in Labels /\ 0 \in 0 .. NPROC + 1 /\ Jump(c, l, 0) /\ on' = [on EXCEPT ![c] = c]
      /\ saved' = [saved EXCEPT ![k] = intena[c]] /\ state' = [state EXCEPT ![k] = st]
      /\ UNCHANGED <<locked, lkcpu, noff, intena, intr>>
  BY <1>1, SpinlockAssumption, SMT DEF sched, Labels, lks, cpu
<1>7. g \in Frames /\ g.at = l /\ g.x = 0 /\ g.old = f.old
  BY <1>4, <1>6, JumpFrame, SMT
<1>8. stk' = [stk EXCEPT ![k] = t]
  BY <1>6, JumpIs, SMT DEF SafeInv
<1>9. Moves(k, f, g)
  <2> HIDE DEF g, f
  <2>1. Follows(k, f, g)
    BY <1>1, <1>3, <1>4, <1>7 DEF Follows, FrameOK, Sub, Acq, Rel, TrapCode, ProcCode, Outer,
                                  ItsHeld
  <2>2. Held(k, g) = Held(k, f) /\ Count(g) = Count(f)
    BY <1>1, <1>7 DEF Held, Count, Two, TickHeld, OwnHeld, ItsHeld
  <2> QED
    BY <2>1, <2>2 DEF Moves
<1>10. Moved(k, s, g, t)
  BY <1>4, <1>7, <1>9, JumpStack
<1> HIDE DEF g, t
<1>11. Stack(k, t) /\ t[1] = g /\ Code1(t) = g /\ Owns(k, t) = Owns(k, s)
  BY <1>10 DEF Moved
<1>12. /\ stk'[k] = t /\ (\A m \in Contexts \ {k} : stk'[m] = stk[m]) /\ DOMAIN stk' = Contexts
       /\ on'[c] = c /\ \A d \in CPUs \ {c} : on'[d] = on[d] /\ on[d] # k /\ on[d] # c
  BY <1>3, <1>6, <1>8, Names, SMT DEF SafeInv, Types, StackInv, RunInv
<1>13. StackInv'
  BY <1>11, <1>12 DEF StackInv, SafeInv
<1>14. l = "slept" => Len(t) = 1
  <2>1. l = "slept" => Len(s) = 1
    BY <1>1, <1>2, <1>4 DEF Stack, Code, TrapCode
  <2>2. s \in Seq(Frames)
    BY <1>4 DEF Stack
  <2> QED
    BY <2>1, <2>2, SMT DEF t
<1>15. saved'[k] = (l = "slept")
  BY <1>1, <1>3, <1>4, <1>6, SMT DEF Agrees, IntrOn, IntrOff, TrapCode, SafeInv, Types
<1>16. Code1(stk[c]) = stk[c][1] /\ stk'[c] = stk[c] /\ c # k /\ c \in Contexts
  BY <1>3, <1>5, <1>12, Names DEF Code1, Sub, Acq, Rel
<1>17. RunInv'
  <2>1. \A d \in CPUs : on'[d] \in Procs =>
          /\ state'[on'[d]] = "RUNNING"
          /\ Len(stk'[d]) = 1 /\ stk'[d][1].at = "back" /\ stk'[d][1].x = on'[d]
    BY <1>3, <1>6, <1>12, Names, SMT DEF SafeInv, RunInv, Types
  <2>2. /\ \A d \in CPUs : on'[d] \in CPUs => on'[d] = d
        /\ \A d, e \in CPUs : on'[d] = on'[e] => d = e
    BY <1>12, SMT DEF SafeInv, RunInv
  <2>3. \/ Len(stk'[k]) = 1 /\ stk'[k][1].at = "slept" /\ saved'[k]
        \/ stk'[k][1].at = "yielded" /\ ~saved'[k]
    BY <1>1, <1>7, <1>11, <1>12, <1>14, <1>15
  <2>4. \A p \in Procs : (\A d \in CPUs : on'[d] # p) => Parked(p)'
    <3> SUFFICES ASSUME NEW p \in Procs, \A d \in CPUs : on'[d] # p, p # k
                 PROVE  Parked(p)'
      BY <2>3 DEF Parked
    <3>1. \A d \in CPUs : on[d] # p
      BY <1>12
    <3>2. Parked(p)
      BY <3>1 DEF SafeInv, RunInv
    <3>3. stk'[p] = stk[p] /\ saved'[p] = saved[p]
      BY <1>6, <1>12, Names DEF SafeInv, Types
    <3> QED
      BY <3>2, <3>3 DEF Parked
  <2>5. \A d \in CPUs :
          /\ Code1(stk'[on'[d]]).at = "yielded" => ~saved'[on'[d]]
          /\ Code1(stk'[on'[d]]).at = "slept" => saved'[on'[d]]
          /\ Code1(stk'[on'[d]]).at \in {"tick", "wake", "wakeup"} => d = Cpu0
    <3>1. Code1(stk'[on'[c]]).at = "back"
      BY <1>5, <1>12, <1>16
    <3>2. \A d \in CPUs \ {c} : stk'[on'[d]] = stk[on[d]] /\ saved'[on'[d]] = saved[on[d]]
      BY <1>6, <1>12, SMT DEF SafeInv, Types
    <3> QED
      BY <3>1, <3>2, SMT DEF SafeInv, RunInv
  <2> QED
    BY <2>1, <2>2, <2>4, <2>5 DEF RunInv
<1>18. CpuInv'
  <2>1. Fits(stk[c], 1, intr[c], intena[c])
    BY <1>4, <1>5, <1>16 DEF Fits, Count, Two, TickHeld, OwnHeld, ItsHeld, Agrees, IntrOn, IntrOff,
                             Rel
  <2>2. \A d \in CPUs \ {c} : stk'[on'[d]] = stk[on[d]]
    BY <1>12 DEF SafeInv, Types
  <2> QED
    BY <1>4, <1>6, <1>12, <1>16, <2>1, <2>2 DEF CpuInv, SafeInv
<1>19. LockInv'
  <2>1. Owns(c, stk[c]) = {k}
    BY <1>3, <1>5, <1>16, Names DEF Owns, Held, Acq, TickHeld, Two, OwnHeld, ItsHeld
  <2>2. Owns(k, s) = {k}
    <3>1. Owns(k, s) = Held(k, f)
      BY <1>2, <1>4, SMT DEF Owns, Code1, Sub, Rel
    <3> QED
      BY <1>2, <1>3, <3>1, Names DEF Held
  <2>3. \A d \in CPUs : Owns(on'[d], stk'[on'[d]]) = Owns(on[d], stk[on[d]])
    BY <1>12, <1>16, <2>1, <2>2 DEF SafeInv, Types
  <2>4. \A d \in CPUs, y \in Locks : Between(stk'[on'[d]], y) => d # c /\ Between(stk[on[d]], y)
    BY <1>5, <1>12, <1>16, SMT DEF Between, SafeInv, Types
  <2> QED
    BY <1>6, <2>3, <2>4 DEF LockInv, SafeInv, holding
<1> QED
  BY <1>13, <1>17, <1>18, <1>19

\* scheduler() switches to a process that waits in sched(), or is new, with only
\* its lock held.
LEMMA SwtchStep ==
  ASSUME SafeInv, NEW c \in CPUs, scheduler_swtch(c)
  PROVE  StackInv' /\ RunInv' /\ CpuInv' /\ LockInv'
<1> DEFINE k == on[c]
           s == stk[k]
           f == Top(c)
           q == f.x
           g == GoesTo(f, "back", q)
           t == [s EXCEPT ![1] = g]
<1>1. /\ f.at = "try" /\ state[q] = "RUNNABLE" /\ state' = [state EXCEPT ![q] = "RUNNING"]
      /\ on' = [on EXCEPT ![c] = q] /\ Jump(c, "back", q)
      /\ UNCHANGED <<locked, lkcpu, noff, intena, intr, saved>>
  BY DEF scheduler_swtch, At, lks, cpu
<1>2. f.at \notin Sub /\ f.at \in ItsHeld /\ f.at \notin TickHeld \cup OwnHeld \cup Two
  BY <1>1 DEF Sub, Acq, Rel, OwnHeld, TickHeld, ItsHeld, Two
<1>3. /\ Stack(k, s) /\ f = s[1] /\ f \in Frames /\ FrameOK(k, f) /\ k \in Contexts
      /\ k \in Procs \/ k = c
      /\ f.at \in TrapCode \cup Outer(k) /\ noff[c] = 1 /\ ~intr[c] /\ Agrees(intena[c], f)
  <2>1. Count(f) = 1
    BY <1>2 DEF Count
  <2>2. Stack(k, s) /\ f = s[1] /\ f \in Frames
    BY StackHere DEF SafeInv
  <2>3. /\ FrameOK(k, f) /\ f.at \in TrapCode \cup Outer(k) /\ noff[c] = Count(f)
        /\ k \in Contexts /\ (k \in Procs \/ k = c)
        /\ IF noff[c] = 0 THEN Agrees(intr[c], f) ELSE ~intr[c] /\ Agrees(intena[c], f)
    BY <1>2, Here
  <2> QED
    BY <2>1, <2>2, <2>3, SMT
<1>4. q \in Procs /\ k = c
  BY <1>1, <1>2, <1>3 DEF FrameOK, Outer, TrapCode, ProcCode
<1>5. q # k /\ c \notin Procs
  BY <1>4, Names
<1>6. \A d \in CPUs : on[d] # q
  BY <1>1, <1>4 DEF SafeInv, RunInv
<1>7. Parked(q)
  BY <1>4, <1>6 DEF SafeInv, RunInv
<1>8. "back" \in Labels /\ q \in 0 .. NPROC + 1
  BY <1>3 DEF Labels, Frames
<1>9. g \in Frames /\ g.at = "back" /\ g.x = q /\ g.old = f.old
  BY <1>3, <1>8, JumpFrame, SMT
<1>10. stk' = [stk EXCEPT ![k] = t]
  BY <1>1, JumpIs, SMT DEF SafeInv
<1>11. Moves(k, f, g)
  <2> HIDE DEF g, f
  <2>1. Follows(k, f, g)
    BY <1>1, <1>3, <1>4, <1>5, <1>9 DEF Follows, FrameOK, Sub, Acq, Rel, TrapCode, IdleCode, Outer,
                                        OwnHeld
  <2>2. Held(k, g) = Held(k, f) /\ Count(g) = Count(f)
    BY <1>1, <1>9 DEF Held, Count, Two, TickHeld, OwnHeld, ItsHeld
  <2> QED
    BY <2>1, <2>2 DEF Moves
<1>12. Moved(k, s, g, t)
  BY <1>3, <1>9, <1>11, JumpStack
<1>13. Len(s) = 1 /\ s \in Seq(Frames)
  BY <1>1, <1>2, <1>3 DEF Stack, Code, TrapCode
<1>14. Len(t) = 1
  BY <1>13, SMT
<1> HIDE DEF g, t
<1>15. Stack(k, t) /\ t[1] = g /\ Code1(t) = g
  BY <1>12 DEF Moved
<1>16. /\ stk'[k] = t /\ (\A m \in Contexts \ {k} : stk'[m] = stk[m]) /\ DOMAIN stk' = Contexts
       /\ on'[c] = q /\ \A d \in CPUs \ {c} : on'[d] = on[d] /\ on[d] # k
       /\ stk'[q] = stk[q] /\ q \in Contexts
  BY <1>1, <1>3, <1>4, <1>5, <1>10, Names, SMTT(30) DEF SafeInv, Types, StackInv, RunInv
<1>17. StackInv'
  BY <1>15, <1>16 DEF StackInv, SafeInv
<1>18. /\ stk[q][1].at \in {"slept", "forkret", "yielded"} /\ Code1(stk[q]) = stk[q][1]
       /\ (stk[q][1].at = "yielded" => ~saved[q]) /\ (stk[q][1].at = "slept" => saved[q])
  <2>1. /\ stk[q][1].at \in {"slept", "forkret", "yielded"}
        /\ (stk[q][1].at = "yielded" => ~saved[q]) /\ (stk[q][1].at = "slept" => saved[q])
    BY <1>7 DEF Parked
  <2> QED
    BY <2>1 DEF Code1, Sub, Acq, Rel
<1>19. \A d \in CPUs \ {c} : stk'[on'[d]] = stk[on[d]]
  BY <1>16 DEF SafeInv, Types
<1>20. RunInv'
  <2>1. \A d \in CPUs : on'[d] \in Procs =>
          /\ state'[on'[d]] = "RUNNING"
          /\ Len(stk'[d]) = 1 /\ stk'[d][1].at = "back" /\ stk'[d][1].x = on'[d]
    <3>1. state'[q] = "RUNNING" /\ \A p \in Procs \ {q} : state'[p] = state[p]
      BY <1>1, <1>4 DEF SafeInv, Types
    <3>2. \A d \in CPUs \ {c} : stk'[d] = stk[d]
      BY <1>4, <1>16, Names, SMT
    <3> QED
      BY <1>4, <1>6, <1>9, <1>14, <1>15, <1>16, <3>1, <3>2, SMTT(30) DEF SafeInv, RunInv
  <2>2. /\ \A d \in CPUs : on'[d] \in CPUs => on'[d] = d
        /\ \A d, e \in CPUs : on'[d] = on'[e] => d = e
    BY <1>4, <1>6, <1>16, Names, SMT DEF SafeInv, RunInv
  <2>3. \A p \in Procs : (\A d \in CPUs : on'[d] # p) => Parked(p)'
    <3> SUFFICES ASSUME NEW p \in Procs, \A d \in CPUs : on'[d] # p
                 PROVE  Parked(p)'
      OBVIOUS
    <3>1. \A d \in CPUs : on[d] # p
      BY <1>4, <1>5, <1>16, SMT
    <3>2. Parked(p)
      BY <3>1 DEF SafeInv, RunInv
    <3>3. stk'[p] = stk[p] /\ saved'[p] = saved[p]
      BY <1>1, <1>4, <1>5, <1>16, Names
    <3> QED
      BY <3>2, <3>3 DEF Parked
  <2>4. \A d \in CPUs :
          /\ Code1(stk'[on'[d]]).at = "yielded" => ~saved'[on'[d]]
          /\ Code1(stk'[on'[d]]).at = "slept" => saved'[on'[d]]
          /\ Code1(stk'[on'[d]]).at \in {"tick", "wake", "wakeup"} => d = Cpu0
    BY <1>1, <1>16, <1>18, <1>19, SMTT(30) DEF SafeInv, RunInv
  <2> QED
    BY <2>1, <2>2, <2>3, <2>4 DEF RunInv
<1>21. CpuInv'
  <2>1. Fits(stk[q], 1, intr[c], intena[c])
    <3>1. ~intena[c]
      BY <1>1, <1>3 DEF Agrees, IntrOff, IntrOn, IdleCode
    <3>2. Count(stk[q][1]) = 1 /\ Agrees(intena[c], stk[q][1])
      BY <1>18, <3>1 DEF Count, Two, TickHeld, OwnHeld, Agrees, IntrOn
    <3>3. stk[q][1].at \notin Sub
      BY <1>18 DEF Sub, Acq, Rel
    <3>4. Settled(stk[q][1], intr[c], intena[c])
      BY <1>3, <3>2, SMTT(30) DEF Settled
    <3>5. Fits(stk[q], Count(stk[q][1]), intr[c], intena[c])
      BY <1>18, <3>3, <3>4, CodeFits
    <3> QED
      BY <3>2, <3>5
  <2> QED
    <3>1. UNCHANGED <<noff, intr, intena>> /\ noff[c] = 1 /\ stk'[on'[c]] = stk[q]
      BY <1>1, <1>3, <1>16
    <3>2. \A d \in CPUs \ {c} : Fits(stk'[on'[d]], noff'[d], intr'[d], intena'[d])
      BY <1>19, <3>1 DEF CpuInv, SafeInv
    <3> QED
      BY <2>1, <3>1, <3>2 DEF CpuInv
<1>22. LockInv'
  <2>1. Owns(k, s) = {q}
    <3>1. Owns(k, s) = Held(k, f)
      BY <1>2, <1>3 DEF Owns, Code1, Sub, Rel
    <3> QED
      BY <1>2, <1>4, <3>1, Names, SMT DEF Held
  <2>2. Owns(q, stk[q]) = {q}
    BY <1>4, <1>18, Names DEF Owns, Held, Acq, TickHeld, Two, OwnHeld, ItsHeld
  <2>3. \A d \in CPUs : Owns(on'[d], stk'[on'[d]]) = Owns(on[d], stk[on[d]])
    BY <1>16, <1>19, <2>1, <2>2
  <2>4. \A d \in CPUs, y \in Locks : Between(stk'[on'[d]], y) => d # c /\ Between(stk[on[d]], y)
    BY <1>16, <1>18, <1>19, SMT DEF Between
  <2> QED
    BY <1>1, <2>3, <2>4 DEF LockInv, SafeInv, holding
<1> QED
  BY <1>17, <1>20, <1>21, <1>22
-----------------------------------------------------------------------------
(* Interrupts.                                                             *)

\* An interrupt covers what runs.
LEMMA PushTop ==
  ASSUME NEW s \in Seq(Frames), s # << >>, NEW f \in Frames
  PROVE  LET t == <<f>> \o s
         IN  /\ t \in Seq(Frames) /\ Len(t) = Len(s) + 1 /\ t[1] = f /\ Tail(t) = s
             /\ t[2] = s[1]
BY SMT

\* Such a step keeps every stack in order, if it does its own.
LEMMA RunStep ==
  ASSUME Types, StackInv, RunInv, NEW c \in CPUs, NEW t,
         stk' = [stk EXCEPT ![on[c]] = t], on' = on, saved' = saved,
         \A p \in Procs : state[p] = "RUNNING" => state'[p] = "RUNNING",
         Stack(on[c], t), Code1(t).at = "slept" => saved[on[c]],
         Code1(t).at = "yielded" => ~saved[on[c]],
         Code1(t).at \in {"tick", "wake", "wakeup"} => c = Cpu0
  PROVE  StackInv' /\ RunInv'
<1>1. /\ on[c] \in Contexts /\ stk'[on[c]] = t /\ DOMAIN stk' = Contexts
      /\ \A k \in Contexts \ {on[c]} : stk'[k] = stk[k]
      /\ \A d \in CPUs \ {c} : on[d] \in Contexts /\ stk'[on[d]] = stk[on[d]]
  BY Elsewhere
<1>2. StackInv'
  BY <1>1 DEF StackInv
<1>3. RunInv'
  BY <1>1, Names, SMT DEF RunInv, Parked, Types
<1> QED
  BY <1>2, <1>3

\* It keeps noff, intena and the interrupt state of every CPU, if it does its own.
LEMMA CpuStep ==
  ASSUME Types, StackInv, RunInv, CpuInv, NEW c \in CPUs, NEW t,
         stk' = [stk EXCEPT ![on[c]] = t], on' = on,
         \A d \in CPUs \ {c} : noff'[d] = noff[d] /\ intr'[d] = intr[d] /\ intena'[d] = intena[d],
         Fits(t, noff'[c], intr'[c], intena'[c])
  PROVE  CpuInv'
BY Elsewhere, ZenonT(30) DEF CpuInv

\* It keeps the locks, if it leaves the lock words alone and its context holds
\* the locks it held.
LEMMA LockStep ==
  ASSUME Types, StackInv, RunInv, LockInv, NEW c \in CPUs, NEW t,
         stk' = [stk EXCEPT ![on[c]] = t], on' = on, UNCHANGED <<locked, lkcpu>>,
         t[1].at \notin {"mark", "unlock"}, Owns(on[c], t) = Owns(on[c], stk[on[c]])
  PROVE  LockInv'
<1>1. /\ stk'[on'[c]] = t /\ \A d \in CPUs \ {c} : stk'[on'[d]] = stk[on[d]]
  BY Elsewhere
<1>2. \A d \in CPUs : Owns(on'[d], stk'[on'[d]]) = Owns(on[d], stk[on[d]])
  BY <1>1
<1>3. \A d \in CPUs, l \in Locks : Between(stk'[on'[d]], l) => d # c /\ Between(stk[on[d]], l)
  BY <1>1 DEF Between
<1> QED
  BY <1>2, <1>3 DEF LockInv, holding

\* A stack whose CPU has interrupts on is one that an interrupt may find, and
\* holds no lock.
LEMMA OnInterrupted ==
  ASSUME NEW k \in Contexts, NEW s, Stack(k, s), NEW n, NEW e, Fits(s, n, TRUE, e)
  PROVE  Interrupted(k, s) /\ n = 0 /\ Len(s) \in 1 .. 2 /\ Owns(k, s) = {}
<1> DEFINE f == Code1(s)
<1>1. /\ s[1].at \notin {"spin", "mark"} \cup Rel /\ n = 0 /\ Agrees(TRUE, f)
      /\ s[1].at = "push" => s[1].old = TRUE
  BY DEF Fits
<1>2. f.at \notin IntrOff
  BY <1>1 DEF Agrees
<1>3. CASE s[1].at \in Sub
  <2>1. s[1].at \in {"acquire", "push"} /\ s[1].at \in Acq /\ s[1].at \notin Rel /\ f = s[2]
    BY <1>1, <1>3 DEF Sub, Acq, Rel, Code1
  <2>2. SubOff(k, s, Tail(s)) /\ s \in Seq(Frames)
    BY <1>3, SubReturn DEF Stack
  <2>3. CallOK(k, s[1], f) /\ Code1(Tail(s)) = f /\ Tail(s)[1] = f /\ f.at \notin Sub
    BY <2>1, <2>2 DEF SubOff
  <2>4. Len(s) \in 2 .. 4 /\ Code(k, Tail(s)) /\ Len(Tail(s)) = Len(s) - 1
    <3>1. ~Code(k, s)
      BY <1>3 DEF Code, Outer, Sub, Acq, Rel, TrapCode, ProcCode, IdleCode
    <3> QED
      BY <2>2, <3>1, PopTop, SMT DEF Stack
  <2>5. Count(f) = 1
    <3>1. 0 = Count(f) - 1
      BY <1>1, <2>1 DEF Fits
    <3> QED
      BY <3>1, CountRange, SMT
  <2>6. f.at \notin NoAcq
    BY <2>1, <2>3 DEF CallOK
  <2> HIDE DEF f
  <2>7. FrameOK(k, f) /\ f.at \in TrapCode \cup Outer(k)
    BY <2>3, <2>4 DEF Code
  <2>8. f.at \in IntrOn /\ f.at \in Outer(k) /\ f.at \notin TrapCode
    BY <1>2, <2>6, <2>7 DEF IntrOff, IntrOn, TrapCode, Outer, NoAcq
  <2>9. Len(s) = 2
    BY <2>3, <2>4, <2>8, SMT DEF Code
  <2>10. f.at \in {"start", "loop", "return1"}
    BY <2>5, <2>6, <2>8, SMT DEF IntrOn, NoAcq, Count, Two, TickHeld, OwnHeld, ItsHeld
  <2>11. Interrupted(k, s)
    BY <1>1, <2>1, <2>3, <2>7, <2>8, <2>9, <2>10 DEF Interrupted, f
  <2>12. Held(k, f) \ {s[1].x} = {}
    <3>1. s[1].x \in Held(k, f)
      BY <2>1, <2>3 DEF CallOK
    <3>2. f.at \notin ItsHeld /\ f.at \notin TickHeld \cap OwnHeld
      BY <2>10 DEF Two, TickHeld, OwnHeld, ItsHeld
    <3> QED
      BY <3>1, <3>2 DEF Held
  <2> QED
    BY <1>1, <2>1, <2>9, <2>11, <2>12, SMT DEF Owns, f
<1>4. CASE s[1].at \notin Sub
  <2>1. Code(k, s) /\ f = s[1] /\ Count(f) = 0 /\ s[1].at \notin {"acquire", "push"}
    BY <1>1, <1>4 DEF Stack, Code1, Fits, Sub, Acq, Rel
  <2> HIDE DEF f
  <2>2. f.at \notin TrapCode /\ f.at \in Outer(k) /\ Len(s) = 1 /\ FrameOK(k, f)
    BY <1>2, <2>1 DEF Code, IntrOff, IntrOn, TrapCode
  <2>3. f.at \in {"user", "return", "woken", "prepare", "idle", "open"}
    BY <1>2, <2>1, <2>2, SMT DEF IntrOff, IntrOn, Count, Two, TickHeld, OwnHeld, ItsHeld, Outer
  <2>4. Held(k, f) = {}
    BY <2>3 DEF Held, Two, TickHeld, OwnHeld, ItsHeld
  <2>5. Owns(k, s) = {}
    BY <1>4, <2>1, <2>4 DEF Owns, Sub, Rel, f
  <2> QED
    BY <1>1, <2>1, <2>2, <2>3, <2>5, SMT DEF Interrupted
<1> QED
  BY <1>3, <1>4

\* And the other way round: it can go on when the interrupt returns.
LEMMA InterruptedOn ==
  ASSUME NEW k \in Contexts, NEW s \in Seq(Frames), Interrupted(k, s), NEW e
  PROVE  /\ Stack(k, s) /\ Fits(s, 0, TRUE, e) /\ Owns(k, s) = {}
         /\ Code1(s).at \notin TrapCode \cup Deciding \cup {"sched", "slept"}
         /\ s[1].at \notin {"mark", "unlock"}
<1>1. CASE Len(s) = 1
  <2> DEFINE f == s[1]
  <2>1. /\ f.at \in {"user", "return", "woken", "prepare", "idle", "open"}
        /\ f.at \in Outer(k) /\ FrameOK(k, f)
    BY <1>1 DEF Interrupted
  <2>2. f.at \notin Sub /\ f.at \notin Rel /\ f.at \notin TrapCode /\ f.at \notin {"acquire", "push"}
    BY <2>1 DEF Sub, Acq, Rel, TrapCode
  <2> HIDE DEF f
  <2>3. Code1(s) = f
    BY <2>2 DEF Code1, f
  <2>4. Stack(k, s)
    BY <1>1, <2>1 DEF Stack, Code, f
  <2>5. Count(f) = 0 /\ Held(k, f) = {}
    BY <2>1 DEF Count, Held, Two, TickHeld, OwnHeld, ItsHeld
  <2>6. Agrees(TRUE, f)
    BY <2>1 DEF Agrees, IntrOff, IntrOn
  <2>7. Fits(s, 0, TRUE, e)
    BY <2>1, <2>2, <2>3, <2>5, <2>6 DEF Fits, f
  <2>8. Owns(k, s) = {}
    BY <2>2, <2>3, <2>5 DEF Owns, Sub, Rel, f
  <2> QED
    BY <2>1, <2>2, <2>3, <2>4, <2>7, <2>8 DEF f, Deciding
<1>2. CASE Len(s) = 2
  <2> DEFINE f == s[2]
  <2>1. /\ FrameOK(k, f) /\ CallOK(k, s[1], f)
        /\ s[1].at \in {"acquire", "push"} /\ (s[1].at = "push" => s[1].old)
        /\ f.at \in Outer(k) /\ f.at \in {"start", "loop", "return1"}
    BY <1>2, SMT DEF Interrupted
  <2>2. s[1].at \in Sub /\ s[1].at \in Acq /\ s[1].at \notin Rel /\ s[1].at \notin {"spin", "mark"}
    BY <2>1 DEF Sub, Acq, Rel
  <2>3. Code1(s) = f
    BY <2>2 DEF Code1
  <2>4. Tail(s) \in Seq(Frames) /\ Len(Tail(s)) = 1 /\ Tail(s)[1] = f
    <3>1. Len(s) >= 2
      BY <1>2, SMT
    <3>2. Tail(s) \in Seq(Frames) /\ Len(Tail(s)) = Len(s) - 1 /\ Tail(s)[1] = f
      BY <3>1, PopTop
    <3>3. 2 - 1 = 1
      BY SMT
    <3> QED
      BY <1>2, <3>2, <3>3
  <2>5. s[1] \in Frames
    BY <2>1 DEF CallOK
  <2> HIDE DEF f
  <2>6. Code(k, Tail(s))
    BY <2>1, <2>4 DEF Code
  <2>7. Stack(k, s)
    BY <1>2, <2>1, <2>2, <2>6, SMT DEF Stack, f
  <2>8. Agrees(TRUE, f)
    BY <2>1 DEF Agrees, IntrOff, IntrOn
  <2>9. s[1].at = "push" => s[1].old = TRUE
    BY <2>1, <2>5 DEF Frames
  <2>10. Fits(s, 0, TRUE, e)
    <3>1. Count(f) - 1 = 0
      BY <2>1, SMT DEF Count, Two, TickHeld, OwnHeld
    <3> QED
      BY <2>1, <2>2, <2>3, <2>8, <2>9, <3>1 DEF Fits
  <2>11. Held(k, f) \ {s[1].x} = {}
    <3>1. s[1].x \in Held(k, f)
      BY <2>1, <2>2 DEF CallOK
    <3>2. f.at \notin ItsHeld /\ f.at \notin TickHeld \cap OwnHeld
      BY <2>1 DEF Two, TickHeld, OwnHeld, ItsHeld
    <3> QED
      BY <3>1, <3>2 DEF Held
  <2>12. Owns(k, s) = {}
    BY <2>2, <2>3, <2>11 DEF Owns
  <2>13. /\ f.at \notin TrapCode \cup Deciding \cup {"sched", "slept"}
         /\ s[1].at \notin {"mark", "unlock"}
    BY <2>1 DEF Deciding, TrapCode
  <2> QED
    BY <2>3, <2>7, <2>10, <2>12, <2>13
<1> QED
  BY <1>1, <1>2 DEF Interrupted

\* A timer interrupt, and its return.
LEMMA InterruptSteps ==
  ASSUME SafeInv, NEW c \in CPUs, interrupt(c) \/ kerneltrap_return(c)
  PROVE  StackInv' /\ RunInv' /\ CpuInv' /\ LockInv'
<1> DEFINE k == on[c]
           s == stk[k]
<1>1. /\ k \in Contexts /\ Stack(k, s) /\ s \in Seq(Frames) /\ s # << >> /\ Top(c) = s[1]
      /\ Fits(s, noff[c], intr[c], intena[c]) /\ intr[c] \in BOOLEAN
  BY StackHere DEF SafeInv, CpuInv, Types
<1>2. /\ UNCHANGED <<locked, lkcpu, noff, intena, on, saved, state>>
      /\ \A d \in CPUs \ {c} : noff'[d] = noff[d] /\ intr'[d] = intr[d] /\ intena'[d] = intena[d]
  BY DEF interrupt, kerneltrap_return, lks, SafeInv, Types
<1>3. SUFFICES \E t : /\ stk' = [stk EXCEPT ![k] = t]
                      /\ Stack(k, t) /\ Code1(t).at \notin {"slept", "yielded"}
                      /\ Code1(t).at \notin {"tick", "wake", "wakeup"}
                      /\ Fits(t, noff'[c], intr'[c], intena'[c])
                      /\ Owns(k, t) = Owns(k, s) /\ t[1].at \notin {"mark", "unlock"}
  <2>1. PICK t : /\ stk' = [stk EXCEPT ![k] = t]
                 /\ Stack(k, t) /\ Code1(t).at \notin {"slept", "yielded"}
                 /\ Code1(t).at \notin {"tick", "wake", "wakeup"}
                 /\ Fits(t, noff'[c], intr'[c], intena'[c])
                 /\ Owns(k, t) = Owns(k, s) /\ t[1].at \notin {"mark", "unlock"}
    BY <1>3
  <2>2. \A p \in Procs : state[p] = "RUNNING" => state'[p] = "RUNNING"
    BY <1>2
  <2>3. /\ Code1(t).at = "slept" => saved[k]
        /\ Code1(t).at = "yielded" => ~saved[k]
        /\ Code1(t).at \in {"tick", "wake", "wakeup"} => c = Cpu0
    BY <2>1
  <2>4. StackInv' /\ RunInv'
    BY <1>2, <2>1, <2>2, <2>3, RunStep DEF SafeInv
  <2>5. CpuInv'
    BY <1>2, <2>1, CpuStep DEF SafeInv
  <2>6. LockInv'
    BY <1>2, <2>1, LockStep DEF SafeInv
  <2> QED
    BY <2>4, <2>5, <2>6
<1>4. CASE interrupt(c)
  <2> DEFINE f == Frame("trap", 0)
             t == <<f>> \o s
  <2>1. stk' = [stk EXCEPT ![k] = t] /\ intr[c] = TRUE /\ intr'[c] = FALSE
    BY <1>1, <1>4 DEF interrupt, SafeInv, Types
  <2>2. Interrupted(k, s) /\ noff[c] = 0 /\ Len(s) \in 1 .. 2 /\ Owns(k, s) = {}
    BY <1>1, <2>1, OnInterrupted, ZenonT(30)
  <2>3. f \in Frames /\ f.at = "trap"
    BY NewFrame, SpinlockAssumption, SMT DEF Labels
  <2> HIDE DEF f
  <2>4. t \in Seq(Frames) /\ Len(t) = Len(s) + 1 /\ t[1] = f /\ Tail(t) = s
    BY <1>1, <2>3, PushTop
  <2> HIDE DEF t
  <2>5. FrameOK(k, f) /\ f.at \notin Sub /\ f.at \in TrapCode
    BY <2>3 DEF FrameOK, OwnHeld, ItsHeld, Sub, Acq, Rel, TrapCode
  <2>6. Len(t) \in 2 .. 3
    <3>1. \A m \in 1 .. 2 : m + 1 \in 2 .. 3
      BY SMT
    <3> QED
      BY <2>2, <2>4, <3>1
  <2>7. Stack(k, t)
    BY <2>2, <2>4, <2>5, <2>6 DEF Stack, Code
  <2>8. Code1(t) = f
    BY <2>4, <2>5 DEF Code1
  <2>9. Count(f) = 0 /\ Held(k, f) = {}
    BY <2>3 DEF Count, Held, Two, TickHeld, OwnHeld, ItsHeld
  <2>10. Settled(f, FALSE, intena[c])
    BY <2>3, <2>9 DEF Settled, Agrees, IntrOn
  <2>11. Fits(t, 0, FALSE, intena[c])
    <3>1. Fits(t, Count(f), FALSE, intena[c])
      BY <2>4, <2>5, <2>8, <2>10, CodeFits
    <3> QED
      BY <2>9, <3>1
  <2>12. Owns(k, t) = {}
    BY <2>4, <2>5, <2>8, <2>9 DEF Owns, Sub, Rel
  <2> QED
    BY <1>2, <2>1, <2>2, <2>3, <2>4, <2>7, <2>8, <2>11, <2>12
<1>5. CASE kerneltrap_return(c)
  <2> DEFINE t == Tail(s)
  <2>1. stk' = [stk EXCEPT ![k] = t] /\ intr'[c] = TRUE /\ s[1].at = "tret"
    BY <1>1, <1>5 DEF kerneltrap_return, Pop, At, SafeInv, Types
  <2>2. Code(k, s) /\ Code1(s) = s[1] /\ s[1].at \notin Sub
    BY <1>1, <2>1 DEF Stack, Code1, Sub, Acq, Rel
  <2>3. Interrupted(k, t) /\ Len(s) >= 2
    <3>1. s[1].at \notin Outer(k)
      BY <2>1 DEF Outer, ProcCode, IdleCode
    <3>2. Interrupted(k, t) /\ Len(s) \in 2 .. 3
      BY <2>2, <3>1 DEF Code
    <3>3. \A m \in 2 .. 3 : m >= 2
      BY SMT
    <3> QED
      BY <3>2, <3>3
  <2>4. t \in Seq(Frames)
    BY <1>1, <2>3, PopTop
  <2>5. Count(s[1]) = 0 /\ Held(k, s[1]) = {}
    BY <2>1 DEF Count, Held, Two, TickHeld, OwnHeld, ItsHeld
  <2>6. noff[c] = 0
    BY <1>1, <2>1, <2>2, <2>5 DEF Fits, Rel
  <2>7. Owns(k, s) = {}
    BY <2>1, <2>2, <2>5 DEF Owns, Acq
  <2> HIDE DEF t
  <2>8. /\ Stack(k, t) /\ Fits(t, 0, TRUE, intena[c]) /\ Owns(k, t) = {}
        /\ Code1(t).at \notin TrapCode \cup Deciding \cup {"sched", "slept"}
        /\ t[1].at \notin {"mark", "unlock"}
    BY <1>1, <2>3, <2>4, InterruptedOn
  <2>9. {"yielded", "tick", "wake", "wakeup"} \subseteq TrapCode
    BY DEF TrapCode
  <2>10. Code1(t).at \notin {"slept", "yielded"} /\ Code1(t).at \notin {"tick", "wake", "wakeup"}
    BY <2>8, <2>9
  <2> QED
    BY <1>2, <2>1, <2>6, <2>7, <2>8, <2>10
<1> QED
  BY <1>4, <1>5
-----------------------------------------------------------------------------
(* No tick is missed.                                                      *)

\* wakeup(&ticks) at frame f has still to look at p.
Ahead(f, p) == f.at \in {"wake", "wakeup"} /\ f.x <= p

\* A step of CPU c from code at f to code at g decides to sleep only when the
\* time is not up.
Decides(c, f, g) ==
  /\ \A p \in Procs : \/ Elapsed(p)' = Elapsed(p)
                      \/ p = on[c] /\ g.at \notin Deciding \cup {"sched"}
  /\ g.at \in Deciding => f.at \in Deciding \/ Elapsed(on[c]) < N
  /\ g.at = "sched" => f.at \in Deciding \cup {"sched"}

\* It puts nobody to sleep, and passes by only processes that do not sleep and
\* are not about to.
Passes(f, g) ==
  \A p \in Procs :
    /\ state'[p] = "SLEEPING" => state[p] = "SLEEPING"
    /\ Ahead(f, p) /\ (state[p] = "SLEEPING" \/ Code1(stk[p]).at = "sched") =>
         Ahead(g, p) \/ (state'[p] # "SLEEPING" /\ Code1(stk[p]).at # "sched")

\* The running frame goes on at l with x, after a call or without one.
Goes(c, l, x) ==
  \E t : stk' = [stk EXCEPT ![on[c]] = t] /\ Code1(t).at = l /\ Code1(t).x = x

\* TickInv is kept: no process that decides to sleep misses the tick that it waits
\* for.
LEMMA TickKept ==
  ASSUME SafeInv, TickInv, NEW c \in CPUs
  PROVE  Step(c) => TickInv'
\* Such a step keeps TickInv.
<1>1. ASSUME NEW t, stk' = [stk EXCEPT ![on[c]] = t], on' = on, NEW f,
             f = Code1(stk[on[c]]), NEW g, g = Code1(t), Decides(c, f, g), Passes(f, g)
      PROVE  TickInv'
  <2> USE <1>1
  <2>1. /\ on[c] \in Contexts /\ stk'[on[c]] = t
        /\ \A k \in Contexts \ {on[c]} : stk'[k] = stk[k]
        /\ \A d \in CPUs \ {c} : on[d] \in Contexts /\ stk'[on[d]] = stk[on[d]]
    BY Elsewhere DEF SafeInv
  <2>2. Cpu0 \in CPUs /\ Procs \subseteq Contexts
    BY Names
  <2> SUFFICES ASSUME NEW p \in Procs
               PROVE  /\ Code1(stk'[p]).at \in Deciding => Elapsed(p)' < N
                      /\ Code1(stk'[p]).at = "sched" => Elapsed(p)' < N \/ Coming(p)'
                      /\ state'[p] = "SLEEPING" => Elapsed(p)' < N \/ Coming(p)'
    BY DEF TickInv
  <2>3. /\ Code1(stk[p]).at \in Deciding => Elapsed(p) < N
        /\ Code1(stk[p]).at = "sched" => Elapsed(p) < N \/ Coming(p)
        /\ state[p] = "SLEEPING" => Elapsed(p) < N \/ Coming(p)
    BY DEF TickInv
  <2>4. p = on[c] => state[p] # "SLEEPING"
    BY SMT DEF SafeInv, RunInv
  <2>5. p = on[c] => Code1(stk[p]) = f /\ Code1(stk'[p]) = g
    BY <2>1
  <2>6. p # on[c] => stk'[p] = stk[p]
    BY <2>1, <2>2
  <2>7. Coming(p) <=> Ahead(Code1(stk[on[Cpu0]]), p)
    BY DEF Coming, Ahead
  <2>8. Coming(p)' <=> Ahead(Code1(stk'[on[Cpu0]]), p)
    BY DEF Coming, Ahead
  <2>9. Coming(p) /\ (state[p] = "SLEEPING" \/ Code1(stk[p]).at = "sched") =>
          Coming(p)' \/ (state'[p] # "SLEEPING" /\ Code1(stk[p]).at # "sched")
    <3>1. CASE c = Cpu0
      BY <2>1, <2>7, <2>8, <3>1 DEF Passes
    <3>2. CASE c # Cpu0
      BY <2>1, <2>2, <2>7, <2>8, <3>2
    <3> QED
      BY <3>1, <3>2
  <2>10. CASE p = on[c]
    <3>1. state'[p] # "SLEEPING"
      BY <2>4, <2>10 DEF Passes
    <3>2. g.at \in Deciding => Elapsed(p)' < N
      BY <2>3, <2>5, <2>10 DEF Decides
    <3>3. g.at = "sched" => Elapsed(p)' < N \/ Coming(p)'
      BY <2>3, <2>5, <2>9, <2>10 DEF Decides
    <3> QED
      BY <2>5, <2>10, <3>1, <3>2, <3>3
  <2>11. CASE p # on[c]
    <3>1. Elapsed(p)' = Elapsed(p) /\ stk'[p] = stk[p]
      BY <2>6, <2>11 DEF Decides
    <3> QED
      BY <2>3, <2>9, <3>1 DEF Passes
  <2> QED
    BY <2>10, <2>11
\* A call goes on, when it returns, where it says.
<1>2. ASSUME NEW h \in {"acquire", "release"}, NEW y, NEW l, NEW x, Call(c, h, y, l, x)
      PROVE  Goes(c, l, x)
  <2> USE <1>2
  <2> DEFINE s == stk[on[c]]
             t == <<Frame(h, y), Frame(l, x)>> \o Tail(s)
  <2>1. s \in Seq(Frames) /\ s # << >>
    BY StackHere DEF SafeInv
  <2>2. t[1] = Frame(h, y) /\ t[2] = Frame(l, x)
    BY <2>1, SMT
  <2>3. stk' = [stk EXCEPT ![on[c]] = t]
    BY DEF Call
  <2> HIDE DEF t
  <2>4. t[1].at \in Sub
    BY <2>2, SMT DEF Frame, Sub, Acq, Rel
  <2>5. Code1(t).at = l /\ Code1(t).x = x
    BY <2>2, <2>4, SMT DEF Code1, Frame
  <2> QED
    BY <2>3, <2>5 DEF Goes
\* A step without a call goes on where it says.
<1>3. ASSUME NEW l \in Labels \ Sub, NEW x \in 0 .. NPROC + 1, Jump(c, l, x)
      PROVE  Goes(c, l, x)
  <2> USE <1>3
  <2> DEFINE s == stk[on[c]]
             g == GoesTo(Top(c), l, x)
             t == [s EXCEPT ![1] = g]
  <2>1. s \in Seq(Frames) /\ s # << >> /\ Top(c) \in Frames
    BY StackHere DEF SafeInv
  <2>2. g.at = l /\ g.x = x
    BY <2>1, JumpFrame, SMT
  <2>3. stk' = [stk EXCEPT ![on[c]] = t]
    BY JumpIs DEF SafeInv
  <2> HIDE DEF g
  <2>4. t[1] = g
    BY <2>1, SMT
  <2> HIDE DEF t
  <2>5. Code1(t) = g
    BY <2>2, <2>4 DEF Code1
  <2> QED
    BY <2>2, <2>3, <2>5 DEF Goes
\* Code that is not in wakeup() keeps TickInv.
<1>4. ASSUME NEW l, NEW x, Goes(c, l, x), Top(c).at \notin Sub \cup {"wake", "wakeup"},
             UNCHANGED <<on, state>>,
             \A p \in Procs : \/ Elapsed(p)' = Elapsed(p)
                              \/ p = on[c] /\ l \notin Deciding \cup {"sched"},
             l \in Deciding => Top(c).at \in Deciding \/ Elapsed(on[c]) < N,
             l = "sched" => Top(c).at \in Deciding
      PROVE  TickInv'
  <2> USE <1>4
  <2>1. PICK t : stk' = [stk EXCEPT ![on[c]] = t] /\ Code1(t).at = l
    BY DEF Goes
  <2>2. Code1(stk[on[c]]) = Top(c)
    BY StackHere DEF SafeInv, Code1
  <2>3. \A p \in Procs : ~Ahead(Top(c), p)
    BY DEF Ahead
  <2>4. Decides(c, Top(c), Code1(t)) /\ Passes(Top(c), Code1(t))
    BY <2>1, <2>3 DEF Decides, Passes
  <2> QED
    BY <2>1, <2>2, <2>4, <1>1
\* The steps of such code.
<1>5. ASSUME \/ usertrap(c) \/ usertrap_killed(c) \/ sys_pause(c) \/ sys_pause_start(c)
             \/ sys_pause_loop(c) \/ sys_pause_killed(c) \/ sleep(c) \/ sleep_back(c)
             \/ forkret(c) \/ prepare_return(c) \/ clockintr(c) \/ yield(c) \/ yield_back(c)
             \/ scheduler_intr(c) \/ scheduler_scan(c) \/ scheduler_release(c)
      PROVE  TickInv'
  <2> USE <1>5
  <2> USE DEF At
  <2>1. 0 \in 0 .. NPROC + 1 /\ Procs \subseteq 0 .. NPROC + 1
    BY SpinlockAssumption, SMT DEF Procs
  <2>2. UNCHANGED <<on, state>>
    BY DEF usertrap, usertrap_killed, sys_pause, sys_pause_start, sys_pause_loop, sys_pause_killed,
           sleep, sleep_back, forkret, prepare_return, clockintr, yield, yield_back, scheduler_intr,
           scheduler_scan, scheduler_release
  <2> DEFINE From(m) == Top(c).at = m
             To(l) == /\ \E x : Goes(c, l, x)
                      /\ l \in Labels /\ Top(c).at \in Labels
                      /\ Top(c).at \notin Sub \cup {"wake", "wakeup"}
                      /\ l \in Deciding => Top(c).at \in Deciding \/ Elapsed(on[c]) < N
                      /\ l = "sched" => Top(c).at \in Deciding
  <2>3. ASSUME NEW l, To(l), UNCHANGED <<ticks, ticks0>>
        PROVE  TickInv'
    <3>1. \A p \in Procs : Elapsed(p)' = Elapsed(p)
      BY <2>3 DEF Elapsed
    <3> QED
      BY <2>2, <2>3, <3>1, <1>4
  <2>4. ASSUME NEW h \in {"acquire", "release"}, NEW y, NEW l, NEW x, Call(c, h, y, l, x)
        PROVE  \E z : Goes(c, l, z)
    BY <2>4, <1>2
  <2>5. ASSUME NEW l \in Labels \ Sub, NEW x \in 0 .. NPROC + 1, Jump(c, l, x)
        PROVE  \E z : Goes(c, l, z)
    BY <2>5, <1>3
  <2> SUFFICES TickInv'
    OBVIOUS
  <2> USE DEF Labels, Sub, Acq, Rel, Deciding
  <2>6. CASE usertrap(c)
    <3>1. To("entry")
      BY <2>1, <2>5, <2>6 DEF usertrap
    <3> QED
      BY <2>3, <2>6, <3>1 DEF usertrap
  <2>7. ASSUME NEW a, NEW m, NEW n, Killed(c, a, m, n),
               <<a, m, n>> \in {<<"entry", "entry1", "syscall">>, <<"return", "return1", "prepare">>,
                                <<"tkilled", "tkilled1", "tyield">>,
                                <<"killed", "killed1", "sleep">>},
               UNCHANGED <<ticks, ticks0>>
        PROVE  TickInv'
    <3>1. (\E z : Goes(c, m, z) /\ Top(c).at = a) \/ (\E z : Goes(c, n, z) /\ Top(c).at = m)
      BY <2>4, <2>7 DEF Killed
    <3>2. To(m) \/ To(n)
      BY <2>7, <3>1
    <3> QED
      BY <2>3, <2>7, <3>2
  <2>8. CASE usertrap_killed(c) \/ sys_pause_killed(c)
    BY <2>7, <2>8 DEF usertrap_killed, sys_pause_killed
  <2>9. CASE sys_pause(c)
    <3>1. To("start")
      BY <2>4, <2>9 DEF sys_pause
    <3> QED
      BY <2>3, <2>9, <3>1 DEF sys_pause
  <2>10. CASE sys_pause_start(c)
    <3>1. To("loop")
      BY <2>1, <2>5, <2>10 DEF sys_pause_start
    <3>2. \A p \in Procs : Elapsed(p)' = Elapsed(p) \/ p = on[c]
      BY <2>10 DEF sys_pause_start, Elapsed, SafeInv, Types
    <3> QED
      BY <2>2, <3>1, <3>2, <1>4, SMT
  <2>11. CASE sys_pause_loop(c)
    <3>1. To("killed") \/ To("return")
      BY <2>1, <2>4, <2>5, <2>11 DEF sys_pause_loop
    <3> QED
      BY <2>3, <2>11, <3>1 DEF sys_pause_loop
  <2>12. CASE sleep(c)
    <3>1. To("sleep1") \/ To("sched")
      BY <2>4, <2>12 DEF sleep
    <3> QED
      BY <2>3, <2>12, <3>1 DEF sleep
  <2>13. CASE sleep_back(c)
    <3>1. To("woken") \/ To("loop")
      BY <2>4, <2>13 DEF sleep_back
    <3> QED
      BY <2>3, <2>13, <3>1 DEF sleep_back
  <2>14. CASE forkret(c)
    <3>1. To("prepare")
      BY <2>4, <2>14 DEF forkret
    <3> QED
      BY <2>3, <2>14, <3>1 DEF forkret
  <2>15. CASE prepare_return(c)
    <3>1. To("user")
      BY <2>1, <2>5, <2>15 DEF prepare_return
    <3> QED
      BY <2>3, <2>15, <3>1 DEF prepare_return
  <2>16. CASE clockintr(c)
    <3>1. AfterTick(c) \in {"tkilled", "tyield"}
      BY DEF AfterTick
    <3>2. To("tick") \/ To("tkilled") \/ To("tyield")
      BY <2>1, <2>4, <2>5, <2>16, <3>1 DEF clockintr
    <3> QED
      BY <2>3, <2>16, <3>2 DEF clockintr
  <2>17. CASE yield(c)
    <3>1. To("yield") \/ To("tret")
      BY <2>1, <2>4, <2>5, <2>17 DEF yield
    <3> QED
      BY <2>3, <2>17, <3>1 DEF yield
  <2>18. CASE yield_back(c)
    <3>1. To("tret")
      BY <2>4, <2>18 DEF yield_back
    <3> QED
      BY <2>3, <2>18, <3>1 DEF yield_back
  <2>19. CASE scheduler_intr(c)
    <3>1. To("open") \/ To("scan")
      BY <2>1, <2>5, <2>19 DEF scheduler_intr
    <3> QED
      BY <2>3, <2>19, <3>1 DEF scheduler_intr
  <2>20. CASE scheduler_scan(c)
    <3>1. To("try")
      BY <2>4, <2>20 DEF scheduler_scan
    <3> QED
      BY <2>3, <2>20, <3>1 DEF scheduler_scan
  <2>21. CASE scheduler_release(c)
    <3>1. To("scan") \/ To("idle")
      BY <2>4, <2>21 DEF scheduler_release
    <3> QED
      BY <2>3, <2>21, <3>1 DEF scheduler_release
  <2> QED
    BY <2>6, <2>8, <2>9, <2>10, <2>11, <2>12, <2>13, <2>14, <2>15, <2>16, <2>17, <2>18, <2>19,
       <2>20, <2>21
\* Two CPUs never hold the same lock.
<1>6. ASSUME NEW d \in CPUs, NEW l \in Locks, l \in Owns(on[c], stk[on[c]]),
             l \in Owns(on[d], stk[on[d]])
      PROVE  c = d
  <2> USE <1>6
  <2> QED
    BY SMT DEF SafeInv, LockInv, holding
\* A process that decides to sleep holds tickslock, and at sched() its own lock,
\* on some CPU.
<1>7. ASSUME NEW p \in Procs, Code1(stk[p]).at \in Deciding \cup {"sched"}
      PROVE  \E d \in CPUs : /\ on[d] = p
                             /\ Code1(stk[p]).at \in Deciding => tickslock \in Owns(p, stk[p])
                             /\ Code1(stk[p]).at = "sched" => p \in Owns(p, stk[p])
  <2> USE <1>7
  <2> DEFINE s == stk[p]
             f == Code1(s)
  <2>1. PICK d \in CPUs : on[d] = p
    <3>1. ~Parked(p)
      BY DEF Parked, Code1, Sub, Acq, Rel, Deciding
    <3> QED
      BY <3>1 DEF SafeInv, RunInv
  <2>2. Stack(p, s)
    BY <2>1, StackHere DEF SafeInv
  <2>3. /\ f.at \in Deciding => tickslock \in Held(p, f)
        /\ f.at = "sched" => p \in Held(p, f)
    BY Names DEF Held, Deciding, TickHeld, OwnHeld, Two
  <2>4. s[1].at \in Acq => f.at \in Deciding /\ s[1].x # tickslock
    <3>1. s[1].at \in Acq => CallOK(p, s[1], f)
      <4> SUFFICES ASSUME s[1].at \in Acq PROVE CallOK(p, s[1], f)
        OBVIOUS
      <4>1. SubOff(p, s, Tail(s))
        BY <2>2, SubReturn DEF Sub
      <4> QED
        BY <4>1 DEF SubOff
    <3>2. f.at \in Deciding \cup {"sched"} /\ f.at \notin NoAcq => f.at \in Two /\ f.at \in Deciding
      BY DEF Deciding, NoAcq, Two
    <3> QED
      BY <3>1, <3>2 DEF CallOK
  <2> HIDE DEF f, s
  <2>5. /\ f.at \in Deciding => tickslock \in Owns(p, s)
        /\ f.at = "sched" => p \in Owns(p, s)
    <3>1. "sched" \notin Deciding
      BY DEF Deciding
    <3> QED
      BY <2>3, <2>4, <3>1 DEF Owns, f
  <2> QED
    BY <2>1, <2>5 DEF f, s
\* A CPU that runs code holds the locks of that code.
<1>8. ASSUME Top(c).at \notin Sub
      PROVE  Owns(on[c], stk[on[c]]) = Held(on[c], Top(c)) /\ Code1(stk[on[c]]) = Top(c)
  <2> USE <1>8
  <2> QED
    BY StackHere DEF SafeInv, Owns, Code1, Sub, Rel
\* clockintr() counts a tick: with tickslock held no process is deciding to
\* sleep, and the wakeup() that follows looks at all.
<1>9. ASSUME clockintr_tick(c)
      PROVE  TickInv'
  <2> USE <1>9
  <2>1. /\ Top(c).at = "tick" /\ Jump(c, "wake", 1) /\ UNCHANGED <<on, state>>
        /\ "wake" \in Labels \ Sub /\ 1 \in 0 .. NPROC + 1 /\ Top(c).at \notin Sub
    BY SpinlockAssumption, SMT DEF clockintr_tick, At, Labels, Sub, Acq, Rel
  <2>2. Goes(c, "wake", 1) /\ c = Cpu0
    BY <2>1, <1>3, Here
  <2>3. PICK t : stk' = [stk EXCEPT ![on[c]] = t] /\ Code1(t).at = "wake" /\ Code1(t).x = 1
    BY <2>2 DEF Goes
  <2>4. /\ on[c] \in Contexts /\ stk'[on[c]] = t
        /\ \A k \in Contexts \ {on[c]} : stk'[k] = stk[k]
    BY <2>1, <2>3, Elsewhere DEF SafeInv
  <2>5. tickslock \in Owns(on[c], stk[on[c]]) /\ Code1(stk[on[c]]).at = "tick"
    <3>1. tickslock \in Held(on[c], Top(c))
      BY <2>1, Names DEF Held, TickHeld
    <3> QED
      BY <2>1, <3>1, <1>8
  <2> SUFFICES ASSUME NEW p \in Procs
               PROVE  /\ Code1(stk'[p]).at \notin Deciding
                      /\ Coming(p)'
    BY DEF TickInv
  <2>6. Coming(p)'
    <3>1. 1 <= p
      BY SpinlockAssumption, SMT DEF Procs
    <3> QED
      BY <2>1, <2>2, <2>3, <2>4, <3>1 DEF Coming
  <2>7. Code1(stk[p]).at \notin Deciding
    <3> SUFFICES ASSUME Code1(stk[p]).at \in Deciding PROVE FALSE
      OBVIOUS
    <3>1. PICK d \in CPUs : on[d] = p /\ tickslock \in Owns(p, stk[p])
      BY <1>7
    <3>2. c = d
      BY <2>5, <3>1, Names, <1>6
    <3> QED
      BY <2>5, <3>1, <3>2 DEF Deciding
  <2>8. Code1(stk'[p]).at \notin Deciding
    BY <2>3, <2>4, <2>7, Names DEF Deciding
  <2> QED
    BY <2>6, <2>8
\* wakeup(&ticks) goes from one process to the next; at each it has the lock
\* that a process on its way to sleep holds.
<1>10. ASSUME wakeup(c) \/ wakeup_one(c)
       PROVE  TickInv'
  <2> USE <1>10
  <2> DEFINE f == Top(c)
  <2>1. /\ f.at \in {"wake", "wakeup"} /\ f.at \notin Sub /\ UNCHANGED <<on, ticks, ticks0>>
        /\ \A p \in Procs : state'[p] = "SLEEPING" => state[p] = "SLEEPING"
    BY DEF wakeup, wakeup_one, At, Sub, Acq, Rel, SafeInv, Types
  <2>2. Code1(stk[on[c]]) = f /\ FrameOK(on[c], f)
    BY <2>1, <1>8, Here
  <2>3. /\ f.x \in 1 .. NPROC + 1 /\ NPROC \in Nat /\ Procs = 1 .. NPROC
        /\ f.at = "wakeup" => f.x \in Procs
        /\ f.x = NPROC + 1 => f.x # on[c]
    <3>1. /\ NPROC + 1 \notin Procs /\ NPROC + 1 # c /\ NPROC \in Nat /\ Procs = 1 .. NPROC
          /\ on[c] \in Procs \/ on[c] = c
      BY SpinlockAssumption, Here, SMT DEF Procs
    <3> QED
      BY <2>1, <2>2, <3>1, SMT DEF FrameOK, Frames, ItsHeld
  <2>4. ASSUME NEW l \in {"wake", "wakeup", "tkilled", "tyield"}, NEW x, Goes(c, l, x),
               \A p \in Procs : f.x <= p /\ (state[p] = "SLEEPING" \/ Code1(stk[p]).at = "sched") =>
                 \/ l \in {"wake", "wakeup"} /\ x <= p
                 \/ state'[p] # "SLEEPING" /\ Code1(stk[p]).at # "sched"
        PROVE  TickInv'
    <3>1. PICK t : stk' = [stk EXCEPT ![on[c]] = t] /\ Code1(t).at = l /\ Code1(t).x = x
      BY <2>4 DEF Goes
    <3>2. Code1(t).at \notin Deciding \cup {"sched"}
      BY <3>1 DEF Deciding
    <3>3. \A p \in Procs : Elapsed(p)' = Elapsed(p)
      BY <2>1 DEF Elapsed
    <3>4. \A p \in Procs : Ahead(f, p) /\ (state[p] = "SLEEPING" \/ Code1(stk[p]).at = "sched") =>
                             \/ Ahead(Code1(t), p)
                             \/ state'[p] # "SLEEPING" /\ Code1(stk[p]).at # "sched"
      BY <2>4, <3>1 DEF Ahead
    <3>5. Decides(c, f, Code1(t)) /\ Passes(f, Code1(t))
      BY <2>1, <3>2, <3>3, <3>4 DEF Decides, Passes
    <3> HIDE DEF f
    <3> QED
      BY <2>1, <2>2, <3>1, <3>5, <1>1
  <2>5. CASE wakeup(c) /\ f.x > NPROC
    <3>1. AfterTick(c) \in {"tkilled", "tyield"}
      BY DEF AfterTick
    <3>2. Call(c, "release", tickslock, AfterTick(c), 0)
      <4>1. f.x # on[c]
        BY <2>3, <2>5, SMT
      <4> QED
        BY <2>5, <4>1 DEF wakeup
    <3>3. Goes(c, AfterTick(c), 0)
      BY <3>2, <1>2
    <3>4. \A p \in Procs : ~ (f.x <= p)
      BY <2>3, <2>5, SMT
    <3> QED
      BY <2>4, <3>1, <3>3, <3>4
  <2>6. CASE wakeup(c) /\ ~ (f.x > NPROC) /\ f.x = on[c]
    <3>1. Jump(c, "wake", f.x + 1) /\ f.x + 1 \in 0 .. NPROC + 1 /\ f.at = "wake"
      BY <2>3, <2>6, SMT DEF wakeup, At
    <3>2. Goes(c, "wake", f.x + 1)
      <4>1. "wake" \in Labels \ Sub
        BY DEF Labels, Sub, Acq, Rel
      <4> QED
        BY <3>1, <4>1, <1>3
    <3>3. \A p \in Procs : p = on[c] => state[p] # "SLEEPING" /\ Code1(stk[p]).at # "sched"
      BY <2>2, <3>1, SMT DEF SafeInv, RunInv
    <3>4. \A p \in Procs : f.x <= p /\ p # on[c] => f.x + 1 <= p
      BY <2>3, <2>6, SMT
    <3> QED
      BY <2>4, <3>2, <3>3, <3>4, SMT
  <2>7. CASE wakeup(c) /\ ~ (f.x > NPROC) /\ f.x # on[c]
    <3>1. Call(c, "acquire", f.x, "wakeup", f.x)
      BY <2>7 DEF wakeup
    <3>2. Goes(c, "wakeup", f.x)
      BY <3>1, <1>2
    <3> QED
      BY <2>4, <3>2
  <2>8. CASE wakeup_one(c)
    <3> DEFINE x == f.x
    <3>1. /\ Call(c, "release", x, "wake", x + 1) /\ f.at = "wakeup" /\ x \in Procs
          /\ state'[x] # "SLEEPING"
      BY <2>3, <2>8 DEF wakeup_one, At, SafeInv, Types
    <3>2. Goes(c, "wake", x + 1)
      BY <3>1, <1>2
    <3>3. Code1(stk[x]).at # "sched"
      <4> SUFFICES ASSUME Code1(stk[x]).at = "sched" PROVE FALSE
        OBVIOUS
      <4>1. PICK d \in CPUs : on[d] = x /\ x \in Owns(x, stk[x])
        BY <3>1, <1>7
      <4>2. x \in Owns(on[c], stk[on[c]]) /\ x \in Locks
        <5>1. x \in Held(on[c], f)
          BY <3>1, Names DEF Held, ItsHeld
        <5> QED
          BY <2>1, <3>1, <5>1, <1>8, Names
      <4>3. c = d
        BY <4>1, <4>2, <1>6
      <4> QED
        BY <2>2, <3>1, <4>1, <4>3
    <3>4. \A p \in Procs : x <= p /\ p # x => x + 1 <= p
      BY <2>3, SMT
    <3> QED
      BY <2>4, <3>1, <3>2, <3>3, <3>4, SMT
  <2> QED
    BY <2>5, <2>6, <2>7, <2>8
\* acquire() and release() change nothing that TickInv speaks of.
<1>11. ASSUME \/ push_off_get(c) \/ push_off(c) \/ acquire_spin(c) \/ acquire_mark(c)
              \/ release(c) \/ release_unlock(c) \/ pop_off(c)
       PROVE  TickInv'
  <2> USE <1>11
  <2> DEFINE s == stk[on[c]]
             f == Top(c)
  <2>1. /\ UNCHANGED <<on, state, ticks, ticks0>> /\ f.at \in Sub
    BY DEF push_off_get, push_off, acquire_spin, acquire_mark, release, release_unlock, pop_off, At,
           Sub, Acq, Rel
  <2>2. /\ Stack(on[c], s) /\ f = s[1] /\ f \in Frames /\ on[c] \in DOMAIN stk
        /\ s \in Seq(Frames) /\ s # << >> /\ 1 \in DOMAIN s
    BY StackHere, SMT DEF SafeInv
  <2>3. SubOff(on[c], s, Tail(s))
    BY <2>1, <2>2, SubReturn
  <2>4. Code1(s) = s[2] /\ Code1(Tail(s)) = s[2]
    BY <2>3 DEF SubOff
  <2>5. ASSUME NEW g, g.at \in Sub, stk' = [stk EXCEPT ![on[c]] = [s EXCEPT ![1] = g]]
        PROVE  \E t : stk' = [stk EXCEPT ![on[c]] = t] /\ Code1(t) = Code1(s)
    <3> DEFINE t == [s EXCEPT ![1] = g]
    <3>1. t[1] = g /\ t[2] = s[2]
      BY <2>2, SMT
    <3> HIDE DEF t
    <3>2. Code1(t) = s[2]
      BY <2>5, <3>1 DEF Code1
    <3> QED
      BY <2>4, <2>5, <3>2 DEF t
  <2>6. ASSUME NEW l \in Labels \cap Sub, Jump(c, l, f.x)
        PROVE  \E t : stk' = [stk EXCEPT ![on[c]] = t] /\ Code1(t) = Code1(s)
    <3> DEFINE g == GoesTo(f, l, f.x)
    <3>1. f.x \in 0 .. NPROC + 1
      BY <2>2 DEF Frames
    <3>2. g.at = l
      BY <2>2, <3>1, JumpFrame, SMT
    <3>3. stk' = [stk EXCEPT ![on[c]] = [s EXCEPT ![1] = g]]
      BY <2>6, JumpIs, SMT DEF SafeInv
    <3> HIDE DEF g
    <3> QED
      BY <2>5, <3>2, <3>3
  <2>7. \E t : stk' = [stk EXCEPT ![on[c]] = t] /\ Code1(t) = Code1(s)
    <3>1. CASE push_off_get(c)
      <4> DEFINE g == [f EXCEPT !.at = "push", !.old = intr[c]]
      <4>1. stk' = [stk EXCEPT ![on[c]] = [s EXCEPT ![1] = g]]
        BY <2>2, <3>1 DEF push_off_get
      <4>2. g.at \in Sub
        BY <2>2 DEF Frames, Sub, Acq
      <4> HIDE DEF g
      <4> QED
        BY <2>5, <4>1, <4>2
    <3>2. CASE push_off(c) \/ acquire_spin(c) \/ release(c) \/ release_unlock(c)
      <4>1. PICK l \in {"spin", "mark", "unlock", "pop"} : Jump(c, l, f.x)
        BY <3>2 DEF push_off, acquire_spin, release, release_unlock
      <4>2. l \in Labels \cap Sub
        BY DEF Labels, Sub, Acq, Rel
      <4> QED
        BY <2>6, <4>1, <4>2
    <3>3. CASE acquire_mark(c) \/ pop_off(c)
      BY <2>4, <3>3 DEF acquire_mark, pop_off, Pop
    <3> QED
      BY <3>1, <3>2, <3>3
  <2>8. \A p \in Procs : Elapsed(p)' = Elapsed(p)
    BY <2>1 DEF Elapsed
  <2>9. PICK t : stk' = [stk EXCEPT ![on[c]] = t] /\ Code1(t) = Code1(s)
    BY <2>7
  <2>10. \A p \in Procs : state'[p] = "SLEEPING" => state[p] = "SLEEPING"
    BY <2>1
  <2>11. Decides(c, Code1(s), Code1(t)) /\ Passes(Code1(s), Code1(t))
    BY <2>8, <2>9, <2>10 DEF Decides, Passes
  <2> QED
    BY <2>1, <2>9, <2>11, <1>1
\* Nor do interrupts, which find no process deciding to sleep.
<1>12. ASSUME interrupt(c) \/ kerneltrap_return(c)
       PROVE  TickInv'
  <2> USE <1>12
  <2> DEFINE k == on[c]
             s == stk[k]
  <2>1. /\ k \in Contexts /\ Stack(k, s) /\ s \in Seq(Frames) /\ s # << >> /\ Top(c) = s[1]
        /\ Fits(s, noff[c], intr[c], intena[c]) /\ intr[c] \in BOOLEAN
    BY StackHere DEF SafeInv, CpuInv, Types
  <2>2. UNCHANGED <<on, state, ticks, ticks0>>
    BY DEF interrupt, kerneltrap_return
  <2>3. \A p \in Procs : Elapsed(p)' = Elapsed(p)
    BY <2>2 DEF Elapsed
  <2>4. {"wake", "wakeup"} \subseteq TrapCode
    BY DEF TrapCode
  <2>5. \E t : /\ stk' = [stk EXCEPT ![k] = t]
               /\ Code1(t).at \notin Deciding \cup {"sched"}
               /\ Code1(s).at \notin {"wake", "wakeup"}
    <3>1. CASE interrupt(c)
      <4> DEFINE t == <<Frame("trap", 0)>> \o s
      <4>1. intr[c] = TRUE
        BY <2>1, <3>1 DEF interrupt
      <4>2. Interrupted(k, s)
        BY <2>1, <4>1, OnInterrupted
      <4>3. Code1(s).at \notin TrapCode \cup Deciding \cup {"sched", "slept"}
        BY <2>1, <4>2, InterruptedOn
      <4>4. t[1] = Frame("trap", 0)
        BY <2>1, SMT
      <4>5. stk' = [stk EXCEPT ![k] = t]
        BY <3>1 DEF interrupt
      <4> HIDE DEF t
      <4>6. Code1(t).at = "trap"
        BY <4>4, SMT DEF Code1, Frame, Sub, Acq, Rel
      <4> QED
        BY <2>4, <4>3, <4>5, <4>6 DEF Deciding
    <3>2. CASE kerneltrap_return(c)
      <4> DEFINE t == Tail(s)
      <4>1. stk' = [stk EXCEPT ![k] = t] /\ s[1].at = "tret"
        BY <2>1, <3>2 DEF kerneltrap_return, Pop, At
      <4>2. Code(k, s) /\ Code1(s) = s[1]
        BY <2>1, <4>1 DEF Stack, Code1, Sub, Acq, Rel
      <4>3. Interrupted(k, t) /\ Len(s) \in 2 .. 3
        <5>1. s[1].at \notin Outer(k)
          BY <4>1 DEF Outer, ProcCode, IdleCode
        <5> QED
          BY <4>2, <5>1 DEF Code
      <4>4. t \in Seq(Frames)
        BY <2>1, <4>3, PopTop, SMT
      <4> HIDE DEF t
      <4>5. Code1(t).at \notin TrapCode \cup Deciding \cup {"sched", "slept"}
        BY <2>1, <4>3, <4>4, InterruptedOn
      <4> QED
        BY <4>1, <4>2, <4>5
    <3> QED
      BY <3>1, <3>2
  <2>6. PICK t : /\ stk' = [stk EXCEPT ![k] = t]
                 /\ Code1(t).at \notin Deciding \cup {"sched"}
                 /\ Code1(s).at \notin {"wake", "wakeup"}
    BY <2>5
  <2>7. \A p \in Procs : state'[p] = "SLEEPING" => state[p] = "SLEEPING"
    BY <2>2
  <2>8. \A p \in Procs : ~Ahead(Code1(s), p)
    BY <2>6 DEF Ahead
  <2>9. Decides(c, Code1(s), Code1(t)) /\ Passes(Code1(s), Code1(t))
    BY <2>3, <2>6, <2>7, <2>8 DEF Decides, Passes
  <2> QED
    BY <2>2, <2>6, <2>9, <1>1
\* Nor do switches: who goes to sleep has its time not up, or a wakeup() of
\* another CPU ahead.
<1>13. ASSUME sleep_sched(c) \/ yield_sched(c) \/ scheduler_swtch(c)
       PROVE  TickInv'
  <2> USE <1>13
  <2> DEFINE k == on[c]
             f == Top(c)
  <2>1. /\ f.at \in {"sched", "yield", "try"} /\ f.at \notin Sub /\ UNCHANGED <<ticks, ticks0>>
        /\ \A d \in CPUs \ {c} : on'[d] = on[d]
    BY DEF sleep_sched, yield_sched, scheduler_swtch, sched, At, Sub, Acq, Rel, SafeInv, Types
  <2>2. Code1(stk[k]) = f /\ k \in Contexts
    BY <2>1, <1>8, Here
  <2>3. PICK l \in {"slept", "yielded", "back"}, x \in 0 .. NPROC + 1 : Jump(c, l, x)
    <3>1. 0 \in 0 .. NPROC + 1 /\ f.x \in 0 .. NPROC + 1
      BY SpinlockAssumption, Here, SMT DEF Frames
    <3> QED
      BY <3>1 DEF sleep_sched, yield_sched, scheduler_swtch, sched
  <2>4. PICK t : stk' = [stk EXCEPT ![k] = t] /\ Code1(t).at = l
    <3>1. l \in Labels \ Sub
      BY DEF Labels, Sub, Acq, Rel
    <3> QED
      BY <2>3, <3>1, <1>3, SMT DEF Goes
  <2>5. /\ stk'[k] = t /\ \A m \in Contexts \ {k} : stk'[m] = stk[m]
    BY <2>2, <2>4 DEF SafeInv, StackInv
  <2>6. ASSUME NEW p \in Procs
        PROVE  state'[p] = "SLEEPING" => state[p] = "SLEEPING" \/ Code1(stk[p]).at = "sched"
    <3>1. CASE sleep_sched(c)
      BY <2>2, <3>1 DEF sleep_sched, sched, At, SafeInv, Types
    <3>2. CASE yield_sched(c) \/ scheduler_swtch(c)
      BY <3>2 DEF yield_sched, sched, scheduler_swtch, SafeInv, Types
    <3> QED
      BY <3>1, <3>2
  <2>7. ASSUME NEW p \in Procs, Coming(p)
        PROVE  Coming(p)'
    <3>1. c # Cpu0
      BY <2>1, <2>2, <2>7 DEF Coming
    <3>2. on'[Cpu0] = on[Cpu0] /\ on[Cpu0] # k /\ on[Cpu0] \in Contexts
      BY <2>1, <3>1, Names, SMT DEF SafeInv, RunInv, Types
    <3>3. stk'[on'[Cpu0]] = stk[on[Cpu0]]
      BY <2>5, <3>2
    <3> QED
      BY <2>7, <3>3 DEF Coming
  <2> SUFFICES ASSUME NEW p \in Procs
               PROVE  /\ Code1(stk'[p]).at \in Deciding => Elapsed(p)' < N
                      /\ Code1(stk'[p]).at = "sched" => Elapsed(p)' < N \/ Coming(p)'
                      /\ state'[p] = "SLEEPING" => Elapsed(p)' < N \/ Coming(p)'
    BY DEF TickInv
  <2>8. Elapsed(p)' = Elapsed(p)
    BY <2>1 DEF Elapsed
  <2>9. /\ Code1(stk[p]).at \in Deciding => Elapsed(p) < N
        /\ Code1(stk[p]).at = "sched" => Elapsed(p) < N \/ Coming(p)
        /\ state[p] = "SLEEPING" => Elapsed(p) < N \/ Coming(p)
    BY DEF TickInv
  <2>10. stk'[p] = stk[p] \/ Code1(stk'[p]).at \notin Deciding \cup {"sched"}
    BY <2>4, <2>5, Names DEF Deciding
  <2> QED
    BY <2>6, <2>7, <2>8, <2>9, <2>10
<1> QED
  BY <1>5, <1>9, <1>10, <1>11, <1>12, <1>13 DEF Step
-----------------------------------------------------------------------------
(* The steps of spinlock.c.                                                *)

\* The stack of a call of acquire() or release(), as it goes on and as it returns.
SubOn(k, s, g, t) ==
  /\ Stack(k, t) /\ t[1] = g /\ Code1(t) = Code1(s)
  /\ Code1(s) = s[2] /\ CallOK(k, g, s[2])

\* acquire() and release() keep the invariant, step by step.
LEMMA SubSteps ==
  ASSUME SafeInv, NEW c \in CPUs
  PROVE  \/ push_off_get(c) \/ push_off(c) \/ acquire_spin(c) \/ acquire_mark(c)
         \/ release(c) \/ release_unlock(c) \/ pop_off(c)
         => StackInv' /\ RunInv' /\ CpuInv' /\ LockInv'
\* Going on inside acquire() or release() leaves the caller as it is.
<1>1. ASSUME NEW k, NEW s, Stack(k, s), s[1].at \in Sub, NEW g \in Frames, g.x = s[1].x,
             g.at \in Sub, g.at \in Acq <=> s[1].at \in Acq, NEW t, t = [s EXCEPT ![1] = g]
      PROVE  SubOn(k, s, g, t)
  <2> USE <1>1
  <2>1. Sub \cap (TrapCode \cup ProcCode \cup IdleCode) = {}
    BY DEF Sub, Acq, Rel, TrapCode, ProcCode, IdleCode
  <2>2. ~ Code(k, s)
    BY <2>1 DEF Code, Outer
  <2>3. s \in Seq(Frames) /\ Len(s) \in 2 .. 4 /\ CallOK(k, s[1], s[2]) /\ Code(k, Tail(s))
    BY <2>2 DEF Stack
  <2>4. /\ t \in Seq(Frames) /\ Len(t) = Len(s) /\ t[1] = g /\ Tail(t) = Tail(s) /\ t[2] = s[2]
    BY <2>3, JumpTop, SMT
  <2>5. g.at \in Rel <=> s[1].at \in Rel
    BY DEF Sub, Acq, Rel
  <2>6. CallOK(k, g, s[2])
    BY <2>3, <2>5 DEF CallOK
  <2>7. Stack(k, t)
    BY <2>3, <2>4, <2>6 DEF Stack
  <2>8. Code1(t) = s[2] /\ Code1(s) = s[2]
    BY <2>4 DEF Code1
  <2> QED
    BY <2>4, <2>6, <2>7, <2>8 DEF SubOn
\* Code that holds a lock counts it.
<1>2. ASSUME NEW k, NEW f, NEW y \in Held(k, f)
      PROVE  Count(f) # 0
  <2> USE <1>2
  <2> QED
    BY SMT DEF Held, Count
\* noff, interrupts and intena through acquire() and release().
<1>3. ASSUME NEW s, NEW t, NEW n, NEW i, NEW e, Fits(s, n, i, e), Code1(t) = Code1(s),
             NEW k, CallOK(k, s[1], Code1(s))
      PROVE  /\ s[1].at = "acquire" /\ t[1].at = "push" /\ t[1].old = i => Fits(t, n, i, e)
             /\ s[1].at = "push" /\ t[1].at = "spin" =>
                  Fits(t, n + 1, FALSE, IF n = 0 THEN s[1].old ELSE e)
             /\ s[1].at = "spin" /\ t[1].at = "mark" => Fits(t, n, i, e)
             /\ s[1].at = "mark" /\ t[1].at \notin Sub => Fits(t, n, i, e)
             /\ s[1].at = "release" /\ t[1].at = "unlock" => Fits(t, n, i, e)
             /\ s[1].at = "unlock" /\ t[1].at = "pop" => Fits(t, n, i, e)
             /\ s[1].at = "pop" /\ t[1].at \notin Sub =>
                  Fits(t, n - 1, i \/ (n = 1 /\ e), e)
  <2> USE <1>3
  <2> DEFINE f == Code1(s)
  <2>1. Count(f) \in 0 .. 2
    BY CountRange
  <2>2. s[1].at \in Acq => Count(f) # 0
    BY <1>2 DEF CallOK
  <2>3. Sub = {"acquire", "push", "spin", "mark", "release", "unlock", "pop"}
    BY DEF Sub, Acq, Rel
  <2> HIDE DEF f
  <2>4. s[1].at = "push" /\ t[1].at = "spin" => Fits(t, n + 1, FALSE, IF n = 0 THEN s[1].old ELSE e)
    <3> SUFFICES ASSUME s[1].at = "push", t[1].at = "spin"
                 PROVE  Fits(t, n + 1, FALSE, IF n = 0 THEN s[1].old ELSE e)
      OBVIOUS
    <3>1. n = Count(f) - 1 /\ s[1].old = i /\ (IF n # 0 THEN ~i /\ Agrees(e, f) ELSE Agrees(i, f))
      BY DEF Fits, f, Rel
    <3>2. n + 1 = Count(f)
      BY <2>1, <3>1, SMT
    <3>3. Agrees(IF n = 0 THEN s[1].old ELSE e, f)
      BY <3>1
    <3> QED
      BY <3>2, <3>3 DEF Fits, f, Rel
  <2>5. s[1].at = "pop" /\ t[1].at \notin Sub => Fits(t, n - 1, i \/ (n = 1 /\ e), e)
    <3> SUFFICES ASSUME s[1].at = "pop", t[1].at \notin Sub
                 PROVE  Fits(t, n - 1, i \/ (n = 1 /\ e), e)
      OBVIOUS
    <3>1. n = Count(f) + 1 /\ ~i /\ Agrees(e, f)
      BY DEF Fits, f, Rel
    <3>2. n - 1 = Count(f)
      BY <2>1, <3>1, SMT
    <3>3. Count(f) = 0 => Agrees(i \/ (n = 1 /\ e), f)
      BY <3>1, SMT DEF Agrees
    <3>4. Count(f) # 0 => ~ (i \/ (n = 1 /\ e))
      BY <2>1, <3>1, SMT
    <3> QED
      BY <2>3, <3>1, <3>2, <3>3, <3>4 DEF Fits, f, Rel
  <2>6. s[1].at = "mark" /\ t[1].at \notin Sub => Fits(t, n, i, e)
    BY <2>2, <2>3 DEF Fits, f, Rel, Acq
  <2>7. /\ s[1].at = "acquire" /\ t[1].at = "push" /\ t[1].old = i => Fits(t, n, i, e)
        /\ s[1].at = "spin" /\ t[1].at = "mark" => Fits(t, n, i, e)
    BY DEF Fits, Rel
  <2>8. /\ s[1].at = "release" /\ t[1].at = "unlock" => Fits(t, n, i, e)
        /\ s[1].at = "unlock" /\ t[1].at = "pop" => Fits(t, n, i, e)
    BY DEF Fits, Rel
  <2> QED
    BY <2>4, <2>5, <2>6, <2>7, <2>8
\* A step of acquire() or release() that leaves the locks that it holds alone
\* keeps who owns them; the ones that take or give up l change that.
<1>4. ASSUME NEW k, NEW s, NEW t, Code1(t) = Code1(s),
             t[1].x = s[1].x \/ t[1].at \notin Sub, CallOK(k, s[1], Code1(s))
      PROVE  /\ s[1].at \in Acq /\ t[1].at \in Acq => Owns(k, t) = Owns(k, s)
             /\ s[1].at \in Acq /\ t[1].at \notin Sub =>
                  Owns(k, t) = Owns(k, s) \cup {s[1].x}
             /\ s[1].at = "release" /\ t[1].at = "unlock" =>
                  Owns(k, s) = Owns(k, t) \cup {s[1].x} /\ s[1].x \notin Owns(k, t)
             /\ s[1].at = "unlock" /\ t[1].at = "pop" => Owns(k, t) = Owns(k, s)
             /\ s[1].at = "pop" /\ t[1].at \notin Sub => Owns(k, t) = Owns(k, s)
  <2> USE <1>4
  <2> DEFINE H == Held(k, Code1(s))
  <2>1. /\ s[1].at \in Acq => s[1].x \in H
        /\ s[1].at = "release" => s[1].x \notin H
    BY DEF CallOK, Rel
  <2> HIDE DEF H
  <2>2. /\ s[1].at \in Acq => Owns(k, s) = H \ {s[1].x}
        /\ s[1].at = "release" => Owns(k, s) = H \cup {s[1].x}
        /\ s[1].at \in {"unlock", "pop"} => Owns(k, s) = H
    BY DEF Owns, H, Acq
  <2>3. /\ t[1].at \in Acq => Owns(k, t) = H \ {t[1].x}
        /\ t[1].at \in {"unlock", "pop"} \/ t[1].at \notin Sub => Owns(k, t) = H
    BY DEF Owns, H, Acq, Sub, Rel
  <2>4. Acq \subseteq Sub
    BY DEF Sub
  <2>5. s[1].at \in Acq /\ t[1].at \in Acq => Owns(k, t) = Owns(k, s)
    BY <2>2, <2>3, <2>4
  <2>6. s[1].at \in Acq /\ t[1].at \notin Sub => Owns(k, t) = Owns(k, s) \cup {s[1].x}
    BY <2>1, <2>2, <2>3
  <2>7. s[1].at = "release" /\ t[1].at = "unlock" =>
          Owns(k, s) = Owns(k, t) \cup {s[1].x} /\ s[1].x \notin Owns(k, t)
    BY <2>1, <2>2, <2>3
  <2>8. /\ s[1].at = "unlock" /\ t[1].at = "pop" => Owns(k, t) = Owns(k, s)
        /\ s[1].at = "pop" /\ t[1].at \notin Sub => Owns(k, t) = Owns(k, s)
    BY <2>2, <2>3
  <2> QED
    BY <2>5, <2>6, <2>7, <2>8
\* The steps that write the lock words of y.
<1>5. ASSUME Types, StackInv, RunInv, LockInv, NEW t, stk' = [stk EXCEPT ![on[c]] = t],
             on' = on, NEW y \in Locks,
             \A l \in Locks \ {y} : locked'[l] = locked[l] /\ lkcpu'[l] = lkcpu[l],
             ~locked'[y] => lkcpu'[y] = None, lkcpu'[y] \in {c, None}, lkcpu[y] \in {c, None},
             \A l \in Locks \ {y} : l \in Owns(on[c], t) <=> l \in Owns(on[c], stk[on[c]]),
             y \in Owns(on[c], t) <=> locked'[y] /\ lkcpu'[y] = c,
             \A l \in Locks \ {y} : ~Between(t, l),
             Between(t, y) => locked'[y] /\ lkcpu'[y] = None,
             \A d \in CPUs \ {c} : ~Between(stk[on[d]], y)
      PROVE  LockInv'
  <2> USE <1>5
  <2>1. /\ stk'[on'[c]] = t /\ \A d \in CPUs \ {c} : stk'[on'[d]] = stk[on[d]]
    BY Elsewhere, ZenonT(30)
  <2>2. ASSUME NEW d \in CPUs, NEW l \in Locks
        PROVE  holding(d, l)' <=> l \in Owns(on'[d], stk'[on'[d]])
    <3>1. holding(d, l) <=> l \in Owns(on[d], stk[on[d]])
      BY DEF LockInv
    <3>2. CASE l # y
      BY <2>1, <3>1, <3>2 DEF holding
    <3>3. CASE l = y /\ d = c
      BY <2>1, <3>3 DEF holding
    <3>4. CASE l = y /\ d # c
      BY <2>1, <3>1, <3>4, Names, SMT DEF holding
    <3> QED
      BY <3>2, <3>3, <3>4
  <2>3. \A l \in Locks : ~locked'[l] => lkcpu'[l] = None
    BY DEF LockInv
  <2>4. ASSUME NEW d \in CPUs, NEW l \in Locks, Between(stk'[on'[d]], l)
        PROVE  /\ l = y => d = c
               /\ l # y => d # c /\ Between(stk[on[d]], l)
               /\ locked'[l] /\ lkcpu'[l] = None
    <3>1. (l = y => d = c) /\ (l # y => d # c /\ Between(stk[on[d]], l))
      BY <2>1, <2>4, SMT
    <3>2. l # y => locked[l] /\ lkcpu[l] = None
      BY <3>1 DEF LockInv
    <3>3. l = y => locked'[y] /\ lkcpu'[y] = None
      BY <2>1, <2>4, <3>1
    <3> QED
      BY <3>1, <3>2, <3>3, SMT
  <2>5. \A d, e \in CPUs, l \in Locks :
          Between(stk'[on'[d]], l) /\ Between(stk'[on'[e]], l) => d = e
    <3> SUFFICES ASSUME NEW d \in CPUs, NEW e \in CPUs, NEW l \in Locks,
                        Between(stk'[on'[d]], l), Between(stk'[on'[e]], l)
                 PROVE  d = e
      OBVIOUS
    <3> QED
      BY <2>4, SMT DEF LockInv
  <2> QED
    BY <2>2, <2>3, <2>4, <2>5 DEF LockInv
\* Such a step keeps the stacks.
<1>6. ASSUME NEW t, stk' = [stk EXCEPT ![on[c]] = t], UNCHANGED <<on, saved, state>>,
             Stack(on[c], t), Code1(t) = Code1(stk[on[c]])
      PROVE  StackInv' /\ RunInv'
  <2> USE <1>6
  <2>1. /\ Code1(t).at = "slept" => saved[on[c]]
        /\ Code1(t).at = "yielded" => ~saved[on[c]]
        /\ Code1(t).at \in {"tick", "wake", "wakeup"} => c = Cpu0
    BY DEF SafeInv, RunInv
  <2>2. \A p \in Procs : state[p] = "RUNNING" => state'[p] = "RUNNING"
    OBVIOUS
  <2> QED
    BY <2>1, <2>2, RunStep DEF SafeInv
\* push_off().
<1>7. ASSUME push_off_get(c) \/ push_off(c)
      PROVE  StackInv' /\ RunInv' /\ CpuInv' /\ LockInv'
  <2> USE <1>7
  <2> DEFINE k == on[c]
             s == stk[k]
             f == Top(c)
  <2>1. f.at \in {"acquire", "push"} /\ f.at \in Sub /\ f.at \in Acq
    BY DEF push_off_get, push_off, At, Sub, Acq
  <2>2. /\ Stack(k, s) /\ f = s[1] /\ f \in Frames /\ CallOK(k, s[1], Code1(s))
        /\ Fits(s, noff[c], intr[c], intena[c]) /\ k \in DOMAIN stk /\ 1 \in DOMAIN s
    BY <2>1, SubHere, StackHere, SMT DEF SafeInv
  <2>3. PICK g \in Frames : /\ g.x = f.x /\ stk' = [stk EXCEPT ![k] = [s EXCEPT ![1] = g]]
                            /\ push_off_get(c) => g.at = "push" /\ g.old = intr[c]
                            /\ push_off(c) => g.at = "spin"
    <3>1. CASE push_off_get(c)
      <4> DEFINE g == [f EXCEPT !.at = "push", !.old = intr[c]]
      <4>1. "push" \in Labels /\ intr[c] \in BOOLEAN
        BY DEF Labels, SafeInv, Types
      <4>2. g \in Frames /\ g.x = f.x /\ g.at = "push" /\ g.old = intr[c]
        BY <2>2, <4>1 DEF Frames
      <4>3. stk' = [stk EXCEPT ![k] = [s EXCEPT ![1] = g]]
        BY <2>2, <3>1 DEF push_off_get
      <4>4. ~ push_off(c)
        BY <3>1 DEF push_off_get, push_off, At
      <4> QED
        BY <4>2, <4>3, <4>4
    <3>2. CASE push_off(c)
      <4> DEFINE g == GoesTo(f, "spin", f.x)
      <4>1. "spin" \in Labels /\ f.x \in 0 .. NPROC + 1
        BY <2>2 DEF Labels, Frames
      <4>2. g \in Frames /\ g.x = f.x /\ g.at = "spin"
        BY <2>2, <4>1, JumpFrame, SMT
      <4>3. stk' = [stk EXCEPT ![k] = [s EXCEPT ![1] = g]]
        BY <3>2, JumpIs, SMT DEF SafeInv, push_off
      <4>4. ~ push_off_get(c)
        BY <3>2 DEF push_off_get, push_off, At
      <4> QED
        BY <4>2, <4>3, <4>4
    <3> QED
      BY <3>1, <3>2
  <2>4. g.at \in Acq /\ g.at \in Sub /\ g.at \notin {"mark", "unlock"}
    BY <2>3 DEF Acq, Sub
  <2> DEFINE t == [s EXCEPT ![1] = g]
  <2>5. SubOn(k, s, g, t)
    BY <2>1, <2>2, <2>3, <2>4, <1>1
  <2>6. stk' = [stk EXCEPT ![k] = t] /\ UNCHANGED <<locked, lkcpu, on, saved, state>>
    BY <2>3 DEF push_off_get, push_off, lks
  <2> HIDE DEF t
  <2>7. Stack(k, t) /\ t[1] = g /\ Code1(t) = Code1(s)
    BY <2>5 DEF SubOn
  <2>8. StackInv' /\ RunInv'
    BY <2>6, <2>7, <1>6
  <2>9. Owns(k, t) = Owns(k, s)
    BY <2>1, <2>2, <2>3, <2>4, <2>7, <1>4, SMT
  <2>10. LockInv'
    BY <2>4, <2>6, <2>7, <2>9, LockStep DEF SafeInv
  <2>11. /\ \A d \in CPUs \ {c} : noff'[d] = noff[d] /\ intr'[d] = intr[d] /\ intena'[d] = intena[d]
         /\ push_off_get(c) => UNCHANGED <<noff, intr, intena>>
         /\ push_off(c) => /\ noff'[c] = noff[c] + 1 /\ intr'[c] = FALSE
                           /\ intena'[c] = IF noff[c] = 0 THEN f.old ELSE intena[c]
    BY DEF push_off_get, push_off, cpu, SafeInv, Types
  <2>12. Fits(t, noff'[c], intr'[c], intena'[c])
    <3>1. CASE push_off_get(c)
      <4>1. /\ s[1].at = "acquire" /\ t[1].at = "push" /\ t[1].old = intr[c]
            /\ noff'[c] = noff[c] /\ intr'[c] = intr[c] /\ intena'[c] = intena[c]
        BY <2>2, <2>3, <2>7, <2>11, <3>1 DEF push_off_get, At
      <4> QED
        BY <2>2, <2>7, <4>1, <1>3
    <3>2. CASE push_off(c)
      <4>1. /\ s[1].at = "push" /\ t[1].at = "spin" /\ noff'[c] = noff[c] + 1 /\ intr'[c] = FALSE
            /\ intena'[c] = IF noff[c] = 0 THEN s[1].old ELSE intena[c]
        BY <2>2, <2>3, <2>7, <2>11, <3>2 DEF push_off, At
      <4>2. Fits(t, noff[c] + 1, FALSE, IF noff[c] = 0 THEN s[1].old ELSE intena[c])
        BY <2>2, <2>7, <4>1, <1>3
      <4> QED
        BY <4>1, <4>2
    <3> QED
      BY <3>1, <3>2
  <2>13. CpuInv'
    BY <2>6, <2>11, <2>12, CpuStep DEF SafeInv
  <2> QED
    BY <2>8, <2>10, <2>13
\* The steps of acquire() and release() that write the lock.
<1>8. ASSUME acquire_spin(c) \/ release(c) \/ release_unlock(c)
      PROVE  StackInv' /\ RunInv' /\ CpuInv' /\ LockInv'
  <2> USE <1>8
  <2> DEFINE k == on[c]
             s == stk[k]
             f == Top(c)
             y == f.x
  <2>1. PICK l \in {"mark", "unlock", "pop"} :
          /\ Jump(c, l, y) /\ f.at \in Sub /\ (f.at \in Acq <=> l \in Acq)
          /\ acquire_spin(c) => f.at = "spin" /\ l = "mark"
          /\ release(c) => f.at = "release" /\ l = "unlock"
          /\ release_unlock(c) => f.at = "unlock" /\ l = "pop"
    BY DEF acquire_spin, release, release_unlock, At, Sub, Acq, Rel
  <2>2. /\ Stack(k, s) /\ f = s[1] /\ f \in Frames /\ CallOK(k, s[1], Code1(s)) /\ y \in Locks
        /\ Fits(s, noff[c], intr[c], intena[c])
    BY <2>1, SubHere
  <2>3. l \in Labels /\ l \in Sub /\ y \in 0 .. NPROC + 1
    BY <2>2, ZenonT(30) DEF Labels, Frames, Sub, Acq, Rel
  <2> DEFINE g == GoesTo(f, l, y)
             t == [s EXCEPT ![1] = g]
  <2>4. g \in Frames /\ g.at = l /\ g.x = y
    <3>1. f \in Frames /\ l \in Labels /\ y \in 0 .. NPROC + 1
      BY <2>2, <2>3
    <3> HIDE DEF f, y
    <3> QED
      BY <3>1, JumpFrame
  <2>5. stk' = [stk EXCEPT ![k] = t]
    BY <2>1, JumpIs, SMT DEF SafeInv
  <2>6. /\ UNCHANGED <<noff, intr, intena, on, saved, state>>
        /\ \A d \in CPUs \ {c} : noff'[d] = noff[d] /\ intr'[d] = intr[d] /\ intena'[d] = intena[d]
    BY DEF acquire_spin, release, release_unlock, cpu
  <2>7. SubOn(k, s, g, t)
    BY <2>1, <2>2, <2>3, <2>4, <1>1
  <2> HIDE DEF g, t
  <2>8. Stack(k, t) /\ t[1] = g /\ Code1(t) = Code1(s)
    BY <2>7 DEF SubOn
  <2>9. StackInv' /\ RunInv'
    BY <2>5, <2>6, <2>8, <1>6
  <2>10. Fits(t, noff[c], intr[c], intena[c])
    BY <2>1, <2>2, <2>4, <2>8, <1>3
  <2>11. CpuInv'
    BY <2>5, <2>6, <2>10, CpuStep DEF SafeInv
  <2>12. /\ l = "unlock" => Owns(k, s) = Owns(k, t) \cup {y} /\ y \notin Owns(k, t)
         /\ l # "unlock" => Owns(k, s) = Owns(k, t)
    <3>1. t[1].x = s[1].x
      BY <2>2, <2>4, <2>8
    <3>2. /\ t[1].at = l /\ (l = "mark" => s[1].at \in Acq /\ t[1].at \in Acq)
          /\ l = "unlock" => s[1].at = "release"
          /\ l = "pop" => s[1].at = "unlock"
      BY <2>1, <2>2, <2>4, <2>8, ZenonT(30) DEF Acq
    <3>3. /\ s[1].at \in Acq /\ t[1].at \in Acq => Owns(k, t) = Owns(k, s)
          /\ s[1].at = "release" /\ t[1].at = "unlock" =>
               Owns(k, s) = Owns(k, t) \cup {s[1].x} /\ s[1].x \notin Owns(k, t)
          /\ s[1].at = "unlock" /\ t[1].at = "pop" => Owns(k, t) = Owns(k, s)
      <4>1. CallOK(k, s[1], Code1(s)) /\ Code1(t) = Code1(s)
        BY <2>2, <2>8
      <4> QED
        BY <3>1, <4>1, <1>4, SMT
    <3> QED
      BY <2>2, <3>2, <3>3
  <2>13. LockInv'
    <3>1. \A z \in Locks : Between(t, z) <=> l \in {"mark", "unlock"} /\ z = y
      BY <2>4, <2>8 DEF Between
    <3>2. /\ y \in Owns(k, s) <=> locked[y] /\ lkcpu[y] = c
          /\ Between(s, y) => /\ locked[y] /\ lkcpu[y] = None
                              /\ \A d \in CPUs \ {c} : ~Between(stk[on[d]], y)
      BY <2>2 DEF SafeInv, LockInv, holding
    <3>3. \A d \in CPUs : Between(stk[on[d]], y) => locked[y] /\ lkcpu[y] = None
      BY <2>2 DEF SafeInv, LockInv
    <3>4. \A z \in Locks \ {y} : locked'[z] = locked[z] /\ lkcpu'[z] = lkcpu[z]
      BY <2>2 DEF acquire_spin, release, release_unlock, SafeInv, Types
    <3>5. ~locked[y] => lkcpu[y] = None
      BY <2>2 DEF SafeInv, LockInv
    <3>6. c # None
      BY Names
    <3>7. /\ lkcpu[y] \in {c, None} /\ (~locked'[y] => lkcpu'[y] = None)
          /\ y \in Owns(k, t) <=> locked'[y] /\ lkcpu'[y] = c
          /\ Between(t, y) => locked'[y] /\ lkcpu'[y] = None
          /\ lkcpu'[y] = None
          /\ \A d \in CPUs \ {c} : ~Between(stk[on[d]], y)
      <4>1. CASE acquire_spin(c)
        <5>1. ~locked[y] /\ locked'[y] /\ lkcpu' = lkcpu
          BY <2>2, <4>1 DEF acquire_spin, SafeInv, Types
        <5> QED
          BY <2>1, <2>12, <3>2, <3>3, <3>5, <3>6, <4>1, <5>1
      <4>2. CASE release(c)
        <5>1. locked' = locked /\ lkcpu'[y] = None
          BY <2>2, <4>2 DEF release, SafeInv, Types
        <5> QED
          BY <2>1, <2>12, <3>2, <3>3, <3>5, <3>6, <4>2, <5>1
      <4>3. CASE release_unlock(c)
        <5>1. ~locked'[y] /\ lkcpu' = lkcpu /\ Between(s, y)
          BY <2>1, <2>2, <4>3 DEF release_unlock, SafeInv, Types, Between
        <5>2. l = "pop" /\ Owns(k, s) = Owns(k, t) /\ ~Between(t, y)
          BY <2>1, <2>2, <2>12, <3>1, <4>3
        <5>3. lkcpu[y] = None /\ \A d \in CPUs \ {c} : ~Between(stk[on[d]], y)
          BY <3>2, <5>1
        <5> QED
          BY <3>2, <3>6, <5>1, <5>2, <5>3
      <4> QED
        BY <4>1, <4>2, <4>3
    <3>8. /\ \A z \in Locks \ {y} : z \in Owns(k, t) <=> z \in Owns(k, s)
          /\ \A z \in Locks \ {y} : ~Between(t, z)
      BY <2>12, <3>1
    <3> QED
      BY <2>2, <2>5, <2>6, <3>4, <3>7, <3>8, <1>5 DEF SafeInv
  <2> QED
    BY <2>9, <2>11, <2>13
\* acquire() and release() return.
<1>9. ASSUME acquire_mark(c) \/ pop_off(c)
      PROVE  StackInv' /\ RunInv' /\ CpuInv' /\ LockInv'
  <2> USE <1>9
  <2> DEFINE k == on[c]
             s == stk[k]
             f == Top(c)
             y == f.x
             t == Tail(s)
  <2>1. f.at \in {"mark", "pop"} /\ f.at \in Sub
    BY DEF acquire_mark, pop_off, At, Sub, Acq, Rel
  <2>2. /\ Stack(k, s) /\ f = s[1] /\ f \in Frames /\ CallOK(k, s[1], Code1(s)) /\ y \in Locks
        /\ Fits(s, noff[c], intr[c], intena[c]) /\ noff[c] \in 0 .. 3
    BY <2>1, SubHere
  <2>3. stk' = [stk EXCEPT ![k] = t] /\ UNCHANGED <<on, saved, state>>
    BY DEF acquire_mark, pop_off, Pop
  <2>4. SubOff(k, s, t)
    BY <2>1, <2>2, SubReturn
  <2> HIDE DEF t
  <2>5. Stack(k, t) /\ t[1].at \notin Sub /\ Code1(t) = Code1(s)
    BY <2>4 DEF SubOff
  <2>6. StackInv' /\ RunInv'
    BY <2>3, <2>5, <1>6
  <2>7. \A d \in CPUs \ {c} : noff'[d] = noff[d] /\ intr'[d] = intr[d] /\ intena'[d] = intena[d]
    BY DEF acquire_mark, pop_off, cpu, SafeInv, Types
  <2>8. Fits(t, noff'[c], intr'[c], intena'[c])
    <3>1. CASE acquire_mark(c)
      <4>1. UNCHANGED <<noff, intr, intena>> /\ s[1].at = "mark"
        BY <2>2, <3>1 DEF acquire_mark, cpu, At
      <4> QED
        BY <2>2, <2>5, <4>1, <1>3
    <3>2. CASE pop_off(c)
      <4>1. /\ noff'[c] = noff[c] - 1 /\ intr'[c] = (intr[c] \/ (noff[c] = 1 /\ intena[c]))
            /\ UNCHANGED intena /\ s[1].at = "pop"
        BY <2>2, <3>2 DEF pop_off, At, SafeInv, Types
      <4> QED
        BY <2>2, <2>5, <4>1, <1>3
    <3> QED
      BY <3>1, <3>2
  <2>9. CpuInv'
    BY <2>3, <2>7, <2>8, CpuStep DEF SafeInv
  <2>10. t[1].at \notin {"mark", "unlock"}
    BY <2>5 DEF Sub, Acq, Rel
  <2>11. CASE acquire_mark(c)
    <3>1. /\ locked' = locked /\ lkcpu'[y] = c /\ s[1].at = "mark"
          /\ \A z \in Locks \ {y} : locked'[z] = locked[z] /\ lkcpu'[z] = lkcpu[z]
      BY <2>2, <2>11 DEF acquire_mark, At, SafeInv, Types
    <3>2. /\ locked[y] /\ lkcpu[y] = None
          /\ \A d \in CPUs \ {c} : ~Between(stk[on[d]], y)
      BY <2>2, <3>1 DEF SafeInv, LockInv, Between
    <3>3. Owns(k, t) = Owns(k, s) \cup {y}
      <4>1. s[1].at \in Acq
        BY <3>1 DEF Acq
      <4>2. s[1].at \in Acq /\ t[1].at \notin Sub => Owns(k, t) = Owns(k, s) \cup {s[1].x}
        BY <2>2, <2>5, <1>4
      <4> QED
        BY <2>2, <2>5, <4>1, <4>2
    <3>4. \A z \in Locks : ~Between(t, z)
      BY <2>10 DEF Between
    <3>5. LockInv'
      BY <2>2, <2>3, <3>1, <3>2, <3>3, <3>4, <1>5 DEF SafeInv
    <3> QED
      BY <2>6, <2>9, <3>5
  <2>12. CASE pop_off(c)
    <3>1. UNCHANGED <<locked, lkcpu>> /\ s[1].at = "pop"
      BY <2>2, <2>12 DEF pop_off, lks, At
    <3>2. Owns(k, t) = Owns(k, s)
      <4>1. t[1].at \notin Acq /\ t[1].at # "release"
        BY <2>5 DEF Sub, Rel
      <4>2. s[1].at \notin Acq /\ s[1].at # "release"
        BY <3>1 DEF Acq
      <4> QED
        BY <2>5, <4>1, <4>2 DEF Owns
    <3>3. LockInv'
      BY <2>3, <2>10, <3>1, <3>2, LockStep DEF SafeInv
    <3> QED
      BY <2>6, <2>9, <3>3
  <2> QED
    BY <2>11, <2>12
<1> QED
  BY <1>7, <1>8, <1>9
-----------------------------------------------------------------------------
(* Calls and jumps.                                                        *)

\* Code may go on by a call of acquire(), or of release(), of y.
Takes(k, f, y, g) ==
  /\ Follows(k, f, g)
  /\ y \in Locks /\ y \notin Held(k, f) /\ Held(k, g) = Held(k, f) \cup {y}
  /\ Count(g) = Count(f) + 1
  /\ g.at \notin NoAcq /\ (g.at \in Two => y # tickslock)

Lets(k, f, y, g) ==
  /\ Follows(k, f, g)
  /\ y \in Locks /\ y \notin Held(k, g) /\ Held(k, f) = Held(k, g) \cup {y}
  /\ Count(f) = Count(g) + 1
  /\ g.at # "back"

Calls(k, f, h, y, g) ==
  \/ h = "acquire" /\ Takes(k, f, y, g)
  \/ h = "release" /\ Lets(k, f, y, g)

\* A stack with such a call on it.
Called(k, s, h, g, t) ==
  Stack(k, t) /\ Code1(t) = g /\ t[1].at = h /\ Owns(k, t) = Owns(k, s)

\* The interrupt state and intena, i and e, that the call needs.
Ready(f, h, g, i, e) ==
  IF h = "acquire" /\ Count(f) = 0 THEN Agrees(i, g) ELSE ~i /\ Agrees(e, g)
-----------------------------------------------------------------------------
(* The control flow of the code.                                           *)

\* Where code goes on without a call.
JumpsTo ==
  {<<"user", "entry">>, <<"start", "loop">>, <<"loop", "killed">>, <<"prepare", "user">>,
   <<"trap", "tkilled">>, <<"trap", "tyield">>, <<"tick", "wake">>, <<"wake", "wake">>,
   <<"tyield", "tret">>, <<"idle", "open">>, <<"open", "scan">>}

\* Where it calls acquire(), and where that returns to: for the lock of its own
\* process, for tickslock, and for that of the process x.
OwnCalls  == {<<"entry", "entry1">>, <<"return", "return1">>, <<"tkilled", "tkilled1">>,
              <<"killed", "killed1">>, <<"sleep", "sleep1">>, <<"tyield", "yield">>}
TickCalls == {<<"syscall", "start">>, <<"woken", "loop">>, <<"trap", "tick">>}
ItsCalls  == {<<"wake", "wakeup">>, <<"scan", "try">>}

\* Where it calls release().
OwnBack  == {<<"entry1", "syscall">>, <<"return1", "prepare">>, <<"tkilled1", "tyield">>,
             <<"killed1", "sleep">>, <<"slept", "woken">>, <<"forkret", "prepare">>,
             <<"yielded", "tret">>}
TickBack == {<<"loop", "return">>, <<"sleep1", "sched">>, <<"wake", "tkilled">>,
             <<"wake", "tyield">>}
ItsBack  == {<<"wakeup", "wake">>, <<"try", "scan">>, <<"try", "idle">>, <<"back", "idle">>}
-----------------------------------------------------------------------------
(* The steps of the code between the calls.                                *)

\* The interrupt state code at g needs is that of code at f.
Keeps(f, g) == (g.at \in IntrOn => f.at \in IntrOn) /\ (g.at \in IntrOff => f.at \in IntrOff)

\* The code between the calls keeps the invariant, too.
LEMMA CodeSteps ==
  ASSUME SafeInv, NEW c \in CPUs
  PROVE  \/ usertrap_killed(c) \/ sys_pause_killed(c) \/ sleep(c) \/ forkret(c)
         \/ usertrap(c) \/ prepare_return(c) \/ scheduler_intr(c) \/ sys_pause(c)
         \/ sleep_back(c) \/ yield_back(c) \/ scheduler_scan(c) \/ scheduler_release(c)
         \/ sys_pause_start(c) \/ sys_pause_loop(c) \/ clockintr(c) \/ yield(c)
         \/ clockintr_tick(c) \/ wakeup(c) \/ wakeup_one(c)
         => StackInv' /\ RunInv' /\ CpuInv' /\ LockInv'
\* A call of acquire() or release() is on top of the frame it returns to.
<1>1. ASSUME NEW s \in Seq(Frames), s # << >>, NEW f \in Frames, NEW g \in Frames, NEW t,
             t = <<f, g>> \o Tail(s)
      PROVE  /\ t \in Seq(Frames) /\ Len(t) = Len(s) + 1 /\ t[1] = f /\ t[2] = g
             /\ Tail(t) \in Seq(Frames) /\ Len(Tail(t)) = Len(s) /\ Tail(t)[1] = g
             /\ Tail(Tail(t)) = Tail(s)
  <2> USE <1>1
  <2>1. t \in Seq(Frames) /\ Len(t) = Len(s) + 1 /\ t[1] = f /\ t[2] = g
    BY SMT
  <2>2. Tail(t) \in Seq(Frames) /\ Len(Tail(t)) = Len(s) /\ Tail(t)[1] = g
    BY SMT
  <2>3. Tail(Tail(t)) = Tail(s)
    BY SMT
  <2> QED
    BY <2>1, <2>2, <2>3
\* Calling acquire() or release() leaves such a stack, with the same locks owned.
<1>2. ASSUME NEW k, NEW s, Stack(k, s), NEW h, NEW y, NEW g, Calls(k, s[1], h, y, g),
             NEW t, t = <<Frame(h, y), g>> \o Tail(s)
      PROVE  Called(k, s, h, g, t)
  <2> USE <1>2
  <2> USE DEF Called
  <2> DEFINE f == s[1]
             a == Frame(h, y)
  <2>1. Follows(k, f, g) /\ y \in Locks /\ g.at # "back" /\ h \in {"acquire", "release"}
    BY DEF Calls, Takes, Lets, NoAcq
  <2>2. Code(k, s) /\ s # << >> /\ s \in Seq(Frames)
    BY <2>1, SMT DEF Follows, Stack, Code
  <2>3. a \in Frames /\ g \in Frames /\ a.at = h /\ a.x = y
    BY <2>1, SpinlockAssumption, SMT DEF Follows, FrameOK, Frame, Frames, Locks, Procs, tickslock, Labels
  <2>4. CallOK(k, a, g)
    BY <2>1, <2>3 DEF CallOK, Calls, Takes, Lets, Acq, Rel
  <2> HIDE DEF f, a
  <2>5. /\ t \in Seq(Frames) /\ Len(t) = Len(s) + 1 /\ t[1] = a /\ t[2] = g
        /\ Tail(t) \in Seq(Frames) /\ Len(Tail(t)) = Len(s) /\ Tail(t)[1] = g
        /\ Tail(Tail(t)) = Tail(s)
    <3>1. t = <<a, g>> \o Tail(s)
      BY DEF a
    <3> QED
      BY <2>2, <2>3, <3>1, <1>1, SMT
  <2>6. Code(k, Tail(t))
    BY <2>1, <2>2, <2>5 DEF Code, Follows, f
  <2>7. Len(t) \in 2 .. 4
    <3>1. Len(s) \in 1 .. 3
      BY <2>2, SMT DEF Code
    <3>2. \A n \in 1 .. 3 : n + 1 \in 2 .. 4
      BY SMT
    <3> QED
      BY <2>5, <3>1, <3>2
  <2>8. a.at \in Sub /\ (h = "acquire" => h \in Acq) /\ (h = "release" => h \notin Acq)
    BY <2>1, <2>3 DEF Sub, Acq, Rel
  <2>9. Stack(k, t)
    BY <2>4, <2>5, <2>6, <2>7, <2>8 DEF Stack
  <2>10. Code1(t) = g /\ Code1(s) = f /\ f.at \notin Sub
    BY <2>1, <2>5, <2>8 DEF Code1, Follows, f
  <2>11. Owns(k, s) = Held(k, f)
    BY <2>10 DEF Owns, Sub, Rel, f
  <2>12. CASE h = "acquire"
    <3>1. Held(k, g) \ {y} = Held(k, f)
      BY <2>12 DEF Calls, Takes, f
    <3> QED
      BY <2>3, <2>5, <2>8, <2>9, <2>10, <2>11, <2>12, <3>1 DEF Owns
  <2>13. CASE h = "release"
    <3>1. Held(k, g) \cup {y} = Held(k, f)
      BY <2>13 DEF Calls, Lets, f
    <3> QED
      BY <2>3, <2>5, <2>8, <2>9, <2>10, <2>11, <2>13, <3>1 DEF Owns
  <2> QED
    BY <2>1, <2>12, <2>13
\* Then noff, the interrupt state and intena suit the call on top.
<1>3. ASSUME NEW k, NEW f, NEW h, NEW y, NEW g, Calls(k, f, h, y, g), NEW t, t[1].at = h,
             Code1(t) = g, NEW i, NEW e, Ready(f, h, g, i, e)
      PROVE  Fits(t, Count(f), i, e)
  <2> USE <1>3
  <2>1. Count(f) \in Int /\ Count(g) \in Int
    BY CountRange, SMT
  <2>2. CASE h = "acquire"
    <3>1. Count(f) = Count(g) - 1
      BY <2>1, <2>2, SMT DEF Calls, Takes
    <3> QED
      BY <2>2, <3>1 DEF Fits, Ready, Rel
  <2>3. CASE h = "release"
    <3>1. Count(f) = Count(g) + 1
      BY <2>1, <2>3 DEF Calls, Lets
    <3> QED
      BY <2>3, <3>1 DEF Fits, Ready, Rel
  <2> QED
    BY <2>2, <2>3 DEF Calls
\* A step of code that calls acquire() or release(), and may change the interrupt
\* state of its CPU and wake a process, keeps all of it.
<1>4. ASSUME NEW h, NEW y, NEW l, NEW x, Call(c, h, y, l, x),
             l \notin {"slept", "yielded"}, l \in {"tick", "wake", "wakeup"} => c = Cpu0,
             Calls(on[c], Top(c), h, y, Frame(l, x)),
             Ready(Top(c), h, Frame(l, x), intr'[c], intena'[c]),
             UNCHANGED <<locked, lkcpu, noff, on, saved>>,
             \A d \in CPUs \ {c} : intr'[d] = intr[d] /\ intena'[d] = intena[d],
             \A p \in Procs : state[p] = "RUNNING" => state'[p] = "RUNNING"
      PROVE  StackInv' /\ RunInv' /\ CpuInv' /\ LockInv'
  <2> USE <1>4
  <2> DEFINE s == stk[on[c]]
             g == Frame(l, x)
             t == <<Frame(h, y), g>> \o Tail(s)
  <2>1. /\ Stack(on[c], s) /\ Top(c) = s[1] /\ g.at = l
        /\ Calls(on[c], s[1], h, y, g) /\ Ready(s[1], h, g, intr'[c], intena'[c])
    BY StackHere DEF SafeInv, Frame
  <2>2. stk' = [stk EXCEPT ![on[c]] = t]
    BY DEF Call
  <2>3. Top(c).at \notin Sub
    BY DEF Calls, Takes, Lets, Follows
  <2>4. noff[c] = Count(s[1])
    BY <2>1, <2>3, Here
  <2>5. t = <<Frame(h, y), g>> \o Tail(s)
    OBVIOUS
  <2> HIDE DEF s, g, t
  <2>6. Stack(on[c], t) /\ Code1(t) = g /\ t[1].at = h /\ Owns(on[c], t) = Owns(on[c], s)
    <3>1. Called(on[c], s, h, g, t)
      BY <2>1, <2>5, <1>2
    <3> QED
      BY <3>1 DEF Called
  <2>7. Fits(t, noff'[c], intr'[c], intena'[c])
    <3>1. noff'[c] = Count(s[1])
      BY <2>4
    <3>2. Calls(on[c], s[1], h, y, g) /\ Ready(s[1], h, g, intr'[c], intena'[c])
      BY <2>1
    <3> QED
      BY <2>6, <3>1, <3>2, <1>3
  <2>8. StackInv' /\ RunInv'
    BY <2>1, <2>2, <2>6, RunStep DEF SafeInv
  <2>9. CpuInv'
    BY <2>2, <2>7, CpuStep DEF SafeInv
  <2>10. LockInv'
    BY <2>2, <2>6, LockStep DEF SafeInv, s, Calls
  <2> QED
    BY <2>8, <2>9, <2>10
\* So does one that only goes on.
<1>5. ASSUME NEW l, NEW x, Jump(c, l, x), l \notin {"slept", "yielded"},
             l \in {"tick", "wake", "wakeup"} => c = Cpu0, l \in Labels, x \in 0 .. NPROC + 1,
             Moves(on[c], Top(c), GoesTo(Top(c), l, x)),
             Settled(GoesTo(Top(c), l, x), intr'[c], intena'[c]),
             UNCHANGED <<locked, lkcpu, noff, on, saved, state>>,
             \A d \in CPUs \ {c} : intr'[d] = intr[d] /\ intena'[d] = intena[d]
      PROVE  StackInv' /\ RunInv' /\ CpuInv' /\ LockInv'
  <2> USE <1>5
  <2> DEFINE s == stk[on[c]]
             g == GoesTo(Top(c), l, x)
             t == [s EXCEPT ![1] = g]
  <2>1. /\ Stack(on[c], s) /\ Top(c) = s[1] /\ Moves(on[c], s[1], g) /\ Settled(g, intr'[c], intena'[c])
        /\ g.at = l /\ g.old = s[1].old
    BY StackHere, JumpFrame, SMT DEF SafeInv
  <2>2. stk' = [stk EXCEPT ![on[c]] = t]
    BY <2>1, JumpIs DEF SafeInv
  <2>3. Top(c).at \notin Sub /\ l \notin Sub
    BY <2>1 DEF Moves, Follows
  <2>4. noff[c] = Count(g)
    BY <2>1, <2>3, Here DEF Moves
  <2>5. t = [s EXCEPT ![1] = g]
    OBVIOUS
  <2> HIDE DEF s, g, t
  <2>6. Stack(on[c], t) /\ t[1] = g /\ Code1(t) = g /\ Owns(on[c], t) = Owns(on[c], s)
    <3>1. Moved(on[c], s, g, t)
      BY <2>1, <2>5, JumpStack, ZenonT(30)
    <3> QED
      BY <3>1 DEF Moved
  <2>7. Fits(t, noff'[c], intr'[c], intena'[c])
    BY <2>1, <2>3, <2>4, <2>6, CodeFits, SMT
  <2>8. StackInv' /\ RunInv'
    BY <2>1, <2>2, <2>6, RunStep DEF SafeInv
  <2>9. CpuInv'
    BY <2>2, <2>7, CpuStep DEF SafeInv
  <2>10. LockInv'
    BY <2>1, <2>2, <2>3, <2>6, LockStep DEF SafeInv, Sub, Acq, Rel, s
  <2> QED
    BY <2>8, <2>9, <2>10, ZenonT(30)
\* Each of these steps may follow, and holds the locks held before.
<1>6. ASSUME NEW k \in Contexts, NEW f, FrameOK(k, f), f.at \in TrapCode \cup Outer(k),
             NEW g \in Frames, <<f.at, g.at>> \in JumpsTo, g.at = "wake" => g.x >= 1,
             g.at = "tkilled" => k \in Procs
      PROVE  Moves(k, f, g)
  <2> USE <1>6
  <2> USE DEF JumpsTo, TrapCode, ProcCode, IdleCode, Outer, Two, TickHeld, OwnHeld, ItsHeld
  <2>1. Follows(k, f, g)
    BY DEF Follows, FrameOK, Sub, Acq, Rel
  <2>2. Held(k, g) = Held(k, f)
    BY DEF Held
  <2>3. Count(g) = Count(f)
    BY DEF Count
  <2> QED
    BY <2>1, <2>2, <2>3 DEF Moves
\* Each of these calls of acquire() takes a lock that the code does not hold.
<1>7. ASSUME NEW k \in Contexts, NEW f, FrameOK(k, f),
             f.at \in TrapCode \cup Outer(k), NEW g \in Frames, NEW y,
             \/ <<f.at, g.at>> \in OwnCalls /\ k \in Procs /\ y = k
             \/ <<f.at, g.at>> \in TickCalls /\ y = tickslock
             \/ <<f.at, g.at>> \in ItsCalls /\ y = g.x /\ g.x \in Procs
      PROVE  Calls(k, f, "acquire", y, g)
  <2> USE <1>7
  <2> USE DEF OwnCalls, TickCalls, ItsCalls, TrapCode, ProcCode, IdleCode, Outer, Two, TickHeld,
              OwnHeld, ItsHeld
  <2>1. Follows(k, f, g) /\ g.at \notin NoAcq
    BY DEF Follows, FrameOK, Sub, Acq, Rel, NoAcq
  <2>2. y \in Locks /\ y \notin Held(k, f) /\ Held(k, g) = Held(k, f) \cup {y}
    BY Names DEF Held
  <2>3. Count(g) = Count(f) + 1
    BY SMT DEF Count
  <2>4. g.at \in Two => y # tickslock
    BY Names
  <2> QED
    BY <2>1, <2>2, <2>3, <2>4 DEF Calls, Takes
\* Each of these calls of release() gives back a lock that the code holds.
<1>8. ASSUME NEW k \in Contexts, NEW f, FrameOK(k, f),
             f.at \in TrapCode \cup Outer(k), NEW g \in Frames, NEW y,
             \/ <<f.at, g.at>> \in OwnBack /\ y = k
             \/ <<f.at, g.at>> \in TickBack /\ y = tickslock
             \/ <<f.at, g.at>> \in ItsBack /\ y = f.x, g.at = "wake" => g.x >= 1,
             g.at = "tkilled" => k \in Procs
      PROVE  Calls(k, f, "release", y, g)
  <2> USE <1>8
  <2> USE DEF OwnBack, TickBack, ItsBack, TrapCode, ProcCode, IdleCode, Outer, Two, TickHeld,
              OwnHeld, ItsHeld
  <2>1. Follows(k, f, g) /\ g.at # "back"
    BY DEF Follows, FrameOK, Sub, Acq, Rel
  <2>2. f.at \in OwnHeld => k \in Procs
    BY DEF FrameOK
  <2>3. f.at \in ItsHeld => f.x \in Procs
    BY DEF FrameOK
  <2>4. y \in Locks /\ y \notin Held(k, g) /\ Held(k, f) = Held(k, g) \cup {y}
    BY <2>2, <2>3, Names, SMT DEF Held
  <2>5. Count(f) = Count(g) + 1
    BY SMT DEF Count
  <2> QED
    BY <2>1, <2>4, <2>5 DEF Calls, Lets
\* A call that changes neither interrupts nor intena keeps the invariant.
<1>9. ASSUME NEW h, NEW y, NEW l \in Labels, NEW x \in 0 .. NPROC + 1,
             Call(c, h, y, l, x), l \notin {"slept", "yielded"},
             l \in {"tick", "wake", "wakeup"} => c = Cpu0,
             Calls(on[c], Top(c), h, y, Frame(l, x)), Keeps(Top(c), Frame(l, x)),
             UNCHANGED <<locked, lkcpu, noff, intr, intena, on, saved>>,
             \A p \in Procs : state[p] = "RUNNING" => state'[p] = "RUNNING"
      PROVE  StackInv' /\ RunInv' /\ CpuInv' /\ LockInv'
  <2> USE <1>9
  <2> DEFINE f == Top(c)
             g == Frame(l, x)
  <2>1. f.at \notin Sub
    BY DEF Calls, Takes, Lets, Follows
  <2>2. /\ noff[c] = Count(f)
        /\ IF noff[c] = 0 THEN Agrees(intr[c], f) ELSE ~intr[c] /\ Agrees(intena[c], f)
    BY <2>1, Here
  <2>3. Agrees(intr[c], f) => Agrees(intr[c], g)
    BY DEF Keeps, Agrees
  <2>4. Agrees(intena[c], f) => Agrees(intena[c], g)
    BY DEF Keeps, Agrees
  <2>5. h = "release" => Count(f) # 0
    BY CountRange, SMT DEF Calls, Lets
  <2>6. Ready(f, h, g, intr'[c], intena'[c])
    BY <2>2, <2>3, <2>4, <2>5 DEF Ready, Calls
  <2> QED
    BY <2>6, <1>4
\* So does a step without a call.
<1>10. ASSUME NEW l \in Labels, NEW x \in 0 .. NPROC + 1, Jump(c, l, x),
              l \notin {"slept", "yielded"}, l \in {"tick", "wake", "wakeup"} => c = Cpu0,
              <<Top(c).at, l>> \in JumpsTo,
              Top(c).at \in {"start", "loop", "trap", "tick", "wake", "tyield"},
              l = "wake" => x >= 1, l = "tkilled" => on[c] \in Procs,
              UNCHANGED <<locked, lkcpu, noff, intr, intena, on, saved, state>>
       PROVE  StackInv' /\ RunInv' /\ CpuInv' /\ LockInv'
  <2> USE <1>10
  <2> DEFINE f == Top(c)
             g == GoesTo(f, l, x)
  <2>1. f \in Frames /\ g \in Frames /\ g.at = l /\ g.x = x /\ f.at \notin Sub
    BY Here, JumpFrame, SMT DEF Sub, Acq, Rel
  <2>2. /\ on[c] \in Contexts /\ FrameOK(on[c], f) /\ f.at \in TrapCode \cup Outer(on[c])
        /\ noff[c] = Count(f)
        /\ IF noff[c] = 0 THEN Agrees(intr[c], f) ELSE ~intr[c] /\ Agrees(intena[c], f)
    BY <2>1, Here
  <2> HIDE DEF g, f
  <2>3. Moves(on[c], f, g)
    BY <2>1, <2>2, <1>6 DEF f
  <2>4. Keeps(f, g)
    BY <2>1 DEF Keeps, JumpsTo, IntrOn, IntrOff, TrapCode, ProcCode, IdleCode, f
  <2>5. Settled(g, intr'[c], intena'[c])
    BY <2>2, <2>3, <2>4 DEF Settled, Moves, Keeps, Agrees
  <2> QED
    BY <2>3, <2>5, <1>5, ZenonT(30) DEF f, g
\* A call of acquire() that leaves the interrupts as they are.
<1>11. ASSUME NEW y, NEW l \in Labels, NEW x \in 0 .. NPROC + 1,
              Call(c, "acquire", y, l, x), Top(c).at # "syscall", l = "tick" => c = Cpu0,
              \/ <<Top(c).at, l>> \in OwnCalls /\ on[c] \in Procs /\ y = on[c]
              \/ <<Top(c).at, l>> \in TickCalls /\ y = tickslock
              \/ <<Top(c).at, l>> \in ItsCalls /\ y = x /\ x \in Procs,
              UNCHANGED <<locked, lkcpu, noff, intr, intena, on, saved, state>>
       PROVE  StackInv' /\ RunInv' /\ CpuInv' /\ LockInv'
  <2> USE <1>11
  <2> DEFINE f == Top(c)
             g == Frame(l, x)
  <2>1. g \in Frames /\ g.at = l /\ g.x = x /\ f.at \notin Sub
    BY NewFrame DEF Sub, Acq, Rel, OwnCalls, TickCalls, ItsCalls
  <2>2. /\ on[c] \in Contexts /\ FrameOK(on[c], f) /\ f.at \in TrapCode \cup Outer(on[c])
        /\ f.at = "wake" => c = Cpu0
    BY <2>1, Here
  <2> HIDE DEF g
  <2>3. Calls(on[c], f, "acquire", y, g)
    BY <2>1, <2>2, <1>7
  <2>4. Keeps(f, g)
    BY <2>1 DEF Keeps, OwnCalls, TickCalls, ItsCalls, IntrOn, IntrOff, TrapCode, ProcCode, IdleCode
  <2>5. l \notin {"slept", "yielded"} /\ (l \in {"tick", "wake", "wakeup"} => c = Cpu0)
    BY <2>2 DEF OwnCalls, TickCalls, ItsCalls
  <2> QED
    BY <2>3, <2>4, <2>5, <1>9 DEF g
\* A call of release() that leaves intena as it is.
<1>12. ASSUME NEW y, NEW l \in Labels, NEW x \in 0 .. NPROC + 1,
              Call(c, "release", y, l, x), Top(c).at \notin {"slept", "yielded"},
              \/ <<Top(c).at, l>> \in OwnBack /\ y = on[c]
              \/ <<Top(c).at, l>> \in TickBack /\ y = tickslock
              \/ <<Top(c).at, l>> \in ItsBack /\ y = Top(c).x, l = "wake" => x >= 1,
              l = "tkilled" => on[c] \in Procs,
              UNCHANGED <<locked, lkcpu, noff, intr, intena, on, saved>>,
              \A p \in Procs : state[p] = "RUNNING" => state'[p] = "RUNNING"
       PROVE  StackInv' /\ RunInv' /\ CpuInv' /\ LockInv'
  <2> USE <1>12
  <2> DEFINE f == Top(c)
             g == Frame(l, x)
  <2>1. g \in Frames /\ g.at = l /\ g.x = x /\ f.at \notin Sub
    BY NewFrame DEF Sub, Acq, Rel, OwnBack, TickBack, ItsBack
  <2>2. /\ on[c] \in Contexts /\ FrameOK(on[c], f) /\ f.at \in TrapCode \cup Outer(on[c])
        /\ f.at = "wakeup" => c = Cpu0
    BY <2>1, Here
  <2> HIDE DEF g
  <2>3. Calls(on[c], f, "release", y, g)
    BY <2>1, <2>2, <1>8
  <2>4. Keeps(f, g)
    BY <2>1 DEF Keeps, OwnBack, TickBack, ItsBack, IntrOn, IntrOff, TrapCode, ProcCode, IdleCode
  <2>5. l \notin {"slept", "yielded"} /\ (l \in {"tick", "wake", "wakeup"} => c = Cpu0)
    BY <2>2 DEF OwnBack, TickBack, ItsBack
  <2> QED
    BY <2>3, <2>4, <2>5, <1>9 DEF g
\* killed() in usertrap() and in sys_pause(), sleep() up to sched(), and the
\* first step of a new process.
<1>13. ASSUME \/ usertrap_killed(c) \/ sys_pause_killed(c) \/ sleep(c) \/ forkret(c)
       PROVE  StackInv' /\ RunInv' /\ CpuInv' /\ LockInv'
  <2> USE <1>13
  <2> DEFINE Goal == StackInv' /\ RunInv' /\ CpuInv' /\ LockInv'
  <2>1. UNCHANGED <<locked, lkcpu, noff, intr, intena, on, saved, state>>
    BY DEF usertrap_killed, sys_pause_killed, sleep, forkret, lks, cpu
  <2>2. 0 \in 0 .. NPROC + 1
    BY SpinlockAssumption, SMT
  <2>3. ASSUME NEW l, NEW m \in Labels, At(c, l), Call(c, "acquire", on[c], m, 0),
               <<l, m>> \in OwnCalls, l # "tyield"
        PROVE  Goal
    <3>1. Top(c).at = l /\ l # "syscall" /\ m # "tick" /\ on[c] \in Procs
      BY <2>3, ProcHere DEF At, OwnCalls, ProcCode
    <3> QED
      BY <2>1, <2>2, <2>3, <3>1, <1>11
  <2>4. ASSUME NEW l, NEW m \in Labels, NEW y, At(c, l), Call(c, "release", y, m, 0),
               \/ <<l, m>> \in OwnBack /\ y = on[c]
               \/ <<l, m>> \in TickBack /\ y = tickslock,
               l \notin {"slept", "yielded", "wake"}
        PROVE  Goal
    <3>1. Top(c).at = l /\ m \notin {"wake", "tkilled"}
      BY <2>4 DEF At, OwnBack, TickBack
    <3> QED
      BY <2>1, <2>2, <2>4, <3>1, <1>12
  <2> SUFFICES Goal
    OBVIOUS
  <2> HIDE DEF Goal
  <2> DEFINE KilledCode(l, m, n) ==
               /\ m \in Labels /\ n \in Labels /\ l # "tyield" /\ m \notin {"slept", "yielded", "wake"}
               /\ <<l, m>> \in OwnCalls /\ <<m, n>> \in OwnBack
  <2>5. ASSUME NEW l, NEW m, NEW n, Killed(c, l, m, n), KilledCode(l, m, n)
        PROVE  Goal
    BY <2>3, <2>4, <2>5 DEF Killed
  <2>6. /\ KilledCode("entry", "entry1", "syscall") /\ KilledCode("return", "return1", "prepare")
        /\ KilledCode("tkilled", "tkilled1", "tyield") /\ KilledCode("killed", "killed1", "sleep")
    BY DEF OwnCalls, OwnBack, Labels
  <2> HIDE DEF KilledCode
  <2>7. CASE usertrap_killed(c) \/ sys_pause_killed(c)
    BY <2>5, <2>6, <2>7 DEF usertrap_killed, sys_pause_killed
  <2>8. CASE At(c, "sleep") /\ Call(c, "acquire", on[c], "sleep1", 0)
    <3>1. <<"sleep", "sleep1">> \in OwnCalls /\ "sleep1" \in Labels /\ "sleep" # "tyield"
      BY DEF OwnCalls, Labels
    <3> QED
      BY <2>3, <2>8, <3>1
  <2>9. CASE At(c, "sleep1") /\ Call(c, "release", tickslock, "sched", 0)
    <3>1. /\ <<"sleep1", "sched">> \in TickBack /\ "sched" \in Labels
          /\ "sleep1" \notin {"slept", "yielded", "wake"}
      BY DEF TickBack, Labels
    <3> QED
      BY <2>4, <2>9, <3>1
  <2>10. CASE forkret(c)
    <3>1. /\ <<"forkret", "prepare">> \in OwnBack /\ "prepare" \in Labels
          /\ "forkret" \notin {"slept", "yielded", "wake"}
      BY DEF OwnBack, Labels
    <3> QED
      BY <2>4, <2>10, <3>1 DEF forkret
  <2> QED
    BY <2>7, <2>8, <2>9, <2>10 DEF sleep
\* A trap handler that finds usertrap() below runs for a process.
<1>14. ASSUME Top(c).at \in {"trap", "wake"}
       PROVE  AfterTick(c) = "tyield" \/ (AfterTick(c) = "tkilled" /\ on[c] \in Procs)
  <2> USE <1>14
  <2> DEFINE s == stk[on[c]]
  <2>1. Stack(on[c], s) /\ s \in Seq(Frames) /\ s[1].at \in {"trap", "wake"}
    BY StackHere DEF SafeInv
  <2> HIDE DEF s
  <2>2. Len(s) \in 2 .. 3 /\ Interrupted(on[c], Tail(s))
    BY <2>1 DEF Stack, Code, Outer, ProcCode, IdleCode, Sub, Acq, Rel
  <2>3. Tail(s)[1] = s[2]
    BY <2>1, <2>2, PopTop, SMT
  <2>4. s[2].at = "user" => on[c] \in Procs
    BY <2>2, <2>3 DEF Interrupted, Outer, IdleCode
  <2>5. s[2].at # "user" => AfterTick(c) = "tyield"
    BY DEF AfterTick, s
  <2>6. s[2].at = "user" => AfterTick(c) = "tkilled"
    BY DEF AfterTick, s
  <2> QED
    BY <2>4, <2>5, <2>6
\* sys_pause() from its loop on, and the trap handler up to yield().
<1>15. ASSUME \/ sys_pause_start(c) \/ sys_pause_loop(c) \/ clockintr(c) \/ clockintr_tick(c)
              \/ wakeup(c) \/ wakeup_one(c) \/ yield(c)
       PROVE  StackInv' /\ RunInv' /\ CpuInv' /\ LockInv'
  <2> USE <1>15
  <2> DEFINE x == Top(c).x
  <2> USE DEF At
  <2>1. /\ UNCHANGED <<locked, lkcpu, noff, intr, intena, on, saved>>
        /\ \A p \in Procs : state[p] = "RUNNING" => state'[p] = "RUNNING"
        /\ ~wakeup_one(c) => UNCHANGED state
    BY DEF sys_pause_start, sys_pause_loop, clockintr, clockintr_tick, wakeup, wakeup_one, yield, lks,
           cpu, SafeInv, Types
  <2>2. /\ NPROC \in Nat /\ 0 \in 0 .. NPROC + 1 /\ 1 \in 0 .. NPROC + 1 /\ 1 >= 1
        /\ Procs = 1 .. NPROC
    BY SpinlockAssumption, SMT DEF Procs
  <2>3. /\ Top(c).at = "wake" => x \in 1 .. NPROC + 1 /\ c = Cpu0
        /\ Top(c).at = "wakeup" => x \in 1 .. NPROC
        /\ Top(c).at = "tick" => c = Cpu0
        /\ x = NPROC + 1 => x # on[c]
    <3>1. NPROC + 1 \notin Procs /\ NPROC + 1 # c
      BY SpinlockAssumption, SMT DEF Procs
    <3> QED
      BY <2>2, <3>1, Here, SMT DEF FrameOK, Frames, ItsHeld, Sub, Acq, Rel
  <2>4. CASE sys_pause_start(c)
    BY <2>1, <2>2, <2>4, <1>10 DEF sys_pause_start, JumpsTo, Labels
  <2>5. CASE sys_pause_loop(c)
    <3>1. CASE Elapsed(on[c]) < N
      BY <2>1, <2>2, <2>5, <3>1, <1>10, SMT DEF sys_pause_loop, JumpsTo, Labels
    <3>2. CASE ~ (Elapsed(on[c]) < N)
      <4>1. /\ <<"loop", "return">> \in TickBack /\ "return" \in Labels
            /\ Top(c).at = "loop" /\ Call(c, "release", tickslock, "return", 0)
        BY <2>5, <3>2 DEF sys_pause_loop, TickBack, Labels
      <4> QED
        BY <2>1, <2>2, <2>5, <4>1, <1>12
    <3> QED
      BY <3>1, <3>2
  <2>6. CASE clockintr(c)
    <3>1. CASE c = Cpu0
      <4>1. /\ <<Top(c).at, "tick">> \in TickCalls /\ "tick" \in Labels
            /\ Top(c).at # "syscall" /\ Call(c, "acquire", tickslock, "tick", 0) /\ UNCHANGED state
        BY <2>6, <3>1 DEF clockintr, TickCalls, Labels
      <4> QED
        BY <2>1, <2>2, <3>1, <4>1, <1>11
    <3>2. CASE c # Cpu0
      <4>1. Top(c).at = "trap" /\ Jump(c, AfterTick(c), 0)
        BY <2>6, <3>2 DEF clockintr
      <4>2. AfterTick(c) = "tyield" \/ (AfterTick(c) = "tkilled" /\ on[c] \in Procs)
        BY <4>1, <1>14
      <4>3. /\ <<Top(c).at, AfterTick(c)>> \in JumpsTo /\ AfterTick(c) \in Labels
            /\ AfterTick(c) \notin {"slept", "yielded", "tick", "wake", "wakeup"}
        BY <4>1, <4>2 DEF JumpsTo, Labels
      <4>4. AfterTick(c) = "tkilled" => on[c] \in Procs
        BY <4>2
      <4>5. UNCHANGED state
        BY <2>6 DEF clockintr
      <4> QED
        BY <2>1, <2>2, <4>1, <4>3, <4>4, <4>5, <1>10
    <3> QED
      BY <3>1, <3>2
  <2>7. CASE clockintr_tick(c)
    BY <2>1, <2>2, <2>3, <2>7, <1>10 DEF clockintr_tick, JumpsTo, Labels
  <2>8. CASE wakeup(c)
    <3>1. CASE x > NPROC
      <4>1. Top(c).at = "wake" /\ Call(c, "release", tickslock, AfterTick(c), 0)
        <5>1. x # on[c]
          BY <2>2, <2>3, <2>8, <3>1, SMT DEF wakeup
        <5> QED
          BY <2>8, <3>1, <5>1 DEF wakeup
      <4>2. AfterTick(c) = "tyield" \/ (AfterTick(c) = "tkilled" /\ on[c] \in Procs)
        BY <4>1, <1>14
      <4>3. <<"wake", AfterTick(c)>> \in TickBack /\ AfterTick(c) \in Labels
        BY <4>2 DEF TickBack, Labels
      <4> QED
        BY <2>1, <2>2, <2>8, <4>1, <4>2, <4>3, <1>12
    <3>2. CASE ~ (x > NPROC) /\ x = on[c]
      <4>1. /\ Top(c).at = "wake" /\ Jump(c, "wake", x + 1) /\ x + 1 \in 0 .. NPROC + 1
            /\ x + 1 >= 1
        BY <2>2, <2>3, <2>8, <3>2, SMT DEF wakeup
      <4>2. <<Top(c).at, "wake">> \in JumpsTo /\ "wake" \in Labels /\ UNCHANGED state
        BY <2>8, <4>1 DEF JumpsTo, Labels, wakeup
      <4> QED
        BY <2>1, <2>3, <4>1, <4>2, <1>10
    <3>3. CASE ~ (x > NPROC) /\ x # on[c]
      <4>1. /\ Top(c).at = "wake" /\ Call(c, "acquire", x, "wakeup", x) /\ x \in Procs
            /\ x \in 0 .. NPROC + 1
        BY <2>2, <2>3, <2>8, <3>3, SMT DEF wakeup
      <4>2. /\ <<Top(c).at, "wakeup">> \in ItsCalls /\ "wakeup" \in Labels
            /\ Top(c).at # "syscall" /\ UNCHANGED state
        BY <2>8, <4>1 DEF ItsCalls, Labels, wakeup
      <4> QED
        BY <2>1, <4>1, <4>2, <1>11
    <3> QED
      BY <3>1, <3>2, <3>3
  <2>9. CASE wakeup_one(c)
    <3>1. /\ Top(c).at = "wakeup" /\ Call(c, "release", x, "wake", x + 1)
          /\ x + 1 \in 0 .. NPROC + 1 /\ x + 1 >= 1
      BY <2>2, <2>3, <2>9, SMT DEF wakeup_one
    <3>2. <<"wakeup", "wake">> \in ItsBack /\ "wake" \in Labels
      BY DEF ItsBack, Labels
    <3> QED
      BY <2>1, <2>2, <2>9, <3>1, <3>2, <1>12
  <2>10. CASE yield(c)
    <3>1. CASE on[c] \in Procs
      <4>1. /\ <<Top(c).at, "yield">> \in OwnCalls /\ "yield" \in Labels
            /\ Top(c).at # "syscall" /\ Call(c, "acquire", on[c], "yield", 0) /\ UNCHANGED state
        BY <2>10, <3>1 DEF yield, OwnCalls, Labels
      <4> QED
        BY <2>1, <2>2, <3>1, <4>1, <1>11
    <3>2. CASE on[c] \notin Procs
      BY <2>1, <2>2, <2>10, <3>2, <1>10 DEF yield, JumpsTo, Labels
    <3> QED
      BY <3>1, <3>2
  <2> QED
    BY <2>4, <2>5, <2>6, <2>7, <2>8, <2>9, <2>10
\* Steps that turn interrupts on or off: into and out of the kernel, and in
\* scheduler().
<1>16. ASSUME usertrap(c) \/ prepare_return(c) \/ scheduler_intr(c)
       PROVE  StackInv' /\ RunInv' /\ CpuInv' /\ LockInv'
  <2> USE <1>16
  <2> DEFINE f == Top(c)
  <2>1. /\ UNCHANGED <<locked, lkcpu, noff, intena, on, saved, state>>
        /\ \A d \in CPUs \ {c} : intr'[d] = intr[d] /\ intena'[d] = intena[d]
    BY DEF usertrap, prepare_return, scheduler_intr, lks, SafeInv, Types
  <2>2. 0 \in 0 .. NPROC + 1
    BY SpinlockAssumption, SMT
  <2>3. PICK l \in Labels : /\ Jump(c, l, 0) /\ <<f.at, l>> \in JumpsTo
                            /\ l \in {"entry", "user", "open", "scan"}
                            /\ intr'[c] <=> l \in {"user", "open"}
    <3>1. /\ usertrap(c) => Jump(c, "entry", 0) /\ <<f.at, "entry">> \in JumpsTo /\ ~intr'[c]
          /\ prepare_return(c) => Jump(c, "user", 0) /\ <<f.at, "user">> \in JumpsTo /\ intr'[c]
      BY DEF usertrap, prepare_return, JumpsTo, At, SafeInv, Types
    <3>2. scheduler_intr(c) =>
            \/ Jump(c, "open", 0) /\ <<f.at, "open">> \in JumpsTo /\ intr'[c]
            \/ Jump(c, "scan", 0) /\ <<f.at, "scan">> \in JumpsTo /\ ~intr'[c]
      BY DEF scheduler_intr, JumpsTo, At, SafeInv, Types
    <3> QED
      BY <3>1, <3>2 DEF Labels
  <2> DEFINE g == GoesTo(f, l, 0)
  <2>4. f \in Frames /\ g \in Frames /\ g.at = l /\ g.x = 0 /\ f.at \notin Sub
    <3>1. f.at \notin Sub
      BY <2>3, SMT DEF Sub, Acq, Rel, JumpsTo
    <3>2. f \in Frames
      BY <3>1, Here
    <3> QED
      BY <2>2, <3>1, <3>2, JumpFrame, ZenonT(30)
  <2>5. on[c] \in Contexts /\ FrameOK(on[c], f) /\ f.at \in TrapCode \cup Outer(on[c])
    BY <2>4, Here
  <2> HIDE DEF g, f
  <2>6. Moves(on[c], f, g)
    BY <2>3, <2>4, <2>5, <1>6
  <2>7. Settled(g, intr'[c], intena'[c])
    BY <2>3, <2>4 DEF Settled, Agrees, Count, Two, TickHeld, OwnHeld, ItsHeld, IntrOn, IntrOff
  <2> QED
    BY <2>1, <2>2, <2>3, <2>6, <2>7, <1>5 DEF f, g
\* sys_pause() turns interrupts on and takes tickslock.
<1>17. ASSUME sys_pause(c)
       PROVE  StackInv' /\ RunInv' /\ CpuInv' /\ LockInv'
  <2> USE <1>17
  <2> DEFINE f == Top(c)
             g == Frame("start", 0)
  <2>1. /\ UNCHANGED <<locked, lkcpu, noff, intena, on, saved, state>> /\ intr'[c]
        /\ \A d \in CPUs \ {c} : intr'[d] = intr[d] /\ intena'[d] = intena[d]
        /\ f.at = "syscall" /\ Call(c, "acquire", tickslock, "start", 0)
    BY DEF sys_pause, lks, SafeInv, Types, At
  <2>2. g \in Frames /\ g.at = "start" /\ f.at \notin Sub /\ <<f.at, g.at>> \in TickCalls
    BY <2>1, NewFrame, SpinlockAssumption, SMT DEF Labels, Sub, Acq, Rel, TickCalls
  <2>3. on[c] \in Contexts /\ FrameOK(on[c], f) /\ f.at \in TrapCode \cup Outer(on[c])
    BY <2>2, Here
  <2> HIDE DEF g, f
  <2>4. Calls(on[c], f, "acquire", tickslock, g)
    BY <2>2, <2>3, <1>7
  <2>5. Count(f) = 0 /\ Agrees(intr'[c], g)
    BY <2>1, <2>2 DEF Agrees, Count, Two, TickHeld, OwnHeld, ItsHeld, IntrOn, IntrOff
  <2>6. Ready(f, "acquire", g, intr'[c], intena'[c])
    BY <2>5 DEF Ready
  <2>7. /\ "start" \notin {"slept", "yielded"} /\ "start" \notin {"tick", "wake", "wakeup"}
        /\ \A p \in Procs : state[p] = "RUNNING" => state'[p] = "RUNNING"
    BY <2>1
  <2> QED
    BY <2>1, <2>4, <2>6, <2>7, <1>4 DEF f, g
\* The second halves of sleep() and yield(), on whichever CPU: sched() has put
\* back the intena that the process had.
<1>18. ASSUME sleep_back(c) \/ yield_back(c)
       PROVE  StackInv' /\ RunInv' /\ CpuInv' /\ LockInv'
  <2> USE <1>18
  <2>1. UNCHANGED <<locked, lkcpu, noff, intr, on, saved, state>>
    BY DEF sleep_back, yield_back, lks
  <2>2. 0 \in 0 .. NPROC + 1
    BY SpinlockAssumption, SMT
  <2>3. CASE At(c, "woken") /\ Call(c, "acquire", tickslock, "loop", 0) /\ UNCHANGED intena
    <3>1. /\ <<Top(c).at, "loop">> \in TickCalls /\ "loop" \in Labels /\ Top(c).at # "syscall"
          /\ "loop" # "tick"
      BY <2>3 DEF At, TickCalls, Labels
    <3> QED
      BY <2>1, <2>2, <2>3, <3>1, <1>11
  <2>4. ASSUME NEW l \in Labels, sched_back(c), Call(c, "release", on[c], l, 0),
               \/ Top(c).at = "slept" /\ l = "woken"
               \/ Top(c).at = "yielded" /\ l = "tret"
        PROVE  StackInv' /\ RunInv' /\ CpuInv' /\ LockInv'
    <3> DEFINE f == Top(c)
               g == Frame(l, 0)
    <3>1. /\ intena'[c] = saved[on[c]]
          /\ \A d \in CPUs \ {c} : intr'[d] = intr[d] /\ intena'[d] = intena[d]
      BY <2>1, <2>4 DEF sched_back, SafeInv, Types
    <3>2. g \in Frames /\ g.at = l /\ g.x = 0 /\ f.at \notin Sub /\ <<f.at, g.at>> \in OwnBack
      BY <2>2, <2>4, NewFrame DEF Sub, Acq, Rel, OwnBack
    <3>3. /\ on[c] \in Contexts /\ FrameOK(on[c], f) /\ f.at \in TrapCode \cup Outer(on[c])
          /\ noff[c] = Count(f)
          /\ IF noff[c] = 0 THEN Agrees(intr[c], f) ELSE ~intr[c] /\ Agrees(intena[c], f)
      BY <3>2, Here
    <3>4. Code1(stk[on[c]]) = f
      BY <3>2, StackHere DEF Code1, SafeInv
    <3>5. saved[on[c]] = (l = "woken")
      <4>1. f.at = "slept" => saved[on[c]]
        BY <3>4 DEF SafeInv, RunInv
      <4>2. f.at = "yielded" => ~saved[on[c]]
        BY <3>4 DEF SafeInv, RunInv
      <4>3. f.at \in OwnHeld
        BY <2>4 DEF OwnHeld
      <4>4. saved[on[c]] \in BOOLEAN
        BY <3>3, <4>3 DEF FrameOK, SafeInv, Types
      <4> QED
        BY <2>4, <4>1, <4>2, <4>4
    <3> HIDE DEF f, g
    <3>6. Calls(on[c], f, "release", on[c], g)
      BY <2>4, <3>2, <3>3, <1>8
    <3>7. Count(f) = 1
      BY <2>4 DEF f, Count, Two, TickHeld, OwnHeld, ItsHeld
    <3>8. Agrees(intena'[c], g)
      BY <2>4, <3>1, <3>2, <3>5 DEF Agrees, IntrOn, IntrOff
    <3>9. Ready(f, "release", g, intr'[c], intena'[c])
      BY <2>1, <3>3, <3>7, <3>8, SMT DEF Ready
    <3>10. l \notin {"slept", "yielded", "tick", "wake", "wakeup"}
      BY <2>4
    <3> QED
      BY <2>1, <2>4, <3>1, <3>6, <3>9, <3>10, <1>4 DEF f, g
  <2>5. CASE At(c, "slept") /\ sched_back(c) /\ Call(c, "release", on[c], "woken", 0)
    BY <2>4, <2>5 DEF At, Labels
  <2>6. CASE yield_back(c)
    BY <2>4, <2>6 DEF At, Labels, yield_back
  <2> QED
    BY <2>3, <2>5, <2>6 DEF sleep_back
\* scheduler() takes and releases the lock of a process.
<1>19. ASSUME scheduler_scan(c) \/ scheduler_release(c)
       PROVE  StackInv' /\ RunInv' /\ CpuInv' /\ LockInv'
  <2> USE <1>19
  <2>1. UNCHANGED <<locked, lkcpu, noff, intr, intena, on, saved, state>>
    BY DEF scheduler_scan, scheduler_release, lks, cpu
  <2>2. 0 \in 0 .. NPROC + 1 /\ Procs \subseteq 0 .. NPROC + 1
    BY SpinlockAssumption, SMT DEF Procs
  <2>3. CASE scheduler_scan(c)
    <3>1. PICK q \in Procs : Call(c, "acquire", q, "try", q)
      BY <2>3 DEF scheduler_scan
    <3>2. /\ <<Top(c).at, "try">> \in ItsCalls /\ "try" \in Labels /\ Top(c).at # "syscall"
          /\ "try" # "tick" /\ q \in 0 .. NPROC + 1
      BY <2>2, <2>3 DEF scheduler_scan, At, ItsCalls, Labels
    <3> QED
      BY <2>1, <3>1, <3>2, <1>11
  <2>4. CASE scheduler_release(c)
    <3>1. PICK l \in {"scan", "idle"} : Call(c, "release", Top(c).x, l, 0) /\ <<Top(c).at, l>> \in ItsBack
      BY <2>4 DEF scheduler_release, At, ItsBack
    <3>2. /\ l \in Labels /\ l \notin {"wake", "tkilled"} /\ Top(c).at \notin {"slept", "yielded"}
      BY <3>1 DEF Labels, ItsBack
    <3> QED
      BY <2>1, <2>2, <3>1, <3>2, <1>12
  <2> QED
    BY <2>3, <2>4
<1> QED
  BY <1>13, <1>15, <1>16, <1>17, <1>18, <1>19
-----------------------------------------------------------------------------
(* The invariant.                                                          *)

\* Every step keeps the invariant.
LEMMA NextInv ==
  ASSUME IInv, [Next]_vars
  PROVE  IInv'
<1>1. SafeInv /\ TickInv
  BY SMT DEF IInv, SafeInv
<1>2. CASE Next
  <2>1. PICK c \in CPUs : Step(c)
    BY <1>2, SMT DEF Next
  <2>2. Types'
    BY <1>1, <2>1, TypesStep
  <2>3. TickInv'
    BY <1>1, <2>1, TickKept
  <2>4. StackInv' /\ RunInv' /\ CpuInv' /\ LockInv'
    <3>1. CASE \/ push_off_get(c) \/ push_off(c) \/ acquire_spin(c) \/ acquire_mark(c)
               \/ release(c) \/ release_unlock(c) \/ pop_off(c)
      BY <1>1, <3>1, SubSteps
    <3>2. CASE \/ usertrap_killed(c) \/ sys_pause_killed(c) \/ sleep(c) \/ forkret(c)
               \/ usertrap(c) \/ prepare_return(c) \/ scheduler_intr(c) \/ sys_pause(c)
               \/ sleep_back(c) \/ yield_back(c) \/ scheduler_scan(c) \/ scheduler_release(c)
               \/ sys_pause_start(c) \/ sys_pause_loop(c) \/ clockintr(c) \/ yield(c)
               \/ clockintr_tick(c) \/ wakeup(c) \/ wakeup_one(c)
      BY <1>1, <3>2, CodeSteps
    <3>3. CASE interrupt(c) \/ kerneltrap_return(c)
      BY <1>1, <3>3, InterruptSteps
    <3>4. CASE sleep_sched(c) \/ yield_sched(c) \/ scheduler_swtch(c)
      BY <1>1, <3>4, SchedSteps, SwtchStep
    <3> QED
      BY <2>1, <3>1, <3>2, <3>3, <3>4 DEF Step
  <2> QED
    BY <2>2, <2>3, <2>4 DEF IInv
<1>3. CASE UNCHANGED vars
  <2> USE <1>3 DEF vars, IInv
  <2>1. Types' /\ StackInv'
    BY DEF Types, StackInv
  <2>2. RunInv'
    BY DEF RunInv, Parked
  <2>3. CpuInv'
    BY DEF CpuInv
  <2>4. LockInv'
    BY DEF LockInv, holding
  <2>5. TickInv'
    BY DEF TickInv, Coming, Elapsed
  <2> QED
    BY <2>1, <2>2, <2>3, <2>4, <2>5
<1> QED
  BY <1>2, <1>3

\* The invariant holds in every reachable state, for any CPUs and processes.
THEOREM Invariance == Spec => []IInv
<1>1. Init => IInv
  BY InitInv
<1>2. IInv /\ [Next]_vars => IInv'
  BY NextInv
<1> QED
  BY <1>1, <1>2, PTL DEF Spec
-----------------------------------------------------------------------------
(* What follows, but for counting locks.                                   *)

\* CPUs never spin in a circle, each on a lock that another one of them holds:
\* sleep(), wakeup(), the timer interrupt and scheduler() take tickslock before
\* the lock of a process, and never two of these.
THEOREM SpinsEnd == Spec => []NoSpinCycle
<1>1. IInv => NoSpinCycle
  <2> SUFFICES ASSUME IInv, NEW S \in (SUBSET CPUs) \ {{}},
                      \A c \in S : At(c, "spin") /\ locked[Top(c).x] /\ lkcpu[Top(c).x] \in S
               PROVE  FALSE
    BY DEF NoSpinCycle
  <2>1. SafeInv
    BY DEF IInv, SafeInv
  <2>2. \A c \in S : Top(c).x \in Locks
    BY <2>1, SubHere, SMT DEF At, Sub, Acq
  <2>3. ASSUME NEW c \in S
        PROVE  \E d \in S : Top(c).x = tickslock /\ Top(d).x # tickslock
    <3>1. lkcpu[Top(c).x] \in S /\ holding(lkcpu[Top(c).x], Top(c).x)
      BY DEF holding
    <3> QED
      BY <2>1, <2>2, <3>1, SpinOrder
  <2> QED
    BY <2>3
<1> QED
  BY <1>1, Invariance, PTL

\* A process asleep in pause() whose time is up is one that the wakeup() of the
\* tick in progress has still to look at, so no tick is missed, between the
\* test of sys_pause() and sched() too.
THEOREM TicksReachSleepers == Spec => []NoMissedTick
<1>1. IInv => NoMissedTick
  <2> SUFFICES ASSUME IInv, NEW p \in Procs, state[p] = "SLEEPING", Elapsed(p) >= N
               PROVE  \E i \in 1 .. Len(stk[on[Cpu0]]) :
                        stk[on[Cpu0]][i].at \in {"wake", "wakeup"} /\ stk[on[Cpu0]][i].x <= p
    BY DEF NoMissedTick
  <2>1. Elapsed(p) \in Int
    BY SpinlockAssumption, SMT DEF IInv, Types, Elapsed
  <2>2. Coming(p)
    BY <2>1, SpinlockAssumption, SMT DEF IInv, TickInv
  <2>3. Stack(on[Cpu0], stk[on[Cpu0]])
    BY Names DEF IInv, Types, StackInv
  <2>4. /\ 1 \in 1 .. Len(stk[on[Cpu0]])
        /\ stk[on[Cpu0]][1].at \in Sub => 2 \in 1 .. Len(stk[on[Cpu0]])
    <3>1. \A k, s : Code(k, s) => s[1].at \notin Sub /\ Len(s) \in 1 .. 3
      BY SMT DEF Code, TrapCode, Outer, ProcCode, IdleCode, Sub, Acq, Rel
    <3> QED
      BY <2>3, <3>1, SMT DEF Stack
  <2> QED
    BY <2>2, <2>4 DEF Coming, Code1
<1> QED
  BY <1>1, Invariance, PTL

\* The locks that the code at f holds, at most two, are as many as Count says.
LEMMA HeldIs ==
  ASSUME NEW k, NEW f, FrameOK(k, f)
  PROVE  \/ Held(k, f) = {} /\ Count(f) = 0
         \/ \E y : Held(k, f) = {y} /\ Count(f) = 1
         \/ \E x, y : x # y /\ Held(k, f) = {x} \cup {y} /\ Count(f) = 2
<1> USE DEF Held, FrameOK, Count, Two, TickHeld, OwnHeld, ItsHeld
<1>1. CASE f.at \in {"killed1", "sleep1"}
  <2>1. Held(k, f) = {tickslock} \cup {k} /\ k # tickslock /\ Count(f) = 2
    BY <1>1, Names
  <2> HIDE DEF Held, Count
  <2> QED
    BY <2>1
<1>2. CASE f.at = "wakeup"
  <2>1. Held(k, f) = {tickslock} \cup {f.x} /\ f.x # tickslock /\ Count(f) = 2
    BY <1>2, Names
  <2> HIDE DEF Held, Count
  <2> QED
    BY <2>1
<1>3. CASE f.at \notin Two /\ f.at \in TickHeld
  BY <1>3, Names, SMT
<1>4. CASE f.at \notin Two /\ f.at \in OwnHeld
  BY <1>4, Names, SMT
<1>5. CASE f.at \in {"try", "back"}
  BY <1>5, Names, ZenonT(30)
<1>6. CASE f.at \notin TickHeld \cup OwnHeld \cup ItsHeld
  BY <1>6
<1> QED
  BY <1>1, <1>2, <1>3, <1>4, <1>5, <1>6

\* noff is one more than the locks held from "spin" to "mark", and from "unlock" to
\* "pop".
Extra(c) == IF Top(c).at \in {"spin", "mark", "unlock", "pop"} THEN 1 ELSE 0

\* The locks that a CPU holds are those of its code, without the one that it is
\* acquiring, and with the one that it is releasing.
LEMMA OwnsIs ==
  ASSUME SafeInv, NEW c \in CPUs, NEW s, s = stk[on[c]], NEW h, h = Held(on[c], Code1(s))
  PROVE  \/ Owns(on[c], s) = h /\ noff[c] = Count(Code1(s)) + Extra(c)
         \/ \E y \in h : Owns(on[c], s) = h \ {y} /\ noff[c] = Count(Code1(s)) - 1 + Extra(c)
         \/ \E y : y \notin h /\ Owns(on[c], s) = h \cup {y} /\ noff[c] = Count(Code1(s)) + 1 + Extra(c)
<1>1. Count(Code1(s)) \in 0 .. 2
  BY CountRange
<1>2. CASE Top(c).at \notin Sub
  <2>1. noff[c] = Count(Top(c)) /\ Top(c) = s[1] /\ Extra(c) = 0
    <3>1. Extra(c) = 0
      BY <1>2 DEF Sub, Acq, Rel, Extra
    <3>2. noff[c] = Count(Top(c))
      BY <1>2, Here
    <3>3. Top(c) = s[1]
      BY SMT DEF Top
    <3> QED
      BY <3>1, <3>2, <3>3
  <2>2. Owns(on[c], s) = h /\ Code1(s) = Top(c)
    BY <1>2, <2>1 DEF Owns, Code1, Sub, Acq, Rel
  <2> QED
    BY <1>1, <2>1, <2>2, SMT
<1>3. CASE Top(c).at \in Sub
  <2>1. /\ Top(c) = s[1] /\ Fits(s, noff[c], intr[c], intena[c])
        /\ s[1].at \in Acq => s[1].x \in h
        /\ s[1].at \in Rel => s[1].x \notin h
    BY <1>3, SubHere DEF CallOK
  <2>2. CASE s[1].at \in Acq
    <3>1. Owns(on[c], s) = h \ {s[1].x}
      BY <2>2 DEF Owns
    <3>2. noff[c] = IF s[1].at \in {"acquire", "push"} THEN Count(Code1(s)) - 1 ELSE Count(Code1(s))
      BY <2>1, <2>2 DEF Fits, Acq, Rel
    <3>3. Extra(c) = IF s[1].at \in {"acquire", "push"} THEN 0 ELSE 1
      BY <2>1, <2>2 DEF Extra, Acq
    <3>4. noff[c] = Count(Code1(s)) - 1 + Extra(c)
      BY <1>1, <3>2, <3>3, SMT
    <3> QED
      BY <2>1, <2>2, <3>1, <3>4
  <2>3. CASE s[1].at = "release"
    <3>1. Owns(on[c], s) = h \cup {s[1].x} /\ s[1].at \in Rel
      BY <2>3 DEF Owns, Acq, Rel
    <3>2. noff[c] = Count(Code1(s)) + 1 /\ Extra(c) = 0
      BY <2>1, <2>3 DEF Fits, Rel, Extra
    <3>3. noff[c] = Count(Code1(s)) + 1 + Extra(c)
      BY <1>1, <3>2, SMT
    <3> QED
      BY <2>1, <3>1, <3>3
  <2>4. CASE s[1].at \in {"unlock", "pop"}
    <3>1. Owns(on[c], s) = h
      BY <2>4 DEF Owns, Acq
    <3>2. noff[c] = Count(Code1(s)) + 1 /\ Extra(c) = 1
      BY <2>1, <2>4 DEF Fits, Rel, Extra
    <3> QED
      BY <3>1, <3>2
  <2> QED
    BY <1>3, <2>1, <2>2, <2>3, <2>4 DEF Sub, Rel
<1> QED
  BY <1>2, <1>3

\* The parts of LocksBalanced that count nothing.
LEMMA Restored ==
  ASSUME SafeInv
  PROVE  TypeOK /\ InterruptsRestored /\ NoPanic
<1>1. TypeOK
  BY InvTypes, SMT
<1>2. InterruptsRestored
  BY InterruptsHere, SMT DEF InterruptsRestored
<1>3. NoPanic
  BY NoPanicHere DEF NoPanic, At
<1> QED
  BY <1>1, <1>2, <1>3
-----------------------------------------------------------------------------
(* How many locks there are.                                               *)

\* The lemmas about finite sets are about their own instance of Cardinality, which
\* is defined as that of NoffExact is.
Size(S) == Cardinality(S)

\* How that one is defined.
LEMMA SizeIs ==
  \A S : Size(S) = LET CS[T \in SUBSET S] == IF T = {} THEN 0 ELSE 1 + CS[T \ {CHOOSE x : x \in T}]
                   IN  CS[S]
BY DEF Size, Cardinality

LOCAL INSTANCE FiniteSetTheorems

\* The two are equal.
LEMMA SizeCard == \A S : Size(S) = Cardinality(S)
BY SizeIs DEF Cardinality

\* The code at f holds as many locks as Count says.
LEMMA HeldSize ==
  ASSUME NEW k, NEW f, FrameOK(k, f)
  PROVE  IsFiniteSet(Held(k, f)) /\ Cardinality(Held(k, f)) = Count(f)
<1>1. IsFiniteSet({}) /\ Cardinality({}) = 0
  BY FS_EmptySet
<1>2. \A y : IsFiniteSet({y}) /\ Cardinality({y}) = 1
  BY FS_Singleton
<1>3. ASSUME NEW x, NEW y, x # y
      PROVE  IsFiniteSet({x} \cup {y}) /\ Cardinality({x} \cup {y}) = 2
  <2>1. IsFiniteSet({x} \cup {y}) /\ Cardinality({x} \cup {y}) = Cardinality({x}) + 1
    BY <1>2, <1>3, FS_AddElement
  <2>2. 1 + 1 = 2
    BY SMT
  <2> QED
    BY <1>2, <2>1, <2>2
<1>4. CASE Held(k, f) = {} /\ Count(f) = 0
  BY <1>1, <1>4
<1>5. CASE \E y : Held(k, f) = {y} /\ Count(f) = 1
  BY <1>2, <1>5
<1>6. CASE \E x, y : x # y /\ Held(k, f) = {x} \cup {y} /\ Count(f) = 2
  <2>1. PICK x, y : x # y /\ Held(k, f) = {x} \cup {y} /\ Count(f) = 2
    BY <1>6
  <2>2. IsFiniteSet({x} \cup {y}) /\ Cardinality({x} \cup {y}) = 2
    BY <1>3, <2>1
  <2> QED
    BY <2>1, <2>2
<1> QED
  BY <1>4, <1>5, <1>6, HeldIs

\* How many locks a CPU holds, in and out of acquire() and release().
LEMMA OwnsSize ==
  ASSUME SafeInv, NEW c \in CPUs
  PROVE  noff[c] = Cardinality(Owns(on[c], stk[on[c]])) + Extra(c)
<1> DEFINE s == stk[on[c]]
           h == Held(on[c], Code1(s))
           n == Count(Code1(s))
<1>1. IsFiniteSet(h) /\ Cardinality(h) = n
  BY CodeFrame, HeldSize
<1>2. \A y \in h : Cardinality(h \ {y}) = n - 1
  BY <1>1, FS_RemoveElement
<1>3. \A y : y \notin h => Cardinality(h \cup {y}) = n + 1
  BY <1>1, FS_AddElement
<1>4. \/ Owns(on[c], s) = h /\ noff[c] = n + Extra(c)
      \/ \E y \in h : Owns(on[c], s) = h \ {y} /\ noff[c] = n - 1 + Extra(c)
      \/ \E y : y \notin h /\ Owns(on[c], s) = h \cup {y} /\ noff[c] = n + 1 + Extra(c)
  BY OwnsIs
<1>5. noff[c] = Cardinality(Owns(on[c], s)) + Extra(c)
  <2> HIDE DEF s, h, n
  <2> QED
    BY <1>1, <1>2, <1>3, <1>4
<1> QED
  BY <1>5

\* noff counts the locks that a CPU holds, interrupts are as the running thread
\* left them on whichever CPU it is now, and acquire(), release(), pop_off(),
\* sched() and kerneltrap() reach no panic(), for any number of CPUs and
\* processes.
THEOREM LocksStayBalanced == Spec => []LocksBalanced
<1>1. IInv => LocksBalanced
  <2> SUFFICES ASSUME IInv PROVE LocksBalanced
    OBVIOUS
  <2>1. SafeInv
    BY DEF IInv, SafeInv
  <2>2. NoffExact
    BY <2>1, OwnsSize, HeldOwned, SizeCard DEF NoffExact, Size, Extra
  <2> QED
    BY <2>1, <2>2, Restored DEF LocksBalanced
<1> QED
  BY <1>1, Invariance, PTL
=============================================================================
