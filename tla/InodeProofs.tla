---------------------------- MODULE InodeProofs ----------------------------
(***************************************************************************)
(* The inductive invariant of the inode table of kernel/fs.c, for every    *)
(* number of processes, inodes, slots and links: every step of a process   *)
(* is of one of a few kinds (StepKinds), and each of them keeps the parts  *)
(* about references, locks, slots, the disk, and inodes in use, new or     *)
(* being freed.  InodeTheorems has the rest.                               *)
(***************************************************************************)
EXTENDS Inode, FiniteSetTheorems, TLAPS

USE Zenon
-----------------------------------------------------------------------------
(* What a process's next step says about it.                               *)

\* It has an inode; of these, the ones that have not looked at it yet, that
\* have it locked, and for which it is freed already.
Holding  == {"ilock_open", "opened", "ilock_new", "created", "ilock_link", "linked", "dirlink",
             "ilock_bad", "bad", "ilock_unlink", "unlinking", "unlinked", "iput", "ifree",
             "ifreed", "idrop", "iput_fail", "ifree_fail", "ifreed_fail", "idrop_fail"}
Fetching == {"ilock_open", "ilock_new", "ilock_link", "ilock_unlink"}
Locking  == {"opened", "created", "linked", "bad", "unlinking", "unlinked", "ifree", "ifreed",
             "ifree_fail", "ifreed_fail"}
Freeing  == {"ifree", "ifree_fail"}
Freed    == {"ifreed", "ifreed_fail"}
Gone     == Freed \cup {"idrop", "idrop_fail"}
Using    == Holding \ Gone

\* It has the directory locked; it is in open() or mknod(), without a file yet;
\* its inode's link count is one more than there are entries; it is outside of
\* any operation.
InDir    == {"iget_new", "ilock_new", "created", "iput_fail", "ifree_fail", "ifreed_fail",
             "idrop_fail", "ilock_unlink", "unlinking"}
NoFile   == {"open", "create", "ilock_open", "opened", "iget_new", "ilock_new", "created"}
Ahead    == {"dirlink", "ilock_bad", "bad", "unlinked"}
Outside  == {"user", "reading"}

Pcs == Holding \cup NoFile \cup Outside \cup {"link", "unlink", "end"}

Ino(p)      == itable[ip[p]].inum
Pending(i)  == {p \in Procs : pc[p] \in Ahead /\ Ino(p) = i}
Pointers(s) == {p \in Procs : ip[p] = s}
Files(s)    == {p \in Procs : file[p] # None /\ file[p][1] = s}
-----------------------------------------------------------------------------
(* The invariant.                                                          *)

Slot == [inum : 0 .. ninodes, ref : Nat, valid : BOOLEAN, type : {0, 1},
         nlink : 0 .. MaxLinks, lock : Procs \cup {None}]
Disk  == [Inums -> [type : {0, 1}, nlink : 0 .. MaxLinks]]
Names == [Inums -> 0 .. MaxLinks]

Types ==
  /\ dinode \in Disk /\ entries \in Names /\ durable \in Disk \X Names
  /\ itable \in [Slots -> Slot]
  /\ dirlock \in Procs \cup {None} /\ outstanding \subseteq Procs
  /\ file \in [Procs -> (Slots \X Inums) \cup {None}]
  /\ pc \in [Procs -> Pcs]
  /\ ip \in [Procs -> Slots \cup {None}]
  /\ inum \in [Procs -> 0 .. ninodes]
  /\ reclaimed \in 1 .. ninodes + 1

\* What a process has, by its next step.
ControlInv ==
  \A p \in Procs :
    /\ ip[p] # None <=> pc[p] \in Holding
    /\ inum[p] # 0 <=> pc[p] = "iget_new"
    /\ dirlock = p <=> pc[p] \in InDir
    /\ p \in outstanding <=> pc[p] \notin Outside
    /\ pc[p] = "reading" => file[p] # None
    /\ pc[p] \in NoFile => file[p] = None

\* A slot's lock is held by the process that is in the middle of using it.
LockInv ==
  \A s \in Slots, p \in Procs :
    itable[s].lock = p <=> \/ pc[p] \in Locking /\ ip[p] = s
                           \/ pc[p] = "reading" /\ file[p][1] = s

SlotInv == \A s \in Slots : itable[s].ref > 0 => itable[s].inum # 0

\* Inodes that are named, open or in use are allocated.
LiveInv ==
  /\ \A i \in Inums : entries[i] > 0 => dinode[i].type # 0
  /\ \A p \in Procs : pc[p] \in Using => dinode[Ino(p)].type # 0
  /\ \A p \in Procs : pc[p] = "iget_new" => dinode[inum[p]].type # 0

\* The inode i that p has just allocated is nobody else's.
Fresh(p, i) ==
  /\ dinode[i].nlink = 0
  /\ \A q \in Procs : q # p /\ pc[q] \in Using => Ino(q) # i
  /\ \A q \in Procs : file[q] # None => file[q][2] # i

FreshInv ==
  \A p \in Procs :
    /\ pc[p] = "iget_new" => Fresh(p, inum[p])
    /\ pc[p] \in {"ilock_new", "created"} => Fresh(p, Ino(p))

\* The inode that p is freeing has no other user; when it is free, nobody but
\* who allocates it anew comes to its slot, and waits for the lock.
FreeInv ==
  \A p \in Procs :
    /\ pc[p] \in Freeing => itable[ip[p]].ref = 1 /\ dinode[Ino(p)].nlink = 0
    /\ pc[p] \in Freed =>
         /\ \A q \in Procs : q # p /\ ip[q] = ip[p] => pc[q] \in Fetching \cup {"idrop", "idrop_fail"}
         /\ \A q \in Procs : file[q] # None => file[q][1] # ip[p]

\* A slot that was locked since its inode was read stays valid.
ValidInv ==
  \A p \in Procs :
    /\ pc[p] \in Using \ Fetching => itable[ip[p]].valid
    /\ file[p] # None => itable[file[p][1]].valid

\* A valid slot shows an allocated inode as it is on the disk, until it is freed.
CoherInv ==
  \A s \in Slots :
    itable[s].ref > 0 /\ itable[s].valid /\ (\A p \in Procs : pc[p] \in Freed => ip[p] # s) =>
      /\ dinode[itable[s].inum].type # 0
      /\ itable[s].type = dinode[itable[s].inum].type
      /\ itable[s].nlink = dinode[itable[s].inum].nlink

\* The link count is ahead of the entries by what is in progress.
LinksInv ==
  /\ \A i \in Inums : dinode[i].nlink = entries[i] + Cardinality(Pending(i))
  /\ \A p \in Procs : /\ pc[p] \in {"ilock_unlink", "unlinking"} => entries[Ino(p)] > 0
                      /\ pc[p] = "linked" => dinode[Ino(p)].nlink < MaxLinks

\* Nobody runs before ireclaim() is through, and what it has looked at is clean.
BootInv ==
  Booting => /\ \A p \in Procs : pc[p] = "user" /\ file[p] = None
             /\ \A i \in Inums : i < reclaimed => dinode[i].type = 0 \/ dinode[i].nlink > 0

\* Between operations all is durable.
DurableInv == DurableConsistent /\ (outstanding = {} => durable = <<dinode, entries>>)

IInv == /\ Types /\ ControlInv /\ LockInv /\ RefExact /\ SlotInv /\ OneSlot
        /\ OpenFileLive /\ LiveInv /\ FreshInv /\ FreeInv /\ ValidInv /\ CoherInv
        /\ LinksInv /\ BootInv /\ DurableInv
-----------------------------------------------------------------------------
(* The primitives.                                                         *)

\* A set of natural numbers that is not empty has a least element: the first
\* free inode of ialloc(), the first empty slot of iget().
LEMMA MinIn ==
  ASSUME NEW S, S \subseteq Nat, S # {}
  PROVE  Min(S) \in S
<1>1. PICK x \in S : \A y \in S : <<y, x>> \notin OpToRel(<, Nat)
  BY NatLessThanWellFounded, WFMin
<1>2. \A y \in S : x <= y
  <2> TAKE y \in S
  <2>1. x \in Nat /\ y \in Nat
    BY <1>1
  <2>2. <<y, x>> \in Nat \X Nat /\ <<y, x>>[1] = y /\ <<y, x>>[2] = x
    BY <2>1, SMT
  <2>3. ~(y < x)
    BY <1>1, <2>2 DEF OpToRel
  <2> QED
    BY <2>1, <2>3, SMT
<1> QED
  BY <1>1, <1>2 DEF Min

\* All slots but s are left alone.
Only(s) == \A t \in Slots : t # s => itable'[t] = itable[t]

\* iget() by p of inode i found or entered it in slot s.
Get(p, s, i) ==
  /\ s \in Slots /\ Only(s) /\ ip' = [ip EXCEPT ![p] = s]
  /\ itable'[s].inum = i /\ itable'[s].ref = itable[s].ref + 1
  /\ itable'[s].lock = itable[s].lock
  /\ IF itable[s].ref > 0
     THEN /\ itable[s].inum = i /\ itable'[s].valid = itable[s].valid
          /\ itable'[s].type = itable[s].type /\ itable'[s].nlink = itable[s].nlink
     ELSE SlotsOf(i) = {} /\ ~itable'[s].valid

\* Changing an entry of the table leaves it one.
LEMMA SlotFields ==
  ASSUME NEW x \in Slot
  PROVE  /\ \A i \in 0 .. ninodes : [x EXCEPT !.inum = i] \in Slot
         /\ \A n \in Nat : [x EXCEPT !.ref = n] \in Slot
         /\ \A b \in BOOLEAN : [x EXCEPT !.valid = b] \in Slot
         /\ \A d \in {0, 1} : [x EXCEPT !.type = d] \in Slot
         /\ \A n \in 0 .. MaxLinks : [x EXCEPT !.nlink = n] \in Slot
         /\ \A k \in Procs \cup {None} : [x EXCEPT !.lock = k] \in Slot
<1>1. \A i \in 0 .. ninodes : [x EXCEPT !.inum = i] \in Slot
  BY SMT DEF Slot
<1>2. \A n \in Nat : [x EXCEPT !.ref = n] \in Slot
  BY SMT DEF Slot
<1>3. \A b \in BOOLEAN : [x EXCEPT !.valid = b] \in Slot
  BY SMT DEF Slot
<1>4. \A d \in {0, 1} : [x EXCEPT !.type = d] \in Slot
  BY SMT DEF Slot
<1>5. \A n \in 0 .. MaxLinks : [x EXCEPT !.nlink = n] \in Slot
  BY SMT DEF Slot
<1>6. \A k \in Procs \cup {None} : [x EXCEPT !.lock = k] \in Slot
  BY SMT DEF Slot
<1> QED
  BY <1>1, <1>2, <1>3, <1>4, <1>5, <1>6

\* What iget() does to the table.
LEMMA Iget ==
  ASSUME Types, NEW p \in Procs, NEW i \in Inums, iget(p, i)
  PROVE  itable' \in [Slots -> Slot] /\ \E s \in Slots : Get(p, s, i)
<1>1. CASE \E s \in SlotsOf(i) : /\ itable' = [itable EXCEPT ![s].ref = @ + 1]
                                 /\ ip' = [ip EXCEPT ![p] = s]
  <2>1. PICK s \in SlotsOf(i) : /\ itable' = [itable EXCEPT ![s].ref = @ + 1]
                                /\ ip' = [ip EXCEPT ![p] = s]
    BY <1>1
  <2>2. s \in Slots /\ itable[s].ref > 0 /\ itable[s].inum = i /\ itable[s] \in Slot
    BY <2>1 DEF SlotsOf, Types
  <2>3. itable' \in [Slots -> Slot]
    BY <2>1, <2>2, SMT DEF Types, Slot
  <2>4. Get(p, s, i)
    BY <2>1, <2>2, SMT DEF Types, Slot, Get, Only
  <2> QED
    BY <2>2, <2>3, <2>4
<1>2. CASE /\ SlotsOf(i) = {} /\ Unused # {}
           /\ itable' = [itable EXCEPT ![Min(Unused)] =
                           [@ EXCEPT !.inum = i, !.ref = 1, !.valid = FALSE]]
           /\ ip' = [ip EXCEPT ![p] = Min(Unused)]
  <2> DEFINE s == Min(Unused)
  <2>1. s \in Unused
    <3>1. Unused \subseteq Nat
      BY SizesAssumption, SMT DEF Unused, Slots
    <3> QED
      BY <1>2, <3>1, MinIn
  <2>2. s \in Slots /\ itable[s].ref = 0 /\ itable[s] \in Slot
    BY <2>1 DEF Unused, Types
  <2>3. /\ itable' = [itable EXCEPT ![s] = [@ EXCEPT !.inum = i, !.ref = 1, !.valid = FALSE]]
        /\ ip' = [ip EXCEPT ![p] = s] /\ SlotsOf(i) = {}
    BY <1>2
  <2> HIDE DEF s
  <2>4. i \in 0 .. ninodes
    BY SizesAssumption, SMT DEF Inums
  <2>5. itable' \in [Slots -> Slot]
    <3> DEFINE r == [itable[s] EXCEPT !.inum = i, !.ref = 1, !.valid = FALSE]
    <3>1. r \in Slot
      <4>1. [itable[s] EXCEPT !.inum = i] \in Slot
        BY <2>2, <2>4, SlotFields
      <4>2. 1 \in Nat /\ FALSE \in BOOLEAN
        BY SMT
      <4>3. [[itable[s] EXCEPT !.inum = i] EXCEPT !.ref = 1] \in Slot
        BY <4>1, <4>2, SlotFields
      <4> QED
        BY <4>2, <4>3, SlotFields
    <3>2. itable' = [itable EXCEPT ![s] = r]
      BY <2>2, <2>3
    <3> HIDE DEF r
    <3> QED
      BY <2>2, <3>1, <3>2, SMT DEF Types
  <2>6. Get(p, s, i)
    BY <2>2, <2>3, SMT DEF Types, Slot, Get, Only
  <2> QED
    BY <2>2, <2>5, <2>6
<1> QED
  BY <1>1, <1>2 DEF iget

\* ilock() by p took the lock of slot s, and read the inode unless it was valid.
Lock(p, s) ==
  /\ Only(s) /\ itable[s].lock = None /\ itable'[s].lock = p /\ itable'[s].valid
  /\ itable'[s].inum = itable[s].inum /\ itable'[s].ref = itable[s].ref
  /\ IF itable[s].valid
     THEN itable'[s].type = itable[s].type /\ itable'[s].nlink = itable[s].nlink
     ELSE /\ itable'[s].type = dinode[itable[s].inum].type
          /\ itable'[s].nlink = dinode[itable[s].inum].nlink

\* What ilock() does to the table.
LEMMA Ilock ==
  ASSUME Types, NEW p \in Procs, NEW s \in Slots, itable[s].inum # 0, ilock(p, s)
  PROVE  itable' \in [Slots -> Slot] /\ Lock(p, s)
<1> DEFINE x == itable[s]
           d == dinode[x.inum]
<1>1. x \in Slot /\ p \in Procs \cup {None}
  BY DEF Types
<1>2. d.type \in {0, 1} /\ d.nlink \in 0 .. MaxLinks
  <2>1. x.inum \in Inums
    BY <1>1, SMT DEF Slot, Inums
  <2> QED
    BY <2>1, SMT DEF Types, Disk
<1>3. CASE x.valid
  <2>1. itable' = [itable EXCEPT ![s].lock = p] /\ x.lock = None
    BY <1>3 DEF ilock
  <2>2. [x EXCEPT !.lock = p] \in Slot
    BY <1>1, SlotFields
  <2>3. itable' = [itable EXCEPT ![s] = [x EXCEPT !.lock = p]]
    BY <2>1
  <2>4. itable' \in [Slots -> Slot]
    BY <2>2, <2>3, SMT DEF Types
  <2>5. Lock(p, s)
    BY <1>1, <1>3, <2>1, SMT DEF Types, Slot, Lock, Only
  <2> QED
    BY <2>4, <2>5
<1>4. CASE ~x.valid
  <2> DEFINE y == [x EXCEPT !.lock = p, !.valid = TRUE, !.type = d.type, !.nlink = d.nlink]
  <2>1. itable' = [itable EXCEPT ![s] = y] /\ x.lock = None
    BY <1>4 DEF ilock
  <2>2. y \in Slot
    <3>1. [x EXCEPT !.lock = p] \in Slot
      BY <1>1, SlotFields
    <3>2. [x EXCEPT !.lock = p, !.valid = TRUE] \in Slot
      BY <3>1, SlotFields
    <3>3. [x EXCEPT !.lock = p, !.valid = TRUE, !.type = d.type] \in Slot
      BY <1>2, <3>2, SlotFields
    <3> QED
      BY <1>2, <3>3, SlotFields
  <2>3. /\ y.lock = p /\ y.valid /\ y.inum = x.inum /\ y.ref = x.ref
        /\ y.type = d.type /\ y.nlink = d.nlink
    BY <1>1, SMT DEF Slot
  <2> HIDE DEF y
  <2>4. itable'[s] = y /\ Only(s) /\ itable' \in [Slots -> Slot]
    BY <2>1, <2>2 DEF Types, Only
  <2> QED
    BY <1>4, <2>1, <2>3, <2>4 DEF Lock
<1> QED
  BY <1>3, <1>4

\* Slot s gets another lock holder, reference count, type, link count or
\* validity, and keeps the rest.
Becomes(s, n, v, d, k, h) ==
  /\ Only(s) /\ itable'[s].inum = itable[s].inum /\ itable'[s].ref = n /\ itable'[s].valid = v
  /\ itable'[s].type = d /\ itable'[s].nlink = k /\ itable'[s].lock = h

\* What iunlock(), iupdate(), the steps of iput() and sys_open() do to the table.
LEMMA SlotSteps ==
  ASSUME Types, NEW s \in Slots
  PROVE  LET x == itable[s] IN
         /\ \A h \in Procs \cup {None} : itable' = [itable EXCEPT ![s].lock = h] =>
              itable' \in [Slots -> Slot] /\ Becomes(s, x.ref, x.valid, x.type, x.nlink, h)
         /\ \A h \in Procs \cup {None}, n \in 0 .. MaxLinks :
              itable' = [itable EXCEPT ![s].nlink = n, ![s].lock = h] =>
                itable' \in [Slots -> Slot] /\ Becomes(s, x.ref, x.valid, x.type, n, h)
         /\ itable' = [itable EXCEPT ![s].ref = @ - 1] /\ x.ref > 0 =>
              itable' \in [Slots -> Slot] /\ Becomes(s, x.ref - 1, x.valid, x.type, x.nlink, x.lock)
         /\ itable' = [itable EXCEPT ![s].type = 0] =>
              itable' \in [Slots -> Slot] /\ Becomes(s, x.ref, x.valid, 0, x.nlink, x.lock)
         /\ itable' = [itable EXCEPT ![s].valid = FALSE, ![s].lock = None] =>
              itable' \in [Slots -> Slot] /\ Becomes(s, x.ref, FALSE, x.type, x.nlink, None)
<1> DEFINE x == itable[s]
<1>1. x \in Slot /\ itable \in [Slots -> Slot]
  BY DEF Types
<1>2. ASSUME NEW y \in Slot, itable' = [itable EXCEPT ![s] = y]
      PROVE  itable' \in [Slots -> Slot] /\ Only(s) /\ itable'[s] = y
  BY <1>1, <1>2 DEF Only
<1>3. ASSUME NEW h \in Procs \cup {None}, itable' = [itable EXCEPT ![s].lock = h]
      PROVE  itable' \in [Slots -> Slot] /\ Becomes(s, x.ref, x.valid, x.type, x.nlink, h)
  <2> DEFINE y == [x EXCEPT !.lock = h]
  <2>1. y \in Slot
    BY <1>1, SlotFields
  <2>2. itable' = [itable EXCEPT ![s] = y]
    BY <1>3
  <2>3. /\ y.inum = x.inum /\ y.ref = x.ref /\ y.valid = x.valid /\ y.type = x.type
        /\ y.nlink = x.nlink /\ y.lock = h
    BY <1>1, SMT DEF Slot
  <2> HIDE DEF y
  <2> QED
    BY <1>2, <2>1, <2>2, <2>3 DEF Becomes
<1>4. ASSUME NEW h \in Procs \cup {None}, NEW n \in 0 .. MaxLinks,
             itable' = [itable EXCEPT ![s].nlink = n, ![s].lock = h]
      PROVE  itable' \in [Slots -> Slot] /\ Becomes(s, x.ref, x.valid, x.type, n, h)
  <2> DEFINE y == [x EXCEPT !.nlink = n, !.lock = h]
  <2>1. y \in Slot
    <3>1. [x EXCEPT !.nlink = n] \in Slot
      BY <1>1, SlotFields
    <3> QED
      BY <3>1, SlotFields
  <2>2. itable' = [itable EXCEPT ![s] = y]
    <3> DEFINE u == [x EXCEPT !.nlink = n]
               g == [itable EXCEPT ![s] = u]
    <3>1. itable' = [g EXCEPT ![s] = [g[s] EXCEPT !.lock = h]]
      BY <1>4
    <3>2. g[s] = u
      BY <1>1
    <3>3. itable' = [g EXCEPT ![s] = y]
      BY <3>1, <3>2
    <3> HIDE DEF u, y
    <3> QED
      BY <1>1, <3>3
  <2>3. /\ y.inum = x.inum /\ y.ref = x.ref /\ y.valid = x.valid /\ y.type = x.type
        /\ y.nlink = n /\ y.lock = h
    BY <1>1, SMT DEF Slot
  <2> HIDE DEF y
  <2> QED
    BY <1>2, <2>1, <2>2, <2>3 DEF Becomes
<1>5. ASSUME itable' = [itable EXCEPT ![s].ref = @ - 1], x.ref > 0
      PROVE  itable' \in [Slots -> Slot] /\ Becomes(s, x.ref - 1, x.valid, x.type, x.nlink, x.lock)
  <2> DEFINE y == [x EXCEPT !.ref = x.ref - 1]
  <2>1. y \in Slot
    <3>1. x.ref - 1 \in Nat
      BY <1>1, <1>5, SMT DEF Slot
    <3> QED
      BY <1>1, <3>1, SlotFields
  <2>2. itable' = [itable EXCEPT ![s] = y]
    BY <1>5
  <2>3. /\ y.inum = x.inum /\ y.ref = x.ref - 1 /\ y.valid = x.valid /\ y.type = x.type
        /\ y.nlink = x.nlink /\ y.lock = x.lock
    BY <1>1, SMT DEF Slot
  <2> HIDE DEF y
  <2> QED
    BY <1>2, <2>1, <2>2, <2>3 DEF Becomes
<1>6. ASSUME itable' = [itable EXCEPT ![s].type = 0]
      PROVE  itable' \in [Slots -> Slot] /\ Becomes(s, x.ref, x.valid, 0, x.nlink, x.lock)
  <2> DEFINE y == [x EXCEPT !.type = 0]
  <2>1. y \in Slot
    BY <1>1, SlotFields
  <2>2. itable' = [itable EXCEPT ![s] = y]
    BY <1>6
  <2>3. /\ y.inum = x.inum /\ y.ref = x.ref /\ y.valid = x.valid /\ y.type = 0
        /\ y.nlink = x.nlink /\ y.lock = x.lock
    BY <1>1, SMT DEF Slot
  <2> HIDE DEF y
  <2> QED
    BY <1>2, <2>1, <2>2, <2>3 DEF Becomes
<1>7. ASSUME itable' = [itable EXCEPT ![s].valid = FALSE, ![s].lock = None]
      PROVE  itable' \in [Slots -> Slot] /\ Becomes(s, x.ref, FALSE, x.type, x.nlink, None)
  <2> DEFINE y == [x EXCEPT !.valid = FALSE, !.lock = None]
  <2>1. y \in Slot
    <3>1. [x EXCEPT !.valid = FALSE] \in Slot
      BY <1>1, SlotFields
    <3> QED
      BY <3>1, SlotFields
  <2>2. itable' = [itable EXCEPT ![s] = y]
    <3> DEFINE u == [x EXCEPT !.valid = FALSE]
               g == [itable EXCEPT ![s] = u]
    <3>1. itable' = [g EXCEPT ![s] = [g[s] EXCEPT !.lock = None]]
      BY <1>7
    <3>2. g[s] = u
      BY <1>1
    <3>3. itable' = [g EXCEPT ![s] = y]
      BY <3>1, <3>2
    <3> HIDE DEF u, y
    <3> QED
      BY <1>1, <3>3
  <2>3. /\ y.inum = x.inum /\ y.ref = x.ref /\ y.valid = FALSE /\ y.type = x.type
        /\ y.nlink = x.nlink /\ y.lock = None
    BY <1>1, SMT DEF Slot
  <2> HIDE DEF y
  <2> QED
    BY <1>2, <2>1, <2>2, <2>3 DEF Becomes
<1> QED
  BY <1>3, <1>4, <1>5, <1>6, <1>7
-----------------------------------------------------------------------------
(* Consequences of the invariant.                                          *)

\* The processes are finitely many, and so is each set of some of them.
LEMMA Counting ==
  ASSUME NEW S, S \subseteq Procs
  PROVE  /\ IsFiniteSet(S) /\ Cardinality(S) \in Nat /\ Cardinality(S) <= Cardinality(Procs)
         /\ Cardinality(Procs) \in Nat
         /\ \A p \in Procs \ S : Cardinality(S \cup {p}) = Cardinality(S) + 1
         /\ \A p \in S : Cardinality(S \ {p}) = Cardinality(S) - 1 /\ Cardinality(S) > 0
         /\ \A p, q \in S : p # q => Cardinality(S) > 1
<1>1. /\ IsFiniteSet(S) /\ Cardinality(S) <= Cardinality(Procs)
      /\ Cardinality(S) \in Nat /\ Cardinality(Procs) \in Nat
  BY ProcsAssumption, FS_Subset, FS_CardinalityType
<1>2. \A p \in Procs \ S : Cardinality(S \cup {p}) = Cardinality(S) + 1
  BY <1>1, FS_AddElement
<1>3. ASSUME NEW p \in S
      PROVE  /\ Cardinality(S \ {p}) = Cardinality(S) - 1 /\ Cardinality(S \ {p}) \in Nat
             /\ Cardinality(S) > 0
  <2>1. IsFiniteSet(S \ {p}) /\ Cardinality(S \ {p}) = Cardinality(S) - 1
    BY <1>1, FS_RemoveElement
  <2>2. Cardinality(S \ {p}) \in Nat
    BY <2>1, FS_CardinalityType
  <2> QED
    BY <1>1, <2>1, <2>2, SMT
<1>4. ASSUME NEW p \in S, NEW q \in S, p # q
      PROVE  Cardinality(S) > 1
  <2>1. q \in S \ {p} /\ IsFiniteSet(S \ {p})
    BY <1>1, <1>4, FS_RemoveElement
  <2>2. /\ Cardinality(S \ {p}) \in Nat
        /\ Cardinality((S \ {p}) \ {q}) = Cardinality(S \ {p}) - 1
        /\ Cardinality((S \ {p}) \ {q}) \in Nat
    BY <2>1, FS_RemoveElement, FS_CardinalityType
  <2>3. Cardinality(S \ {p}) = Cardinality(S) - 1
    BY <1>3
  <2> QED
    BY <1>1, <2>2, <2>3, SMT
<1> QED
  BY <1>1, <1>2, <1>3, <1>4

\* Who has an inode has a slot in use, which has a number.
LEMMA HasSlot ==
  ASSUME Types, ControlInv, RefExact, SlotInv, NEW p \in Procs
  PROVE  /\ pc[p] \in Holding \/ ip[p] # None =>
              ip[p] \in Slots /\ itable[ip[p]].ref > 0 /\ Ino(p) \in Inums /\ Ino(p) # 0
         /\ file[p] # None =>
              /\ file[p] = <<file[p][1], file[p][2]>> /\ file[p][1] \in Slots /\ file[p][2] \in Inums
              /\ itable[file[p][1]].ref > 0 /\ itable[file[p][1]].inum \in Inums
              /\ itable[file[p][1]].inum # 0
<1>1. ASSUME NEW s \in Slots, itable[s].ref > 0
      PROVE  itable[s].inum \in Inums /\ itable[s].inum # 0
  <2>1. itable[s] \in Slot /\ itable[s].inum # 0
    BY <1>1 DEF Types, SlotInv
  <2> QED
    BY <2>1, SMT DEF Slot, Inums
<1>2. \A s \in Slots : p \in Pointers(s) \/ p \in Files(s) => itable[s].ref > 0
  <2> TAKE s \in Slots
  <2>1. Pointers(s) \subseteq Procs /\ Files(s) \subseteq Procs
    BY DEF Pointers, Files
  <2>2. itable[s].ref = Cardinality(Pointers(s)) + Cardinality(Files(s))
    BY DEF RefExact, Pointers, Files
  <2>3. /\ Cardinality(Pointers(s)) \in Nat /\ Cardinality(Files(s)) \in Nat
        /\ p \in Pointers(s) => Cardinality(Pointers(s)) > 0
        /\ p \in Files(s) => Cardinality(Files(s)) > 0
    BY <2>1, Counting
  <2> QED
    BY <2>2, <2>3, SMT
<1>3. ASSUME pc[p] \in Holding \/ ip[p] # None
      PROVE  ip[p] \in Slots /\ itable[ip[p]].ref > 0
  <2>1. ip[p] \in Slots
    BY <1>3 DEF ControlInv, Types
  <2> QED
    BY <1>2, <2>1 DEF Pointers
<1>4. ASSUME file[p] # None
      PROVE  /\ file[p] = <<file[p][1], file[p][2]>> /\ file[p][1] \in Slots /\ file[p][2] \in Inums
             /\ itable[file[p][1]].ref > 0
  <2>1. file[p] \in Slots \X Inums
    BY <1>4 DEF Types
  <2>2. file[p] = <<file[p][1], file[p][2]>> /\ file[p][1] \in Slots /\ file[p][2] \in Inums
    BY <2>1, SMT
  <2> QED
    BY <1>2, <1>4, <2>2 DEF Files
<1> QED
  BY <1>1, <1>3, <1>4 DEF Ino

\* A slot with one reference has no second user.
LEMMA Alone ==
  ASSUME RefExact, NEW s \in Slots, itable[s].ref = 1, NEW p \in Procs, ip[p] = s
  PROVE  /\ \A q \in Procs : q # p => ip[q] # s
         /\ \A q \in Procs : file[q] # None => file[q][1] # s
<1>1. Pointers(s) \subseteq Procs /\ Files(s) \subseteq Procs /\ p \in Pointers(s)
  BY DEF Pointers, Files
<1>2. itable[s].ref = Cardinality(Pointers(s)) + Cardinality(Files(s))
  BY DEF RefExact, Pointers, Files
<1>3. /\ Cardinality(Pointers(s)) \in Nat /\ Cardinality(Files(s)) \in Nat
      /\ Cardinality(Pointers(s)) > 0
      /\ \A q \in Pointers(s) : q # p => Cardinality(Pointers(s)) > 1
      /\ \A q \in Files(s) : Cardinality(Files(s)) > 0
  BY <1>1, Counting
<1>4. Cardinality(Pointers(s)) = 1 /\ Cardinality(Files(s)) = 0
  BY <1>2, <1>3, SMT
<1>5. ~(1 > 1) /\ ~(0 > 0)
  BY SMT
<1> QED
  BY <1>3, <1>4, <1>5 DEF Pointers, Files

\* A link count that is ahead is positive, and without one there are no entries.
LEMMA NoLinks ==
  ASSUME Types, LinksInv, NEW i \in Inums
  PROVE  /\ entries[i] \in Nat /\ dinode[i].nlink \in Nat /\ dinode[i].nlink >= entries[i]
         /\ dinode[i].nlink = 0 => entries[i] = 0 /\ Pending(i) = {}
         /\ \A p \in Pending(i) : dinode[i].nlink > entries[i]
<1>1. entries[i] \in Nat /\ dinode[i].nlink \in Nat
  BY SizesAssumption, SMT DEF Types, Disk, Names
<1>2. Pending(i) \subseteq Procs
  BY DEF Pending
<1>3. /\ Cardinality(Pending(i)) \in Nat
      /\ \A p \in Pending(i) : Cardinality(Pending(i)) > 0
  BY <1>2, Counting
<1>4. dinode[i].nlink = entries[i] + Cardinality(Pending(i))
  BY DEF LinksInv
<1> HIDE DEF Pending
<1> QED
  BY <1>1, <1>3, <1>4, SMT

\* A free inode has no links, no entries, no file and no user.
LEMMA FreeDisk ==
  ASSUME IInv, NEW i \in Inums, dinode[i].type = 0
  PROVE  /\ dinode[i].nlink = 0
         /\ \A q \in Procs : pc[q] \in Using => Ino(q) # i
         /\ \A q \in Procs : file[q] # None => file[q][2] # i
<1>1. ~(entries[i] > 0)
  BY DEF IInv, LiveInv
<1>2. \A q \in Procs : pc[q] \in Using => Ino(q) # i
  BY DEF IInv, LiveInv
<1>3. \A q \in Procs : file[q] # None => file[q][2] # i
  BY DEF IInv, OpenFileLive
<1>4. Pending(i) = {}
  BY <1>2 DEF Pending, Ahead, Using, Holding, Gone, Freed
<1>5. dinode[i].nlink = 0
  <2>1. Cardinality(Pending(i)) = 0
    BY <1>4, FS_EmptySet
  <2>2. dinode[i].nlink = entries[i] + Cardinality(Pending(i))
    BY DEF IInv, LinksInv
  <2>3. entries[i] \in Nat
    BY NoLinks DEF IInv
  <2> QED
    BY <1>1, <2>1, <2>2, <2>3, SMT
<1> QED
  BY <1>2, <1>3, <1>5

\* A process that has locked a slot sees the inode as it is on the disk.
LEMMA LockedSlot ==
  ASSUME IInv, NEW p \in Procs, pc[p] \in Locking \ Freed
  PROVE  /\ ip[p] \in Slots /\ Ino(p) \in Inums
         /\ itable[ip[p]].lock = p /\ itable[ip[p]].valid
         /\ itable[ip[p]].type = dinode[Ino(p)].type
         /\ itable[ip[p]].nlink = dinode[Ino(p)].nlink
         /\ \A q \in Procs : pc[q] \in Freed => ip[q] # ip[p]
<1>1. pc[p] \in Holding /\ pc[p] \in Using \ Fetching /\ pc[p] \in Locking
  BY DEF Locking, Freed, Holding, Using, Gone, Fetching
<1>2. ip[p] \in Slots /\ itable[ip[p]].ref > 0 /\ Ino(p) \in Inums
  BY <1>1, HasSlot DEF IInv
<1>3. itable[ip[p]].lock = p /\ itable[ip[p]].valid
  <2>1. itable[ip[p]].lock = p
    BY <1>1, <1>2 DEF IInv, LockInv
  <2>2. itable[ip[p]].valid
    BY <1>1 DEF IInv, ValidInv
  <2> QED
    BY <2>1, <2>2
<1>4. ASSUME NEW q \in Procs, pc[q] \in Freed, ip[q] = ip[p]
      PROVE  FALSE
  <2>1. pc[q] \in Locking
    BY <1>4 DEF Freed, Locking
  <2>2. itable[ip[p]].lock = q
    BY <1>2, <1>4, <2>1 DEF IInv, LockInv
  <2> QED
    BY <1>3, <1>4, <2>2
<1> QED
  BY <1>2, <1>3, <1>4 DEF IInv, CoherInv, Ino
-----------------------------------------------------------------------------
(* The kinds of steps of a process, with their effect spelt out.           *)

Others(p) ==
  \A q \in Procs : q # p => /\ pc'[q] = pc[q] /\ ip'[q] = ip[q]
                            /\ inum'[q] = inum[q] /\ file'[q] = file[q]
Goes(p, l, m) == pc[p] = l /\ pc'[p] = m /\ Others(p) /\ reclaimed' = reclaimed /\ ~Booting

Begins(p, m) ==
  /\ Goes(p, "user", m) /\ m \in {"open", "create", "link", "unlink"}
  /\ m \in NoFile => file[p] = None
  /\ outstanding' = outstanding \cup {p}
  /\ UNCHANGED <<dinode, entries, durable, itable, dirlock, file, ip, inum>>

Closes(p) ==
  /\ Goes(p, "user", "iput") /\ file[p] # None /\ file'[p] = None /\ ip'[p] = file[p][1]
  /\ outstanding' = outstanding \cup {p}
  /\ UNCHANGED <<dinode, entries, durable, itable, dirlock, inum>>

Ends(p) ==
  /\ Goes(p, "end", "user")
  /\ outstanding' = outstanding \ {p}
  /\ durable' = IF outstanding = {p} THEN <<dinode, entries>> ELSE durable
  /\ UNCHANGED <<dinode, entries, itable, dirlock, file, ip, inum>>

Misses(p, l) ==
  /\ Goes(p, l, "end") /\ l \in {"open", "create", "link", "unlink"}
  /\ UNCHANGED <<dinode, entries, durable, itable, dirlock, outstanding, file, ip, inum>>

Finds(p, s, i, l, m) ==
  /\ Goes(p, l, m) /\ Get(p, s, i) /\ i \in Inums /\ entries[i] > 0 /\ dirlock = None
  /\ \/ l \in {"open", "create"} /\ m = "ilock_open" /\ dirlock' = dirlock
     \/ l = "link" /\ m = "ilock_link" /\ dirlock' = dirlock
     \/ l = "unlink" /\ m = "ilock_unlink" /\ dirlock' = p
  /\ UNCHANGED <<dinode, entries, durable, outstanding, file, inum>>

GetsNew(p, s) ==
  /\ Goes(p, "iget_new", "ilock_new") /\ Get(p, s, inum[p]) /\ inum[p] \in Inums /\ inum'[p] = 0
  /\ UNCHANGED <<dinode, entries, durable, dirlock, outstanding, file>>

Locks(p, l, m) ==
  /\ Goes(p, l, m) /\ Lock(p, ip[p])
  /\ \/ l = "ilock_open" /\ m = "opened"
     \/ l = "ilock_new" /\ m = "created"
     \/ l = "ilock_link" /\ m = "linked" /\ dinode[Ino(p)].nlink < MaxLinks
     \/ l = "ilock_bad" /\ m = "bad"
     \/ l = "ilock_unlink" /\ m = "unlinking"
  /\ UNCHANGED <<dinode, entries, durable, dirlock, outstanding, file, ip, inum>>

Reads(p) ==
  /\ Goes(p, "user", "reading") /\ file[p] # None /\ Lock(p, file[p][1])
  /\ UNCHANGED <<dinode, entries, durable, dirlock, outstanding, file, ip, inum>>

\* The lock of slot s goes to h.
Passes(s, h) == Becomes(s, itable[s].ref, itable[s].valid, itable[s].type, itable[s].nlink, h)

HasRead(p) ==
  /\ Goes(p, "reading", "user") /\ Passes(file[p][1], None)
  /\ UNCHANGED <<dinode, entries, durable, dirlock, outstanding, file, ip, inum>>

Opens(p) ==
  /\ Goes(p, "opened", "end") /\ Passes(ip[p], None)
  /\ file'[p] = <<ip[p], Ino(p)>> /\ ip'[p] = None
  /\ UNCHANGED <<dinode, entries, durable, dirlock, outstanding, inum>>

GivesUp(p) ==
  /\ Goes(p, "opened", "iput") /\ Passes(ip[p], None)
  /\ UNCHANGED <<dinode, entries, durable, dirlock, outstanding, file, ip, inum>>

Allocates(p, i) ==
  /\ Goes(p, "create", "iget_new") /\ i \in Inums /\ dinode[i].type = 0
  /\ dinode' = [dinode EXCEPT ![i] = [type |-> 1, nlink |-> 0]]
  /\ inum'[p] = i /\ dirlock = None /\ dirlock' = p
  /\ UNCHANGED <<entries, durable, itable, outstanding, file, ip>>

Updates(p, l, m, n, h) ==
  /\ Goes(p, l, m)
  /\ Becomes(ip[p], itable[ip[p]].ref, itable[ip[p]].valid, itable[ip[p]].type, n, h)
  /\ dinode' = [dinode EXCEPT ![Ino(p)] = [type |-> itable[ip[p]].type, nlink |-> n]]
  /\ \/ /\ l = "created" /\ m = "opened" /\ n = 1 /\ h = p /\ dirlock' = None
        /\ entries' = [entries EXCEPT ![Ino(p)] = @ + 1]
     \/ /\ l = "created" /\ m = "iput_fail" /\ n = 0 /\ h = None
        /\ UNCHANGED <<entries, dirlock>>
     \/ /\ l = "linked" /\ m = "dirlink" /\ n = itable[ip[p]].nlink + 1 /\ h = None
        /\ UNCHANGED <<entries, dirlock>>
     \/ /\ l \in {"bad", "unlinked"} /\ m = "iput" /\ n = itable[ip[p]].nlink - 1 /\ h = None
        /\ UNCHANGED <<entries, dirlock>>
  /\ UNCHANGED <<durable, outstanding, file, ip, inum>>

Enters(p) ==
  /\ Goes(p, "dirlink", "iput") /\ entries' = [entries EXCEPT ![Ino(p)] = @ + 1]
  /\ UNCHANGED <<dinode, durable, itable, dirlock, outstanding, file, ip, inum>>

Fails(p) ==
  /\ Goes(p, "dirlink", "ilock_bad")
  /\ UNCHANGED <<dinode, entries, durable, itable, dirlock, outstanding, file, ip, inum>>

Unnames(p) ==
  /\ Goes(p, "unlinking", "unlinked") /\ entries' = [entries EXCEPT ![Ino(p)] = @ - 1]
  /\ dirlock' = None
  /\ UNCHANGED <<dinode, durable, itable, outstanding, file, ip, inum>>

Takes(p, l, m) ==
  /\ Goes(p, l, m) /\ \/ l = "iput" /\ m = "ifree"
                      \/ l = "iput_fail" /\ m = "ifree_fail"
  /\ LastOfUnlinked(ip[p]) /\ itable[ip[p]].lock = None /\ Passes(ip[p], p)
  /\ UNCHANGED <<dinode, entries, durable, dirlock, outstanding, file, ip, inum>>

Frees(p, l, m) ==
  /\ Goes(p, l, m) /\ \/ l = "ifree" /\ m = "ifreed"
                      \/ l = "ifree_fail" /\ m = "ifreed_fail"
  /\ Becomes(ip[p], itable[ip[p]].ref, itable[ip[p]].valid, 0, itable[ip[p]].nlink,
             itable[ip[p]].lock)
  /\ dinode' = [dinode EXCEPT ![Ino(p)].type = 0]
  /\ UNCHANGED <<entries, durable, dirlock, outstanding, file, ip, inum>>

Clears(p, l, m) ==
  /\ Goes(p, l, m) /\ \/ l = "ifreed" /\ m = "idrop"
                      \/ l = "ifreed_fail" /\ m = "idrop_fail"
  /\ Becomes(ip[p], itable[ip[p]].ref, FALSE, itable[ip[p]].type, itable[ip[p]].nlink, None)
  /\ UNCHANGED <<dinode, entries, durable, dirlock, outstanding, file, ip, inum>>

Drops(p, l) ==
  /\ Goes(p, l, "end") /\ ip'[p] = None
  /\ \/ l = "iput" /\ ~LastOfUnlinked(ip[p]) /\ dirlock' = dirlock
     \/ l = "iput_fail" /\ ~LastOfUnlinked(ip[p]) /\ dirlock' = None
     \/ l = "idrop" /\ dirlock' = dirlock
     \/ l = "idrop_fail" /\ dirlock' = None
  /\ Becomes(ip[p], itable[ip[p]].ref - 1, itable[ip[p]].valid, itable[ip[p]].type,
             itable[ip[p]].nlink, itable[ip[p]].lock)
  /\ UNCHANGED <<dinode, entries, durable, outstanding, file, inum>>

Kind(p) ==
  \/ \E m \in Pcs : Begins(p, m)
  \/ Closes(p) \/ Ends(p)
  \/ \E l \in Pcs : Misses(p, l)
  \/ \E s \in Slots, i \in Inums, l, m \in Pcs : Finds(p, s, i, l, m)
  \/ \E s \in Slots : GetsNew(p, s)
  \/ \E l, m \in Pcs : Locks(p, l, m)
  \/ Reads(p) \/ HasRead(p) \/ Opens(p) \/ GivesUp(p)
  \/ \E i \in Inums : Allocates(p, i)
  \/ \E l, m \in Pcs, n \in 0 .. MaxLinks, h \in Procs \cup {None} : Updates(p, l, m, n, h)
  \/ Enters(p) \/ Fails(p) \/ Unnames(p)
  \/ \E l, m \in Pcs : Takes(p, l, m) \/ Frees(p, l, m) \/ Clears(p, l, m)
  \/ \E l \in Pcs : Drops(p, l)

\* A step of one process leaves the others where they are, and comes after the boot.
LEMMA Going ==
  ASSUME IInv, NEW p \in Procs, NEW m, Goto(p, m), reclaimed' = reclaimed,
         pc[p] # "user" \/ file[p] # None \/ ~Booting,
         \A q \in Procs : q # p => ip'[q] = ip[q] /\ inum'[q] = inum[q] /\ file'[q] = file[q]
  PROVE  Goes(p, pc[p], m)
<1>1. pc'[p] = m /\ \A q \in Procs : q # p => pc'[q] = pc[q]
  BY DEF Goto, IInv, Types
<1>2. ~Booting
  BY DEF IInv, BootInv
<1> QED
  BY <1>1, <1>2 DEF Goes, Others

\* Every step of a process is of one of these kinds.
LEMMA StepKinds ==
  ASSUME IInv, NEW p \in Procs, Step(p)
  PROVE  Kind(p) /\ itable' \in [Slots -> Slot]
\* begin_op() and end_op().
<1>1. ASSUME (\E call \in {"open", "create", "link", "unlink", "close"} : begin_op(p, call)) \/ end_op(p)
      PROVE  Kind(p) /\ itable' = itable
  <2> USE <1>1
  <2>1. ASSUME NEW call \in {"open", "create", "link", "unlink"}, begin_op(p, call)
        PROVE  Begins(p, call) /\ call \in Pcs /\ itable' = itable
    <3>1. /\ Goto(p, call) /\ reclaimed' = reclaimed /\ ~Booting /\ pc[p] = "user"
          /\ outstanding' = outstanding \cup {p} /\ (call \in {"open", "create"} => file[p] = None)
          /\ UNCHANGED <<dinode, entries, durable, itable, dirlock, file, ip, inum>>
      BY <2>1 DEF begin_op
    <3>2. Goes(p, "user", call)
      BY <3>1, Going
    <3>3. call \in NoFile => call \in {"open", "create"}
      BY <2>1 DEF NoFile
    <3>4. call \in Pcs
      BY <2>1 DEF Pcs, NoFile
    <3> QED
      BY <2>1, <3>1, <3>2, <3>3, <3>4 DEF Begins
  <2>2. ASSUME begin_op(p, "close")
        PROVE  Closes(p) /\ itable' = itable
    <3>1. /\ Goto(p, "iput") /\ reclaimed' = reclaimed /\ ~Booting /\ pc[p] = "user"
          /\ outstanding' = outstanding \cup {p} /\ file[p] # None
          /\ ip' = [ip EXCEPT ![p] = file[p][1]] /\ file' = [file EXCEPT ![p] = None]
          /\ UNCHANGED <<dinode, entries, durable, itable, dirlock, inum>>
      BY <2>2 DEF begin_op
    <3>2. /\ ip'[p] = file[p][1] /\ file'[p] = None
          /\ \A q \in Procs : q # p => ip'[q] = ip[q] /\ file'[q] = file[q]
      BY <3>1 DEF IInv, Types
    <3>3. Goes(p, "user", "iput")
      BY <3>1, <3>2, Going
    <3> QED
      BY <3>1, <3>2, <3>3 DEF Closes
  <2>3. ASSUME end_op(p)
        PROVE  Ends(p) /\ itable' = itable
    <3>1. /\ Goto(p, "user") /\ reclaimed' = reclaimed /\ pc[p] = "end"
          /\ outstanding' = outstanding \ {p}
          /\ durable' = IF outstanding = {p} THEN <<dinode, entries>> ELSE durable
          /\ UNCHANGED <<dinode, entries, itable, dirlock, file, ip, inum>>
      BY <2>3 DEF end_op
    <3>2. Goes(p, "end", "user")
      BY <3>1, Going
    <3> QED
      BY <3>1, <3>2 DEF Ends
  <2> QED
    BY <2>1, <2>2, <2>3 DEF Kind
\* The look-ups in the directory, and ialloc()'s iget().
<1>2. ASSUME Lookup(p) \/ UnlinkLookup(p) \/ ialloc_iget(p)
      PROVE  Kind(p) /\ itable' \in [Slots -> Slot]
  <2> USE <1>2
  <2>1. itable \in [Slots -> Slot] /\ Types /\ inum \in [Procs -> 0 .. ninodes] /\ pc[p] \in Pcs
    BY DEF IInv, Types
  <2>2. ASSUME NEW l \in {"open", "create", "link", "unlink"}, pc[p] = l, Goto(p, "end"),
               UNCHANGED <<dinode, entries, durable, itable, dirlock, outstanding, file, ip, inum,
                           reclaimed>>
        PROVE  Misses(p, l)
    <3>1. Goes(p, l, "end")
      BY <2>2, Going
    <3> QED
      BY <2>2, <3>1 DEF Misses
  <2>3. ASSUME NEW i \in Inums, iget(p, i)
        PROVE  /\ itable' \in [Slots -> Slot] /\ \E s \in Slots : Get(p, s, i)
               /\ \A q \in Procs : q # p => ip'[q] = ip[q]
    <3>1. itable' \in [Slots -> Slot] /\ \E s \in Slots : Get(p, s, i)
      BY <2>1, <2>3, Iget
    <3> QED
      BY <3>1 DEF Get, IInv, Types
  <2>4. CASE Lookup(p)
    <3>1. /\ pc[p] \in {"open", "create", "link"} /\ dirlock = None
          /\ UNCHANGED <<dinode, entries, durable, dirlock, outstanding, file, inum, reclaimed>>
      BY <2>4 DEF Lookup
    <3>2. ASSUME NEW i \in Inums, entries[i] > 0, iget(p, i),
                 Goto(p, IF pc[p] = "link" THEN "ilock_link" ELSE "ilock_open")
          PROVE  Kind(p) /\ itable' \in [Slots -> Slot]
      <4> DEFINE m == IF pc[p] = "link" THEN "ilock_link" ELSE "ilock_open"
      <4>1. Goes(p, pc[p], m)
        BY <2>3, <3>1, <3>2, Going
      <4>2. m \in Pcs
        BY DEF Pcs, Holding
      <4>3. \/ pc[p] \in {"open", "create"} /\ m = "ilock_open"
            \/ pc[p] = "link" /\ m = "ilock_link"
        BY <3>1
      <4>4. PICK s \in Slots : Get(p, s, i)
        BY <2>3, <3>2
      <4> HIDE DEF m
      <4>5. Finds(p, s, i, pc[p], m)
        BY <3>1, <3>2, <4>1, <4>3, <4>4 DEF Finds
      <4> QED
        BY <2>1, <2>3, <3>2, <4>2, <4>5 DEF Kind
    <3>3. ASSUME pc[p] \in {"open", "link"}, Goto(p, "end"), UNCHANGED <<itable, ip>>
          PROVE  Kind(p) /\ itable' \in [Slots -> Slot]
      <4>1. Misses(p, pc[p])
        BY <2>2, <3>1, <3>3
      <4> QED
        BY <2>1, <3>3, <4>1 DEF Kind
    <3> QED
      BY <2>4, <3>2, <3>3 DEF Lookup
  <2>5. CASE UnlinkLookup(p)
    <3>1. /\ pc[p] = "unlink" /\ dirlock = None
          /\ UNCHANGED <<dinode, entries, durable, outstanding, file, inum, reclaimed>>
      BY <2>5 DEF UnlinkLookup
    <3>2. ASSUME NEW i \in Inums, entries[i] > 0, iget(p, i), dirlock' = p, Goto(p, "ilock_unlink")
          PROVE  Kind(p) /\ itable' \in [Slots -> Slot]
      <4>1. Goes(p, "unlink", "ilock_unlink")
        BY <2>3, <3>1, <3>2, Going
      <4>2. PICK s \in Slots : Get(p, s, i)
        BY <2>3, <3>2
      <4>3. Finds(p, s, i, "unlink", "ilock_unlink")
        BY <3>1, <3>2, <4>1, <4>2 DEF Finds
      <4>4. "unlink" \in Pcs /\ "ilock_unlink" \in Pcs
        BY DEF Pcs, Holding
      <4> QED
        BY <2>3, <3>2, <4>3, <4>4 DEF Kind
    <3>3. ASSUME Goto(p, "end"), UNCHANGED <<itable, ip, dirlock>>
          PROVE  Kind(p) /\ itable' \in [Slots -> Slot]
      <4>1. Misses(p, pc[p])
        BY <2>2, <3>1, <3>3
      <4> QED
        BY <2>1, <3>3, <4>1 DEF Kind
    <3> QED
      BY <2>5, <3>2, <3>3 DEF UnlinkLookup
  <2>6. CASE ialloc_iget(p)
    <3>1. /\ pc[p] = "iget_new" /\ iget(p, inum[p]) /\ inum' = [inum EXCEPT ![p] = 0]
          /\ Goto(p, "ilock_new")
          /\ UNCHANGED <<dinode, entries, durable, dirlock, outstanding, file, reclaimed>>
      BY <2>6 DEF ialloc_iget
    <3>2. inum[p] # 0
      BY <3>1 DEF IInv, ControlInv
    <3>3. inum[p] \in Inums
      BY <2>1, <3>2, SMT DEF Inums
    <3>4. inum'[p] = 0 /\ \A q \in Procs : q # p => inum'[q] = inum[q]
      BY <2>1, <3>1
    <3>5. Goes(p, "iget_new", "ilock_new")
      BY <2>3, <3>1, <3>3, <3>4, Going
    <3>6. PICK s \in Slots : Get(p, s, inum[p])
      BY <2>3, <3>1, <3>3
    <3>7. GetsNew(p, s)
      BY <3>1, <3>3, <3>4, <3>5, <3>6 DEF GetsNew
    <3> QED
      BY <2>3, <3>1, <3>3, <3>7 DEF Kind
  <2> QED
    BY <2>4, <2>5, <2>6
\* ilock() in open(), create(), link(), unlink() and fileread().
<1>3. ASSUME OpenLock(p) \/ CreateLock(p) \/ LinkLock(p) \/ UnlinkLock(p) \/ fileread(p)
      PROVE  Kind(p) /\ itable' \in [Slots -> Slot]
  <2> USE <1>3
  <2>1. Types
    BY DEF IInv
  <2>2. ASSUME NEW l \in {"ilock_open", "ilock_new", "ilock_link", "ilock_bad", "ilock_unlink"},
               NEW m \in Pcs, pc[p] = l, ilock(p, ip[p]), Goto(p, m),
               \/ l = "ilock_open" /\ m = "opened"
               \/ l = "ilock_new" /\ m = "created"
               \/ l = "ilock_link" /\ m = "linked" /\ dinode[Ino(p)].nlink < MaxLinks
               \/ l = "ilock_bad" /\ m = "bad"
               \/ l = "ilock_unlink" /\ m = "unlinking",
               UNCHANGED <<dinode, entries, durable, dirlock, outstanding, file, ip, inum, reclaimed>>
        PROVE  Kind(p) /\ itable' \in [Slots -> Slot]
    <3>1. l \in Holding /\ l # "user"
      BY <2>2 DEF Holding
    <3>2. ip[p] \in Slots /\ itable[ip[p]].inum # 0
      BY <2>2, <3>1, HasSlot DEF IInv, Ino
    <3>3. itable' \in [Slots -> Slot] /\ Lock(p, ip[p])
      BY <2>1, <2>2, <3>2, Ilock
    <3>4. Goes(p, l, m)
      BY <2>2, <3>1, Going
    <3>5. Locks(p, l, m)
      BY <2>2, <3>3, <3>4 DEF Locks
    <3>6. l \in Pcs
      BY <3>1 DEF Pcs
    <3> QED
      BY <2>2, <3>3, <3>5, <3>6 DEF Kind
  <2>3. \A m \in {"opened", "created", "linked", "bad", "unlinking"} : m \in Pcs
    BY DEF Pcs, Holding
  <2>4. CASE OpenLock(p)
    BY <2>2, <2>3, <2>4 DEF OpenLock
  <2>5. CASE CreateLock(p)
    BY <2>2, <2>3, <2>5 DEF CreateLock
  <2>6. CASE LinkLock(p)
    <3>1. CASE pc[p] = "ilock_link"
      BY <2>2, <2>3, <2>6, <3>1 DEF LinkLock, Ino
    <3>2. CASE pc[p] = "ilock_bad"
      BY <2>2, <2>3, <2>6, <3>2 DEF LinkLock
    <3> QED
      BY <2>6, <3>1, <3>2 DEF LinkLock
  <2>7. CASE UnlinkLock(p)
    BY <2>2, <2>3, <2>7 DEF UnlinkLock
  <2>8. CASE fileread(p)
    <3>1. UNCHANGED <<dinode, entries, durable, dirlock, outstanding, file, ip, inum, reclaimed>>
      BY <2>8 DEF fileread
    <3>2. CASE pc[p] = "user" /\ file[p] # None /\ ilock(p, file[p][1]) /\ Goto(p, "reading")
      <4>1. file[p][1] \in Slots /\ itable[file[p][1]].inum # 0
        BY <3>2, HasSlot DEF IInv
      <4>2. itable' \in [Slots -> Slot] /\ Lock(p, file[p][1])
        BY <2>1, <3>2, <4>1, Ilock
      <4>3. Goes(p, "user", "reading")
        BY <3>1, <3>2, Going
      <4>4. Reads(p)
        BY <3>1, <3>2, <4>2, <4>3 DEF Reads
      <4> QED
        BY <4>2, <4>4 DEF Kind
    <3>3. CASE pc[p] = "reading" /\ iunlock(file[p][1]) /\ Goto(p, "user")
      <4>1. file[p] # None
        BY <3>3 DEF IInv, ControlInv
      <4>2. file[p][1] \in Slots /\ None \in Procs \cup {None}
        BY <4>1, HasSlot DEF IInv
      <4>3. itable' \in [Slots -> Slot] /\ Passes(file[p][1], None)
        BY <2>1, <3>3, <4>2, SlotSteps DEF iunlock, Passes
      <4>4. Goes(p, "reading", "user")
        BY <3>1, <3>3, Going
      <4>5. HasRead(p)
        BY <3>1, <4>3, <4>4 DEF HasRead
      <4> QED
        BY <4>3, <4>5 DEF Kind
    <3> QED
      BY <2>8, <3>2, <3>3 DEF fileread
  <2> QED
    BY <2>4, <2>5, <2>6, <2>7, <2>8
\* The end of sys_open(), and ialloc().
<1>4. ASSUME sys_open(p) \/ ialloc(p)
      PROVE  Kind(p) /\ itable' \in [Slots -> Slot]
  <2> USE <1>4
  <2>1. Types /\ itable \in [Slots -> Slot]
    BY DEF IInv, Types
  <2>2. CASE sys_open(p)
    <3>1. /\ pc[p] = "opened" /\ iunlock(ip[p])
          /\ UNCHANGED <<dinode, entries, durable, dirlock, outstanding, inum, reclaimed>>
      BY <2>2 DEF sys_open
    <3>2. pc[p] \in Holding
      BY <3>1 DEF Holding
    <3>3. ip[p] \in Slots /\ None \in Procs \cup {None}
      BY <3>2, HasSlot DEF IInv
    <3>4. itable' \in [Slots -> Slot] /\ Passes(ip[p], None)
      BY <2>1, <3>1, <3>3, SlotSteps DEF iunlock, Passes
    <3>5. CASE /\ file' = [file EXCEPT ![p] = <<ip[p], itable[ip[p]].inum>>]
               /\ ip' = [ip EXCEPT ![p] = None]
               /\ Goto(p, "end")
      <4>1. /\ file'[p] = <<ip[p], Ino(p)>> /\ ip'[p] = None
            /\ \A q \in Procs : q # p => ip'[q] = ip[q] /\ file'[q] = file[q]
        BY <3>5 DEF IInv, Types, Ino
      <4>2. Goes(p, "opened", "end")
        BY <3>1, <3>5, <4>1, Going
      <4>3. Opens(p)
        BY <3>1, <3>4, <4>1, <4>2 DEF Opens
      <4> QED
        BY <3>4, <4>3 DEF Kind
    <3>6. CASE Goto(p, "iput") /\ UNCHANGED <<file, ip>>
      <4>1. Goes(p, "opened", "iput")
        BY <3>1, <3>6, Going
      <4>2. GivesUp(p)
        BY <3>1, <3>4, <3>6, <4>1 DEF GivesUp
      <4> QED
        BY <3>4, <4>2 DEF Kind
    <3> QED
      BY <2>2, <3>5, <3>6 DEF sys_open
  <2>3. CASE ialloc(p)
    <3> DEFINE free == {i \in Inums : dinode[i].type = 0}
    <3>1. /\ pc[p] = "create" /\ dirlock = None
          /\ UNCHANGED <<entries, durable, itable, outstanding, file, ip, reclaimed>>
      BY <2>3 DEF ialloc
    <3>2. CASE /\ free # {}
               /\ dinode' = [dinode EXCEPT ![Min(free)] = [type |-> 1, nlink |-> 0]]
               /\ inum' = [inum EXCEPT ![p] = Min(free)]
               /\ dirlock' = p
               /\ Goto(p, "iget_new")
      <4>1. free \subseteq Nat
        BY SizesAssumption, SMT DEF Inums
      <4>2. Min(free) \in free
        BY <3>2, <4>1, MinIn
      <4>3. PICK i \in Inums : i = Min(free) /\ dinode[i].type = 0
        BY <4>2
      <4>4. inum'[p] = i /\ \A q \in Procs : q # p => inum'[q] = inum[q]
        BY <3>2, <4>3 DEF IInv, Types
      <4>5. Goes(p, "create", "iget_new")
        BY <3>1, <3>2, <4>4, Going
      <4>6. dinode' = [dinode EXCEPT ![i] = [type |-> 1, nlink |-> 0]] /\ dirlock' = p
        BY <3>2, <4>3
      <4>7. Allocates(p, i)
        BY <3>1, <4>3, <4>4, <4>5, <4>6 DEF Allocates
      <4> QED
        BY <2>1, <3>1, <4>7 DEF Kind
    <3>3. CASE free = {} /\ Goto(p, "end") /\ UNCHANGED <<dinode, inum, dirlock>>
      <4>1. Goes(p, "create", "end")
        BY <3>1, <3>3, Going
      <4>2. Misses(p, "create") /\ "create" \in Pcs
        BY <3>1, <3>3, <4>1 DEF Misses, Pcs, NoFile
      <4> QED
        BY <2>1, <3>1, <4>2 DEF Kind
    <3> QED
      BY <2>3, <3>2, <3>3 DEF ialloc
  <2> QED
    BY <2>2, <2>3
\* iupdate() in create(), link() and unlink(): the count stays within bounds.
<1>5. ASSUME create(p) \/ LinkCount(p) \/ sys_unlink(p)
      PROVE  Kind(p) /\ itable' \in [Slots -> Slot]
  <2> USE <1>5
  <2> DEFINE s == ip[p]
             x == itable[s]
  <2>1. pc[p] \in {"created", "linked", "bad", "unlinked"}
    BY DEF create, LinkCount, sys_unlink
  <2>2. pc[p] \in Locking \ Freed /\ pc[p] \in Pcs
    BY <2>1 DEF Locking, Freed, Pcs, Holding
  <2>3. Types /\ s \in Slots /\ Ino(p) \in Inums /\ x.nlink = dinode[Ino(p)].nlink
    BY <2>2, LockedSlot DEF IInv
  <2>4. UNCHANGED <<durable, outstanding, file, ip, inum, reclaimed>>
    BY DEF create, LinkCount, sys_unlink
  <2>5. ASSUME NEW m \in Pcs, NEW n \in 0 .. MaxLinks, NEW h \in Procs \cup {None},
               iupdate(s, n, h), Goto(p, m),
               \/ /\ pc[p] = "created" /\ m = "opened" /\ n = 1 /\ h = p /\ dirlock' = None
                  /\ entries' = [entries EXCEPT ![Ino(p)] = @ + 1]
               \/ /\ pc[p] = "created" /\ m = "iput_fail" /\ n = 0 /\ h = None
                  /\ UNCHANGED <<entries, dirlock>>
               \/ /\ pc[p] = "linked" /\ m = "dirlink" /\ n = x.nlink + 1 /\ h = None
                  /\ UNCHANGED <<entries, dirlock>>
               \/ /\ pc[p] \in {"bad", "unlinked"} /\ m = "iput" /\ n = x.nlink - 1 /\ h = None
                  /\ UNCHANGED <<entries, dirlock>>
        PROVE  Kind(p) /\ itable' \in [Slots -> Slot]
    <3>1. itable' \in [Slots -> Slot] /\ Becomes(s, x.ref, x.valid, x.type, n, h)
      BY <2>3, <2>5, SlotSteps DEF iupdate
    <3>2. Goes(p, pc[p], m)
      BY <2>1, <2>4, <2>5, Going
    <3>3. dinode' = [dinode EXCEPT ![Ino(p)] = [type |-> x.type, nlink |-> n]]
      BY <2>5 DEF iupdate, Ino
    <3>4. Updates(p, pc[p], m, n, h)
      BY <2>4, <2>5, <3>1, <3>2, <3>3 DEF Updates
    <3> QED
      BY <2>2, <2>5, <3>1, <3>4 DEF Kind
  <2>6. 1 \in 0 .. MaxLinks /\ 0 \in 0 .. MaxLinks
    BY SizesAssumption, SMT
  <2>7. p \in Procs \cup {None} /\ None \in Procs \cup {None}
    OBVIOUS
  <2>8. \A m \in {"opened", "iput_fail", "dirlink", "iput"} : m \in Pcs
    BY DEF Pcs, Holding
  <2>9. dinode[Ino(p)].nlink \in 0 .. MaxLinks
    BY <2>3, SMT DEF Types, Disk
  <2>10. CASE create(p)
    <3>1. CASE /\ iupdate(s, 1, p) /\ entries' = [entries EXCEPT ![Ino(p)] = @ + 1]
               /\ dirlock' = None /\ Goto(p, "opened")
      BY <2>5, <2>6, <2>7, <2>8, <2>10, <3>1 DEF create
    <3>2. CASE iupdate(s, 0, None) /\ Goto(p, "iput_fail") /\ UNCHANGED <<entries, dirlock>>
      BY <2>5, <2>6, <2>7, <2>8, <2>10, <3>2 DEF create
    <3> QED
      BY <2>10, <3>1, <3>2 DEF create, Ino
  <2>11. CASE pc[p] = "linked" /\ LinkCount(p)
    <3>1. dinode[Ino(p)].nlink < MaxLinks
      BY <2>11 DEF IInv, LinksInv
    <3>2. x.nlink + 1 \in 0 .. MaxLinks
      BY <2>3, <2>9, <3>1, SizesAssumption, SMT
    <3>3. iupdate(s, x.nlink + 1, None) /\ Goto(p, "dirlink") /\ UNCHANGED <<entries, dirlock>>
      BY <2>11 DEF LinkCount
    <3> QED
      BY <2>5, <2>7, <2>8, <2>11, <3>2, <3>3
  <2>12. CASE (pc[p] = "bad" /\ LinkCount(p)) \/ sys_unlink(p)
    <3>1. pc[p] \in {"bad", "unlinked"}
      BY <2>12 DEF sys_unlink
    <3>2. p \in Pending(Ino(p))
      BY <3>1 DEF Pending, Ahead
    <3>3. dinode[Ino(p)].nlink > entries[Ino(p)] /\ entries[Ino(p)] \in Nat
      BY <2>3, <3>2, NoLinks DEF IInv
    <3>4. x.nlink - 1 \in 0 .. MaxLinks
      BY <2>3, <2>9, <3>3, SizesAssumption, SMT
    <3>5. iupdate(s, x.nlink - 1, None) /\ Goto(p, "iput") /\ UNCHANGED <<entries, dirlock>>
      BY <2>12 DEF LinkCount, sys_unlink
    <3> QED
      BY <2>5, <2>7, <2>8, <3>1, <3>4, <3>5
  <2> QED
    BY <2>10, <2>11, <2>12 DEF LinkCount
\* dirlink() in link(), and the entry that unlink() erases.
<1>6. ASSUME sys_link(p) \/ UnlinkEntry(p)
      PROVE  Kind(p) /\ itable' \in [Slots -> Slot]
  <2> USE <1>6
  <2>1. itable' \in [Slots -> Slot]
    BY DEF sys_link, UnlinkEntry, IInv, Types
  <2>2. CASE sys_link(p)
    <3>1. /\ pc[p] = "dirlink"
          /\ UNCHANGED <<dinode, durable, itable, dirlock, outstanding, file, ip, inum, reclaimed>>
      BY <2>2 DEF sys_link
    <3>2. CASE entries' = [entries EXCEPT ![Ino(p)] = @ + 1] /\ Goto(p, "iput")
      <4>1. Goes(p, "dirlink", "iput")
        BY <3>1, <3>2, Going
      <4> QED
        BY <2>1, <3>1, <3>2, <4>1 DEF Enters, Kind
    <3>3. CASE Goto(p, "ilock_bad") /\ UNCHANGED entries
      <4>1. Goes(p, "dirlink", "ilock_bad")
        BY <3>1, <3>3, Going
      <4> QED
        BY <2>1, <3>1, <3>3, <4>1 DEF Fails, Kind
    <3> QED
      BY <2>2, <3>2, <3>3 DEF sys_link, Ino
  <2>3. CASE UnlinkEntry(p)
    <3>1. /\ pc[p] = "unlinking" /\ Goto(p, "unlinked") /\ dirlock' = None
          /\ entries' = [entries EXCEPT ![Ino(p)] = @ - 1]
          /\ UNCHANGED <<dinode, durable, itable, outstanding, file, ip, inum, reclaimed>>
      BY <2>3 DEF UnlinkEntry, Ino
    <3>2. Goes(p, "unlinking", "unlinked")
      BY <3>1, Going
    <3> QED
      BY <2>1, <3>1, <3>2 DEF Unnames, Kind
  <2> QED
    BY <2>2, <2>3
\* Where iput() goes on, in the middle of create() and elsewhere.
<1>7. ASSUME NEW l
      PROVE  /\ (l = "iput" => After(l).free = "ifree")
             /\ (l = "iput_fail" => After(l).free = "ifree_fail")
             /\ (l = "ifree" => After(l).freed = "ifreed")
             /\ (l = "ifree_fail" => After(l).freed = "ifreed_fail")
             /\ (l = "ifreed" => After(l).drop = "idrop")
             /\ (l = "ifreed_fail" => After(l).drop = "idrop_fail")
  <2> DEFINE a == [free |-> "ifree_fail", freed |-> "ifreed_fail", drop |-> "idrop_fail"]
             b == [free |-> "ifree", freed |-> "ifreed", drop |-> "idrop"]
  <2>1. a.free = "ifree_fail" /\ a.freed = "ifreed_fail" /\ a.drop = "idrop_fail"
    BY SMT
  <2>2. b.free = "ifree" /\ b.freed = "ifreed" /\ b.drop = "idrop"
    BY SMT
  <2>3. l \in {"iput_fail", "ifree_fail", "ifreed_fail"} => After(l) = a
    BY DEF After
  <2>4. l \in {"iput", "ifree", "ifreed"} => After(l) = b
    BY DEF After
  <2> HIDE DEF a, b
  <2> QED
    BY <2>1, <2>2, <2>3, <2>4
\* iput().
<1>8. ASSUME iput(p) \/ iput_free(p) \/ iput_invalidate(p) \/ iput_drop(p)
      PROVE  Kind(p) /\ itable' \in [Slots -> Slot]
  <2> USE <1>8
  <2> DEFINE s == ip[p]
             x == itable[s]
  <2>1. pc[p] \in {"iput", "iput_fail", "ifree", "ifree_fail", "ifreed", "ifreed_fail", "idrop",
                   "idrop_fail"}
    BY DEF iput, iput_free, iput_invalidate, iput_drop
  <2>2. pc[p] \in Holding /\ pc[p] \in Pcs
    BY <2>1 DEF Pcs, Holding
  <2>3. /\ Types /\ s \in Slots /\ x.ref > 0
        /\ p \in Procs \cup {None} /\ None \in Procs \cup {None}
    BY <2>2, HasSlot DEF IInv
  <2>4. UNCHANGED <<entries, durable, outstanding, file, inum, reclaimed>>
    BY DEF iput, iput_free, iput_invalidate, iput_drop
  <2>5. \A m \in {"ifree", "ifree_fail", "ifreed", "ifreed_fail", "idrop", "idrop_fail"} : m \in Pcs
    BY DEF Pcs, Holding
  <2>6. ASSUME Dropped(p), UNCHANGED dinode, pc[p] \in {"iput", "iput_fail", "idrop", "idrop_fail"},
               pc[p] \in {"iput", "iput_fail"} => ~LastOfUnlinked(s)
        PROVE  Kind(p) /\ itable' \in [Slots -> Slot]
    <3>1. /\ itable' = [itable EXCEPT ![s].ref = @ - 1] /\ ip' = [ip EXCEPT ![p] = None]
          /\ IF pc[p] \in {"iput_fail", "idrop_fail"} THEN dirlock' = None ELSE UNCHANGED dirlock
          /\ Goto(p, "end")
      BY <2>6 DEF Dropped
    <3>2. /\ itable' \in [Slots -> Slot]
          /\ Becomes(s, x.ref - 1, x.valid, x.type, x.nlink, x.lock)
      BY <2>3, <3>1, SlotSteps
    <3>3. ip'[p] = None /\ \A q \in Procs : q # p => ip'[q] = ip[q]
      BY <3>1 DEF IInv, Types
    <3>4. Goes(p, pc[p], "end")
      BY <2>1, <2>4, <3>1, <3>3, Going
    <3>5. \/ pc[p] = "iput" /\ ~LastOfUnlinked(s) /\ dirlock' = dirlock
          \/ pc[p] = "iput_fail" /\ ~LastOfUnlinked(s) /\ dirlock' = None
          \/ pc[p] = "idrop" /\ dirlock' = dirlock
          \/ pc[p] = "idrop_fail" /\ dirlock' = None
      BY <2>6, <3>1
    <3>6. Drops(p, pc[p])
      BY <2>4, <2>6, <3>2, <3>3, <3>4, <3>5 DEF Drops
    <3> QED
      BY <2>2, <3>2, <3>6 DEF Kind
  <2>7. CASE iput(p)
    <3>1. pc[p] \in {"iput", "iput_fail"} /\ UNCHANGED dinode
      BY <2>7 DEF iput
    <3>2. CASE LastOfUnlinked(s)
      <4> DEFINE m == After(pc[p]).free
      <4>1. /\ x.lock = None /\ itable' = [itable EXCEPT ![s].lock = p] /\ Goto(p, m)
            /\ UNCHANGED <<ip, dirlock>>
        BY <2>7, <3>2 DEF iput
      <4>2. (pc[p] = "iput" /\ m = "ifree") \/ (pc[p] = "iput_fail" /\ m = "ifree_fail")
        BY <3>1, <1>7
      <4> HIDE DEF m
      <4>3. itable' \in [Slots -> Slot] /\ Passes(s, p)
        BY <2>3, <4>1, SlotSteps DEF Passes
      <4>4. Goes(p, pc[p], m) /\ m \in Pcs
        BY <2>1, <2>4, <2>5, <4>1, <4>2, Going
      <4>5. Takes(p, pc[p], m)
        BY <2>4, <3>1, <3>2, <4>1, <4>2, <4>3, <4>4 DEF Takes
      <4> QED
        BY <2>2, <4>3, <4>4, <4>5 DEF Kind
    <3>3. CASE ~LastOfUnlinked(s)
      BY <2>6, <2>7, <3>1, <3>3 DEF iput
    <3> QED
      BY <3>2, <3>3
  <2>8. CASE iput_free(p)
    <3> DEFINE m == After(pc[p]).freed
    <3>1. /\ itable' = [itable EXCEPT ![s].type = 0] /\ Goto(p, m) /\ UNCHANGED <<ip, dirlock>>
          /\ dinode' = [dinode EXCEPT ![Ino(p)].type = 0]
      BY <2>8 DEF iput_free, Ino
    <3>2. (pc[p] = "ifree" /\ m = "ifreed") \/ (pc[p] = "ifree_fail" /\ m = "ifreed_fail")
      BY <2>8, <1>7 DEF iput_free
    <3> HIDE DEF m
    <3>3. itable' \in [Slots -> Slot] /\ Becomes(s, x.ref, x.valid, 0, x.nlink, x.lock)
      BY <2>3, <3>1, SlotSteps
    <3>4. Goes(p, pc[p], m) /\ m \in Pcs
      BY <2>1, <2>4, <2>5, <3>1, <3>2, Going
    <3>5. Frees(p, pc[p], m)
      BY <2>4, <3>1, <3>2, <3>3, <3>4 DEF Frees
    <3> QED
      BY <2>2, <3>3, <3>4, <3>5 DEF Kind
  <2>9. CASE iput_invalidate(p)
    <3> DEFINE m == After(pc[p]).drop
    <3>1. /\ itable' = [itable EXCEPT ![s].valid = FALSE, ![s].lock = None] /\ Goto(p, m)
          /\ UNCHANGED <<dinode, ip, dirlock>>
      BY <2>9 DEF iput_invalidate
    <3>2. (pc[p] = "ifreed" /\ m = "idrop") \/ (pc[p] = "ifreed_fail" /\ m = "idrop_fail")
      BY <2>9, <1>7 DEF iput_invalidate
    <3> HIDE DEF m
    <3>3. itable' \in [Slots -> Slot] /\ Becomes(s, x.ref, FALSE, x.type, x.nlink, None)
      BY <2>3, <3>1, SlotSteps
    <3>4. Goes(p, pc[p], m) /\ m \in Pcs
      BY <2>1, <2>4, <2>5, <3>1, <3>2, Going
    <3>5. Clears(p, pc[p], m)
      BY <2>4, <3>1, <3>2, <3>3, <3>4 DEF Clears
    <3> QED
      BY <2>2, <3>3, <3>4, <3>5 DEF Kind
  <2>10. CASE iput_drop(p)
    BY <2>6, <2>10 DEF iput_drop
  <2> QED
    BY <2>7, <2>8, <2>9, <2>10
<1>9. itable \in [Slots -> Slot]
  BY DEF IInv, Types
<1> QED
  BY <1>9, <1>1, <1>2, <1>3, <1>4, <1>5, <1>6, <1>8 DEF Step
-----------------------------------------------------------------------------
(* What a step of p leaves alone.                                          *)

\* The steps that leave the table alone, and the others.
Still(p) ==
  \/ \E m \in Pcs : Begins(p, m)
  \/ Closes(p) \/ Ends(p)
  \/ \E l \in Pcs : Misses(p, l)
  \/ \E i \in Inums : Allocates(p, i)
  \/ Enters(p) \/ Fails(p) \/ Unnames(p)

\* These steps leave the table alone.
LEMMA StillTable ==
  ASSUME NEW p \in Procs, Still(p)
  PROVE  itable' = itable
BY DEF Still, Begins, Closes, Ends, Misses, Allocates, Enters, Fails, Unnames

Dropping == {"iput", "iput_fail", "idrop", "idrop_fail"}

\* The number of a slot in use, the locks of others, valid slots, and counts.
SlotKept(p, s) ==
  /\ itable[s].ref > 0 => itable'[s].inum = itable[s].inum
  /\ \A q \in Procs : q # p => (itable'[s].lock = q <=> itable[s].lock = q)
  /\ itable[s].valid /\ ~itable'[s].valid => \/ ~(itable[s].ref > 0)
                                             \/ pc[p] \in Freed /\ ip[p] = s
  /\ \/ itable'[s].ref = itable[s].ref
     \/ itable'[s].ref = itable[s].ref + 1 /\ ip'[p] = s /\ pc'[p] \in Fetching
     \/ itable'[s].ref = itable[s].ref - 1 /\ ip[p] = s /\ pc[p] \in Dropping /\ pc'[p] = "end"

\* What a step of p may do to slot s: the slot of an inode in use keeps the inode,
\* locks are passed only by their holders, and references are counted one by one.
LEMMA TableFacts ==
  ASSUME IInv, NEW p \in Procs, Kind(p), NEW s \in Slots
  PROVE  SlotKept(p, s)
<1>1. ASSUME itable'[s] = itable[s]
      PROVE  SlotKept(p, s)
  BY <1>1 DEF SlotKept
<1>2. CASE Still(p)
  BY <1>1, <1>2, StillTable
<1>3. ASSUME NEW t \in Slots, NEW i, Get(p, t, i), pc'[p] \in Fetching
      PROVE  SlotKept(p, s)
  <2>1. CASE s = t
    <3>1. ip'[p] = s
      BY <1>3, <2>1 DEF Get, IInv, Types
    <3> QED
      BY <1>3, <2>1, <3>1 DEF Get, SlotKept
  <2>2. CASE s # t
    BY <1>1, <1>3, <2>2 DEF Get, Only
  <2> QED
    BY <2>1, <2>2
<1>4. ASSUME NEW l \in Pcs, NEW m \in Pcs, NEW t \in Slots, NEW i \in Inums, Finds(p, t, i, l, m)
      PROVE  SlotKept(p, s)
  <2>1. Get(p, t, i) /\ m \in {"ilock_open", "ilock_link", "ilock_unlink"} /\ pc'[p] = m
    BY <1>4 DEF Finds, Goes
  <2>2. pc'[p] \in Fetching
    BY <2>1 DEF Fetching
  <2> QED
    BY <1>3, <2>1, <2>2
<1>5. ASSUME NEW t \in Slots, GetsNew(p, t)
      PROVE  SlotKept(p, s)
  <2>1. Get(p, t, inum[p]) /\ pc'[p] = "ilock_new"
    BY <1>5 DEF GetsNew, Goes
  <2>2. pc'[p] \in Fetching
    BY <2>1 DEF Fetching
  <2> QED
    BY <1>3, <2>1, <2>2
<1>6. None \notin Procs
  BY NoneAssumption
<1>7. ASSUME NEW t, Lock(p, t)
      PROVE  SlotKept(p, s)
  <2>1. CASE s = t
    BY <1>6, <1>7, <2>1 DEF Lock, SlotKept
  <2>2. CASE s # t
    BY <1>1, <1>7, <2>2 DEF Lock, Only
  <2> QED
    BY <2>1, <2>2
<1>8. CASE Reads(p) \/ \E l, m \in Pcs : Locks(p, l, m)
  BY <1>7, <1>8 DEF Reads, Locks
<1>9. ASSUME NEW t, NEW v, NEW d, NEW k, NEW h, Becomes(t, itable[t].ref, v, d, k, h),
             h \in {p, None}, itable[t].lock \in {p, None},
             ~v /\ itable[t].valid => pc[p] \in Freed /\ ip[p] = t
      PROVE  SlotKept(p, s)
  <2>1. CASE s = t
    BY <1>6, <1>9, <2>1 DEF Becomes, SlotKept
  <2>2. CASE s # t
    BY <1>1, <1>9, <2>2 DEF Becomes, Only
  <2> QED
    BY <2>1, <2>2
<1>10. ASSUME pc[p] \in Locking
       PROVE  itable[ip[p]].lock = p
  <2>1. ip[p] \in Slots
    BY <1>10, HasSlot DEF IInv, Locking, Holding
  <2> QED
    BY <1>10, <2>1 DEF IInv, LockInv
<1>11. CASE HasRead(p)
  <2>1. pc[p] = "reading" /\ Passes(file[p][1], None)
    BY <1>11 DEF HasRead, Goes
  <2>2. file[p] # None
    BY <2>1 DEF IInv, ControlInv
  <2>3. file[p][1] \in Slots
    BY <2>2, HasSlot DEF IInv
  <2>4. itable[file[p][1]].lock = p
    BY <2>1, <2>3 DEF IInv, LockInv
  <2> QED
    BY <1>9, <2>1, <2>4 DEF Passes
<1>12. CASE Opens(p) \/ GivesUp(p)
  <2>1. pc[p] = "opened" /\ Passes(ip[p], None)
    BY <1>12 DEF Opens, GivesUp, Goes
  <2>2. itable[ip[p]].lock = p
    BY <1>10, <2>1 DEF Locking
  <2> QED
    BY <1>9, <2>1, <2>2 DEF Passes
<1>13. ASSUME NEW l \in Pcs, NEW m \in Pcs, NEW n, NEW h, Updates(p, l, m, n, h)
       PROVE  SlotKept(p, s)
  <2>1. /\ pc[p] \in {"created", "linked", "bad", "unlinked"} /\ h \in {p, None}
        /\ Becomes(ip[p], itable[ip[p]].ref, itable[ip[p]].valid, itable[ip[p]].type, n, h)
    BY <1>13 DEF Updates, Goes
  <2>2. itable[ip[p]].lock = p
    BY <1>10, <2>1 DEF Locking
  <2> QED
    BY <1>9, <2>1, <2>2
<1>14. ASSUME NEW l \in Pcs, NEW m \in Pcs, Takes(p, l, m) \/ Frees(p, l, m) \/ Clears(p, l, m)
       PROVE  SlotKept(p, s)
  <2>1. CASE Takes(p, l, m)
    BY <1>9, <2>1 DEF Takes, Passes
  <2>2. CASE Frees(p, l, m)
    <3>1. pc[p] \in Locking
      BY <2>2 DEF Frees, Goes, Locking
    <3> QED
      BY <1>9, <1>10, <2>2, <3>1 DEF Frees
  <2>3. CASE Clears(p, l, m)
    <3>1. pc[p] \in Locking /\ pc[p] \in Freed
      BY <2>3 DEF Clears, Goes, Locking, Freed
    <3> QED
      BY <1>9, <1>10, <2>3, <3>1 DEF Clears
  <2> QED
    BY <1>14, <2>1, <2>2, <2>3
<1>15. ASSUME NEW l \in Pcs, Drops(p, l)
       PROVE  SlotKept(p, s)
  <2>1. /\ pc[p] \in Dropping /\ pc'[p] = "end"
        /\ Becomes(ip[p], itable[ip[p]].ref - 1, itable[ip[p]].valid, itable[ip[p]].type,
                   itable[ip[p]].nlink, itable[ip[p]].lock)
    BY <1>15 DEF Drops, Goes, Dropping
  <2>2. CASE s = ip[p]
    BY <2>1, <2>2 DEF Becomes, SlotKept
  <2>3. CASE s # ip[p]
    BY <1>1, <2>1, <2>3 DEF Becomes, Only
  <2> QED
    BY <2>2, <2>3
<1> QED
  BY <1>2, <1>4, <1>5, <1>8, <1>11, <1>12, <1>13, <1>14, <1>15 DEF Kind, Still
-----------------------------------------------------------------------------
(* The counts of references.                                               *)

\* An open file f refers to slot s.
Filed(f, s) == f # None /\ f[1] = s

\* ref stays exact: the count of every slot stays the number of pointers
\* to it, whatever a system call does (iget, idup of an open file, iput).
LEMMA RefStep ==
  ASSUME IInv, NEW p \in Procs, Kind(p), Others(p),
         itable' \in [Slots -> Slot]
  PROVE  RefExact'
\* Pointers(s) and Files(s) change by p alone.
<1>1. ASSUME NEW s
      PROVE  /\ Pointers(s)' = IF ip'[p] = s THEN Pointers(s) \cup {p} ELSE Pointers(s) \ {p}
             /\ Files(s)' = IF file'[p] # None /\ file'[p][1] = s THEN Files(s) \cup {p}
                            ELSE Files(s) \ {p}
  BY DEF Others, Pointers, Files
\* They are finite, and gain or lose one by it.
<1>2. ASSUME NEW s
      PROVE  /\ Cardinality(Pointers(s)) \in Nat /\ Cardinality(Files(s)) \in Nat
             /\ (ip[p] # s => /\ Cardinality(Pointers(s) \cup {p}) = Cardinality(Pointers(s)) + 1
                              /\ Pointers(s) \ {p} = Pointers(s))
             /\ (ip[p] = s => /\ Cardinality(Pointers(s) \ {p}) = Cardinality(Pointers(s)) - 1
                              /\ Pointers(s) \cup {p} = Pointers(s))
             /\ (file[p] # None /\ file[p][1] = s =>
                   /\ Cardinality(Files(s) \ {p}) = Cardinality(Files(s)) - 1
                   /\ Files(s) \cup {p} = Files(s))
             /\ (file[p] = None \/ file[p][1] # s =>
                   /\ Cardinality(Files(s) \cup {p}) = Cardinality(Files(s)) + 1
                   /\ Files(s) \ {p} = Files(s))
  <2>1. Pointers(s) \subseteq Procs /\ Files(s) \subseteq Procs
    BY DEF Pointers, Files
  <2>2. Cardinality(Pointers(s)) \in Nat /\ Cardinality(Files(s)) \in Nat
    BY <2>1, Counting
  <2>3. (ip[p] = s <=> p \in Pointers(s)) /\ (file[p] # None /\ file[p][1] = s <=> p \in Files(s))
    BY DEF Pointers, Files
  <2>4. ASSUME NEW S, S \subseteq Procs
        PROVE  /\ p \notin S => Cardinality(S \cup {p}) = Cardinality(S) + 1 /\ S \ {p} = S
               /\ p \in S => Cardinality(S \ {p}) = Cardinality(S) - 1 /\ S \cup {p} = S
    BY <2>4, Counting
  <2>5. /\ ip[p] # s => /\ Cardinality(Pointers(s) \cup {p}) = Cardinality(Pointers(s)) + 1
                        /\ Pointers(s) \ {p} = Pointers(s)
        /\ ip[p] = s => /\ Cardinality(Pointers(s) \ {p}) = Cardinality(Pointers(s)) - 1
                        /\ Pointers(s) \cup {p} = Pointers(s)
    BY <2>1, <2>3, <2>4
  <2>6. /\ file[p] # None /\ file[p][1] = s =>
             /\ Cardinality(Files(s) \ {p}) = Cardinality(Files(s)) - 1
             /\ Files(s) \cup {p} = Files(s)
        /\ file[p] = None \/ file[p][1] # s =>
             /\ Cardinality(Files(s) \cup {p}) = Cardinality(Files(s)) + 1
             /\ Files(s) \ {p} = Files(s)
    BY <2>1, <2>3, <2>4
  <2> QED
    BY <2>2, <2>5, <2>6
\* A step of p adds it to the counts of s, takes it away, or leaves them.
<1>3. ASSUME NEW s
      PROVE  /\ (ip[p] # s /\ ip'[p] = s => Cardinality(Pointers(s)') = Cardinality(Pointers(s)) + 1)
             /\ (ip[p] = s /\ ip'[p] # s => Cardinality(Pointers(s)') = Cardinality(Pointers(s)) - 1)
             /\ ((ip[p] = s <=> ip'[p] = s) => Cardinality(Pointers(s)') = Cardinality(Pointers(s)))
             /\ (~Filed(file[p], s) /\ Filed(file'[p], s) => Cardinality(Files(s)') = Cardinality(Files(s)) + 1)
             /\ (Filed(file[p], s) /\ ~Filed(file'[p], s) => Cardinality(Files(s)') = Cardinality(Files(s)) - 1)
             /\ ((Filed(file[p], s) <=> Filed(file'[p], s)) => Cardinality(Files(s)') = Cardinality(Files(s)))
  <2>1. /\ (ip'[p] = s => Pointers(s)' = Pointers(s) \cup {p})
        /\ (ip'[p] # s => Pointers(s)' = Pointers(s) \ {p})
    BY <1>1
  <2>2. /\ (Filed(file'[p], s) => Files(s)' = Files(s) \cup {p})
        /\ (~Filed(file'[p], s) => Files(s)' = Files(s) \ {p})
    BY <1>1 DEF Filed
  <2>3. /\ (ip[p] # s /\ ip'[p] = s => Cardinality(Pointers(s)') = Cardinality(Pointers(s)) + 1)
        /\ (ip[p] = s /\ ip'[p] # s => Cardinality(Pointers(s)') = Cardinality(Pointers(s)) - 1)
        /\ ((ip[p] = s <=> ip'[p] = s) => Cardinality(Pointers(s)') = Cardinality(Pointers(s)))
    <3>1. /\ (ip[p] # s => /\ Cardinality(Pointers(s) \cup {p}) = Cardinality(Pointers(s)) + 1
                           /\ Pointers(s) \ {p} = Pointers(s))
          /\ (ip[p] = s => /\ Cardinality(Pointers(s) \ {p}) = Cardinality(Pointers(s)) - 1
                           /\ Pointers(s) \cup {p} = Pointers(s))
      BY <1>2
    <3> QED
      BY <2>1, <3>1
  <2>4. /\ (Filed(file[p], s) => /\ Cardinality(Files(s) \ {p}) = Cardinality(Files(s)) - 1
                                /\ Files(s) \cup {p} = Files(s))
        /\ (~Filed(file[p], s) => /\ Cardinality(Files(s) \cup {p}) = Cardinality(Files(s)) + 1
                                 /\ Files(s) \ {p} = Files(s))
    BY <1>2 DEF Filed
  <2>5. /\ (~Filed(file[p], s) /\ Filed(file'[p], s) => Cardinality(Files(s)') = Cardinality(Files(s)) + 1)
        /\ (Filed(file[p], s) /\ ~Filed(file'[p], s) => Cardinality(Files(s)') = Cardinality(Files(s)) - 1)
        /\ ((Filed(file[p], s) <=> Filed(file'[p], s)) => Cardinality(Files(s)') = Cardinality(Files(s)))
    BY <2>2, <2>4
  <2> QED
    BY <2>3, <2>5
<1> SUFFICES ASSUME NEW s \in Slots
             PROVE  itable'[s].ref = Cardinality(Pointers(s)') + Cardinality(Files(s)')
  BY DEF RefExact, Pointers, Files
<1> DEFINE P == Cardinality(Pointers(s))
           F == Cardinality(Files(s))
<1>4. itable[s].ref = P + F /\ P \in Nat /\ F \in Nat
  <2>1. RefExact
    BY DEF IInv
  <2>2. itable[s].ref = P + F
    BY <2>1 DEF RefExact, Pointers, Files
  <2> QED
    BY <2>2, <1>2
<1>5. SlotKept(p, s)
  BY TableFacts
<1>6. ASSUME ip'[p] = ip[p], file'[p] = file[p]
      PROVE  Cardinality(Pointers(s)') = P /\ Cardinality(Files(s)') = F
  BY <1>6, <1>3
<1>7. None # s
  BY NoneAssumption
<1>8. ASSUME ip[p] = None, ip'[p] \in Slots, file'[p] = file[p]
      PROVE  /\ ip'[p] = s => Cardinality(Pointers(s)') = P + 1
             /\ ip'[p] # s => Cardinality(Pointers(s)') = P
             /\ Cardinality(Files(s)') = F
  BY <1>7, <1>8, <1>3
<1>9. ASSUME ip'[p] = None, file'[p] = file[p]
      PROVE  /\ ip[p] = s => Cardinality(Pointers(s)') = P - 1
             /\ ip[p] # s => Cardinality(Pointers(s)') = P
             /\ Cardinality(Files(s)') = F
  BY <1>7, <1>9, <1>3
<1>10. CASE Closes(p)
  <2>1. /\ file[p] # None /\ ip'[p] = file[p][1] /\ file'[p] = None /\ pc[p] = "user"
        /\ itable' = itable
    BY <1>10 DEF Closes, Goes
  <2>2. ip[p] = None
    BY <2>1 DEF IInv, ControlInv, Holding
  <2>3. CASE file[p][1] = s
    <3>1. Cardinality(Pointers(s)') = P + 1 /\ Cardinality(Files(s)') = F - 1
      BY <1>7, <2>1, <2>2, <2>3, <1>3 DEF Filed
    <3> HIDE DEF P, F
    <3> QED
      BY <1>4, <2>1, <3>1, SMT
  <2>4. CASE file[p][1] # s
    <3>1. Cardinality(Pointers(s)') = P /\ Cardinality(Files(s)') = F
      BY <1>7, <2>1, <2>2, <2>4, <1>3 DEF Filed
    <3> QED
      BY <1>4, <2>1, <3>1
  <2> QED
    BY <2>3, <2>4
<1>11. CASE Opens(p)
  <2>1. /\ file'[p] = <<ip[p], Ino(p)>> /\ ip'[p] = None /\ pc[p] = "opened" /\ pc'[p] = "end"
    BY <1>11 DEF Opens, Goes
  <2>2. file[p] = None /\ ip[p] # None
    BY <2>1 DEF IInv, ControlInv, NoFile, Holding
  <2>3. file'[p] # None /\ file'[p][1] = ip[p]
    <3>1. ip[p] \in Slots /\ Ino(p) \in Inums
      BY <2>2, HasSlot DEF IInv
    <3>2. file'[p] \in Slots \X Inums /\ file'[p][1] = ip[p]
      BY <2>1, <3>1, SMT
    <3> QED
      BY <3>2, NoneAssumption
  <2>4. itable'[s].ref = itable[s].ref
    BY <1>5, <2>1 DEF SlotKept, Fetching, Dropping
  <2>5. CASE ip[p] = s
    <3>1. Cardinality(Pointers(s)') = P - 1 /\ Cardinality(Files(s)') = F + 1
      BY <1>7, <2>1, <2>2, <2>3, <2>5, <1>3 DEF Filed
    <3> HIDE DEF P, F
    <3> QED
      BY <1>4, <2>4, <3>1, SMT
  <2>6. CASE ip[p] # s
    <3>1. Cardinality(Pointers(s)') = P /\ Cardinality(Files(s)') = F
      BY <1>7, <2>1, <2>2, <2>3, <2>6, <1>3 DEF Filed
    <3> QED
      BY <1>4, <2>4, <3>1
  <2> QED
    BY <2>5, <2>6
<1>12. ASSUME NEW t \in Slots, NEW i, Get(p, t, i), UNCHANGED file,
              pc[p] \in {"open", "create", "link", "unlink", "iget_new"}
       PROVE  itable'[s].ref = Cardinality(Pointers(s)') + Cardinality(Files(s)')
  <2>1. ip[p] = None /\ ip'[p] = t /\ file'[p] = file[p]
    BY <1>12 DEF Get, IInv, ControlInv, Holding, Types
  <2>2. CASE s = t
    <3>1. itable'[s].ref = itable[s].ref + 1
      BY <1>12, <2>2 DEF Get
    <3>2. Cardinality(Pointers(s)') = P + 1 /\ Cardinality(Files(s)') = F
      BY <1>8, <2>1, <2>2
    <3> HIDE DEF P, F
    <3> QED
      BY <1>4, <3>1, <3>2, SMT
  <2>3. CASE s # t
    <3>1. itable'[s].ref = itable[s].ref
      BY <1>12, <2>3 DEF Get, Only
    <3> QED
      BY <1>4, <1>8, <2>1, <2>3, <3>1
  <2> QED
    BY <2>2, <2>3
<1>13. ASSUME NEW l, Drops(p, l)
       PROVE  itable'[s].ref = Cardinality(Pointers(s)') + Cardinality(Files(s)')
  <2>1. /\ ip'[p] = None /\ file'[p] = file[p]
        /\ Becomes(ip[p], itable[ip[p]].ref - 1, itable[ip[p]].valid, itable[ip[p]].type,
                   itable[ip[p]].nlink, itable[ip[p]].lock)
    BY <1>13 DEF Drops
  <2>2. CASE s = ip[p]
    <3>1. itable'[s].ref = itable[s].ref - 1
      BY <2>1, <2>2 DEF Becomes
    <3>2. Cardinality(Pointers(s)') = P - 1 /\ Cardinality(Files(s)') = F
      BY <1>9, <2>1, <2>2
    <3> HIDE DEF P, F
    <3> QED
      BY <1>4, <3>1, <3>2, SMT
  <2>3. CASE s # ip[p]
    <3>1. itable'[s].ref = itable[s].ref
      BY <2>1, <2>3 DEF Becomes, Only
    <3> QED
      BY <1>4, <1>9, <2>1, <2>3, <3>1
  <2> QED
    BY <2>2, <2>3
<1>14. ASSUME ip'[p] = ip[p], file'[p] = file[p], pc'[p] \notin Fetching,
              pc[p] \in Dropping => pc'[p] # "end"
       PROVE  itable'[s].ref = Cardinality(Pointers(s)') + Cardinality(Files(s)')
  BY <1>4, <1>5, <1>6, <1>14 DEF SlotKept
<1>15. CASE Ends(p) \/ (\E m \in Pcs : Begins(p, m)) \/ \E l \in Pcs : Misses(p, l)
  BY <1>14, <1>15 DEF Ends, Begins, Misses, Goes, Fetching, Dropping
<1>16. CASE \E l, m \in Pcs : Locks(p, l, m)
  BY <1>14, <1>16 DEF Locks, Goes, Fetching, Dropping
<1>17. CASE Reads(p) \/ HasRead(p) \/ GivesUp(p) \/ Enters(p) \/ Fails(p) \/ Unnames(p)
  BY <1>14, <1>17 DEF Reads, HasRead, GivesUp, Enters, Fails, Unnames, Goes, Fetching, Dropping
<1>18. CASE \E i \in Inums : Allocates(p, i)
  BY <1>14, <1>18 DEF Allocates, Goes, Fetching, Dropping
<1>19. CASE \E l, m \in Pcs, n \in 0 .. MaxLinks, h \in Procs \cup {None} : Updates(p, l, m, n, h)
  <2>0. PICK l \in Pcs, m \in Pcs, n \in 0 .. MaxLinks, h \in Procs \cup {None} : Updates(p, l, m, n, h)
    BY <1>19
  <2>1. UNCHANGED <<file, ip>> /\ pc'[p] \in {"opened", "iput_fail", "dirlink", "iput"}
    BY <2>0 DEF Updates, Goes
  <2> QED
    BY <1>14, <2>1 DEF Fetching
<1>20. CASE \E l, m \in Pcs : Takes(p, l, m) \/ Frees(p, l, m) \/ Clears(p, l, m)
  BY <1>14, <1>20 DEF Takes, Frees, Clears, Goes, Fetching, Dropping
<1>21. CASE (\E t \in Slots, i \in Inums, l, m \in Pcs : Finds(p, t, i, l, m)) \/ \E t \in Slots : GetsNew(p, t)
  BY <1>12, <1>21 DEF Finds, GetsNew, Goes
<1> QED
  BY <1>10, <1>11, <1>13, <1>15, <1>16, <1>17, <1>18, <1>19, <1>20, <1>21 DEF Kind
-----------------------------------------------------------------------------
(* The variables of the processes stay functions on them.                  *)

Fn(f)  == f = [q \in Procs |-> f[q]]
Shaped == Fn(pc') /\ Fn(ip') /\ Fn(inum') /\ Fn(file')

\* Every step of a system call assigns the variables of its own process.
LEMMA Shapes ==
  ASSUME Types, NEW p \in Procs, Step(p)
  PROVE  Shaped
\* Assigning one element of such a function leaves it one.
<1>1. ASSUME NEW f, Fn(f), NEW v, NEW g, g = [f EXCEPT ![p] = v]
      PROVE  Fn(g)
  <2> USE <1>1
  <2> QED
    BY DEF Fn
<1>2. Fn(pc) /\ Fn(ip) /\ Fn(inum) /\ Fn(file)
  BY DEF Types, Fn
<1>3. \A l : Goto(p, l) => Fn(pc')
  BY <1>2, <1>1 DEF Goto
<1>4. \A s : ip' = [ip EXCEPT ![p] = s] => Fn(ip')
  BY <1>2, <1>1
<1>5. \A i : inum' = [inum EXCEPT ![p] = i] => Fn(inum')
  BY <1>2, <1>1
<1>6. \A x : file' = [file EXCEPT ![p] = x] => Fn(file')
  BY <1>2, <1>1
<1>7. /\ (pc' = pc => Fn(pc')) /\ (ip' = ip => Fn(ip'))
      /\ (inum' = inum => Fn(inum')) /\ (file' = file => Fn(file'))
  BY <1>2
<1>8. \A i : iget(p, i) => Fn(ip')
  BY <1>4 DEF iget
<1>9. Dropped(p) => Fn(pc') /\ Fn(ip')
  BY <1>3, <1>4 DEF Dropped
<1> HIDE DEF Shaped
<1>10. ASSUME NEW call \in {"open", "create", "link", "unlink", "close"}, begin_op(p, call)
      PROVE  Shaped
  BY <1>10, <1>3, <1>4, <1>6, <1>7 DEF begin_op, Shaped
<1>11. CASE end_op(p)
  BY <1>11, <1>3, <1>7 DEF end_op, Shaped
<1>12. CASE Lookup(p)
  BY <1>12, <1>3, <1>7, <1>8 DEF Lookup, Shaped
<1>13. CASE OpenLock(p) \/ CreateLock(p) \/ LinkLock(p) \/ UnlinkLock(p)
  BY <1>13, <1>3, <1>7 DEF OpenLock, CreateLock, LinkLock, UnlinkLock, Shaped
<1>14. CASE sys_open(p)
  BY <1>14, <1>3, <1>4, <1>6, <1>7 DEF sys_open, Shaped
<1>15. CASE ialloc(p)
  BY <1>15, <1>3, <1>5, <1>7 DEF ialloc, Shaped
<1>16. CASE ialloc_iget(p)
  BY <1>16, <1>3, <1>5, <1>7, <1>8 DEF ialloc_iget, Shaped
<1>17. CASE create(p) \/ LinkCount(p) \/ sys_link(p) \/ UnlinkEntry(p) \/ sys_unlink(p)
  BY <1>17, <1>3, <1>7 DEF create, LinkCount, sys_link, UnlinkEntry, sys_unlink, Shaped
<1>18. CASE UnlinkLookup(p)
  BY <1>18, <1>3, <1>7, <1>8 DEF UnlinkLookup, Shaped
<1>19. CASE fileread(p)
  BY <1>19, <1>3, <1>7 DEF fileread, Shaped
<1>20. CASE iput(p) \/ iput_drop(p)
  BY <1>20, <1>3, <1>7, <1>9 DEF iput, iput_drop, Shaped
<1>21. CASE iput_free(p) \/ iput_invalidate(p)
  BY <1>21, <1>3, <1>7 DEF iput_free, iput_invalidate, Shaped
<1> QED
  BY <1>10, <1>11, <1>12, <1>13, <1>14, <1>15, <1>16, <1>17, <1>18, <1>19, <1>20, <1>21 DEF Step
-----------------------------------------------------------------------------
(* What a process has fits its next step.                                  *)

Settled(p) ==
  /\ ip'[p] # None <=> pc'[p] \in Holding
  /\ inum'[p] # 0 <=> pc'[p] = "iget_new"
  /\ dirlock' = p <=> pc'[p] \in InDir
  /\ p \in outstanding' <=> pc'[p] \notin Outside
  /\ pc'[p] = "reading" => file'[p] # None
  /\ pc'[p] \in NoFile => file'[p] = None

\* The directory's lock and the operations of other processes.
OthersKept(p) ==
  /\ \A q \in Procs : q # p => (dirlock' = q <=> dirlock = q)
  /\ \A q \in Procs : q # p => (q \in outstanding' <=> q \in outstanding)
  /\ dirlock' \in Procs \cup {None} /\ outstanding' \subseteq Procs

\* A process locks the directory when it is free and unlocks it only for
\* itself; begin_op() and end_op() are its own.
LEMMA OthersStep ==
  ASSUME IInv, NEW p \in Procs, Kind(p)
  PROVE  OthersKept(p)
<1>1. None \notin Procs
  BY NoneAssumption
<1>2. dirlock \in Procs \cup {None} /\ outstanding \subseteq Procs
  BY DEF IInv, Types
<1>3. ASSUME pc[p] \in InDir PROVE dirlock = p
  BY <1>3 DEF IInv, ControlInv
<1>4. ASSUME dirlock' = dirlock, outstanding' = outstanding PROVE OthersKept(p)
  BY <1>2, <1>4 DEF OthersKept
<1>5. ASSUME dirlock = None, dirlock' = p, outstanding' = outstanding PROVE OthersKept(p)
  BY <1>1, <1>2, <1>5 DEF OthersKept
<1>6. ASSUME pc[p] \in InDir, dirlock' = None, outstanding' = outstanding PROVE OthersKept(p)
  BY <1>1, <1>2, <1>3, <1>6 DEF OthersKept
<1>7. ASSUME dirlock' = dirlock, outstanding' = outstanding \cup {p} \/ outstanding' = outstanding \ {p}
      PROVE  OthersKept(p)
  BY <1>2, <1>7 DEF OthersKept
<1>8. CASE (\E m \in Pcs : Begins(p, m)) \/ Closes(p) \/ Ends(p)
  BY <1>7, <1>8 DEF Begins, Closes, Ends
<1>9. CASE \E s \in Slots, i \in Inums, l, m \in Pcs : Finds(p, s, i, l, m)
  BY <1>4, <1>5, <1>9 DEF Finds
<1>10. CASE \E i \in Inums : Allocates(p, i)
  BY <1>5, <1>10 DEF Allocates
<1>11. ASSUME NEW l \in Pcs, NEW m \in Pcs, NEW n, NEW h, Updates(p, l, m, n, h)
       PROVE  OthersKept(p)
  <2>1. outstanding' = outstanding /\ (dirlock' = dirlock \/ (pc[p] = "created" /\ dirlock' = None))
    BY <1>11 DEF Updates, Goes
  <2> QED
    BY <1>4, <1>6, <2>1 DEF InDir
<1>12. CASE Unnames(p)
  BY <1>6, <1>12 DEF Unnames, Goes, InDir
<1>13. ASSUME NEW l \in Pcs, Drops(p, l) PROVE OthersKept(p)
  <2>1. /\ outstanding' = outstanding
        /\ dirlock' = dirlock \/ (pc[p] \in {"iput_fail", "idrop_fail"} /\ dirlock' = None)
    BY <1>13 DEF Drops, Goes
  <2> QED
    BY <1>4, <1>6, <2>1 DEF InDir
<1>14. CASE (\E l \in Pcs : Misses(p, l)) \/ (\E s \in Slots : GetsNew(p, s)) \/ (\E l, m \in Pcs : Locks(p, l, m))
  BY <1>4, <1>14 DEF Misses, GetsNew, Locks
<1>15. CASE Reads(p) \/ HasRead(p) \/ Opens(p) \/ GivesUp(p) \/ Enters(p) \/ Fails(p)
  BY <1>4, <1>15 DEF Reads, HasRead, Opens, GivesUp, Enters, Fails
<1>16. CASE \E l, m \in Pcs : Takes(p, l, m) \/ Frees(p, l, m) \/ Clears(p, l, m)
  BY <1>4, <1>16 DEF Takes, Frees, Clears
<1> QED
  BY <1>8, <1>9, <1>10, <1>11, <1>12, <1>13, <1>14, <1>15, <1>16 DEF Kind

\* Two labels with which a process has the same.
Alike(l, m) ==
  /\ l \in Holding <=> m \in Holding
  /\ l = "iget_new" <=> m = "iget_new"
  /\ l \in InDir <=> m \in InDir
  /\ l \in Outside <=> m \in Outside
  /\ m # "reading"
  /\ m \in NoFile => l \in NoFile

\* The process that moves has what its next step supposes.
LEMMA SettledStep ==
  ASSUME IInv, NEW p \in Procs, Kind(p)
  PROVE  Settled(p)
\* The steps that take or give back nothing.
<1>1. /\ Alike("ilock_open", "opened") /\ Alike("ilock_new", "created") /\ Alike("ilock_link", "linked")
      /\ Alike("ilock_bad", "bad") /\ Alike("ilock_unlink", "unlinking") /\ Alike("opened", "iput")
      /\ Alike("created", "iput_fail") /\ Alike("linked", "dirlink") /\ Alike("bad", "iput")
      /\ Alike("unlinked", "iput") /\ Alike("dirlink", "iput") /\ Alike("dirlink", "ilock_bad")
      /\ Alike("iput", "ifree") /\ Alike("iput_fail", "ifree_fail") /\ Alike("ifree", "ifreed")
      /\ Alike("ifree_fail", "ifreed_fail") /\ Alike("ifreed", "idrop") /\ Alike("ifreed_fail", "idrop_fail")
  <2> USE DEF Alike, Holding, InDir, Outside, NoFile
  <2>1. Alike("ilock_open", "opened") /\ Alike("ilock_new", "created") /\ Alike("ilock_link", "linked")
    OBVIOUS
  <2>2. Alike("ilock_bad", "bad") /\ Alike("ilock_unlink", "unlinking") /\ Alike("opened", "iput")
    OBVIOUS
  <2>3. Alike("created", "iput_fail") /\ Alike("linked", "dirlink") /\ Alike("bad", "iput")
    OBVIOUS
  <2>4. Alike("unlinked", "iput") /\ Alike("dirlink", "iput") /\ Alike("dirlink", "ilock_bad")
    OBVIOUS
  <2>5. Alike("iput", "ifree") /\ Alike("iput_fail", "ifree_fail") /\ Alike("ifree", "ifreed")
    OBVIOUS
  <2>6. Alike("ifree_fail", "ifreed_fail") /\ Alike("ifreed", "idrop") /\ Alike("ifreed_fail", "idrop_fail")
    OBVIOUS
  <2> HIDE DEF Alike, Holding, InDir, Outside, NoFile
  <2> QED
    BY <2>1, <2>2, <2>3, <2>4, <2>5, <2>6
<1>2. /\ ip[p] # None <=> pc[p] \in Holding
      /\ inum[p] # 0 <=> pc[p] = "iget_new"
      /\ dirlock = p <=> pc[p] \in InDir
      /\ p \in outstanding <=> pc[p] \notin Outside
      /\ pc[p] = "reading" => file[p] # None
      /\ pc[p] \in NoFile => file[p] = None
  BY DEF IInv, ControlInv
<1>3. None \notin Procs /\ None \notin Slots /\ None \notin Slots \X Inums
  BY NoneAssumption
<1>4. ASSUME Alike(pc[p], pc'[p]), UNCHANGED <<ip, inum, dirlock, outstanding, file>>
      PROVE  Settled(p)
  BY <1>2, <1>4 DEF Alike, Settled
<1> USE DEF Holding, InDir, Outside, NoFile
<1>5. CASE \E m \in Pcs : Begins(p, m)
  BY <1>2, <1>5 DEF Begins, Goes, Settled
<1>6. CASE Closes(p)
  <2>1. file[p][1] \in Slots
    BY <1>6, HasSlot DEF IInv, Closes
  <2> QED
    BY <1>2, <1>3, <1>6, <2>1 DEF Closes, Goes, Settled
<1>7. CASE Ends(p)
  BY <1>2, <1>7 DEF Ends, Goes, Settled
<1>8. CASE \E l \in Pcs : Misses(p, l)
  BY <1>2, <1>8 DEF Misses, Goes, Settled
<1>9. ASSUME NEW s \in Slots, NEW i \in Inums, NEW l \in Pcs, NEW m \in Pcs, Finds(p, s, i, l, m)
      PROVE  Settled(p)
  <2>1. ip'[p] = s /\ s # None
    BY <1>3, <1>9 DEF Finds, Get, IInv, Types
  <2> QED
    BY <1>2, <1>3, <1>9, <2>1 DEF Finds, Goes, Settled
<1>10. ASSUME NEW s \in Slots, GetsNew(p, s)
      PROVE  Settled(p)
  <2>1. ip'[p] = s /\ s # None
    BY <1>3, <1>10 DEF GetsNew, Get, IInv, Types
  <2> QED
    BY <1>2, <1>10, <2>1 DEF GetsNew, Goes, Settled
<1>11. CASE Reads(p) \/ HasRead(p)
  BY <1>2, <1>11 DEF Reads, HasRead, Goes, Settled
<1>12. CASE Opens(p)
  BY <1>2, <1>12 DEF Opens, Goes, Settled
<1>13. ASSUME NEW i \in Inums, Allocates(p, i)
       PROVE  Settled(p)
  <2>1. i # 0
    BY SMT DEF Inums
  <2> QED
    BY <1>2, <1>13, <2>1 DEF Allocates, Goes, Settled
<1>14. CASE Unnames(p)
  BY <1>2, <1>3, <1>14 DEF Unnames, Goes, Settled
<1>15. ASSUME NEW l \in Pcs, Drops(p, l)
       PROVE  Settled(p)
  <2>1. /\ pc'[p] = "end" /\ ip'[p] = None /\ UNCHANGED <<outstanding, file, inum>>
        /\ \/ pc[p] \in {"iput", "idrop"} /\ dirlock' = dirlock
           \/ pc[p] \in {"iput_fail", "idrop_fail"} /\ dirlock' = None
    BY <1>15 DEF Drops, Goes
  <2> QED
    BY <1>2, <1>3, <2>1 DEF Settled
<1>16. ASSUME NEW l \in Pcs, NEW m \in Pcs, NEW n, NEW h, Updates(p, l, m, n, h)
       PROVE  Settled(p)
  <2>1. CASE pc'[p] = "opened"
    <3>1. pc[p] = "created" /\ dirlock' = None /\ UNCHANGED <<outstanding, file, ip, inum>>
      BY <1>16, <2>1 DEF Updates, Goes
    <3> QED
      BY <1>2, <1>3, <2>1, <3>1 DEF Settled
  <2>2. CASE pc'[p] # "opened"
    <3>1. /\ UNCHANGED <<ip, inum, dirlock, outstanding, file>>
          /\ \/ pc[p] = "created" /\ pc'[p] = "iput_fail"
             \/ pc[p] = "linked" /\ pc'[p] = "dirlink"
             \/ pc[p] \in {"bad", "unlinked"} /\ pc'[p] = "iput"
      BY <1>16, <2>2 DEF Updates, Goes
    <3> HIDE DEF Holding, InDir, Outside, NoFile
    <3>2. Alike(pc[p], pc'[p])
      BY <3>1, <1>1
    <3> QED
      BY <1>4, <3>1, <3>2
  <2> QED
    BY <2>1, <2>2
<1> HIDE DEF Holding, InDir, Outside, NoFile
<1>17. ASSUME NEW l \in Pcs, NEW m \in Pcs, Locks(p, l, m) \/ Takes(p, l, m) \/ Frees(p, l, m) \/ Clears(p, l, m)
       PROVE  Settled(p)
  <2>1. UNCHANGED <<ip, inum, dirlock, outstanding, file>> /\ Alike(pc[p], pc'[p])
    BY <1>17, <1>1 DEF Locks, Takes, Frees, Clears, Goes
  <2> QED
    BY <1>4, <2>1
<1>18. CASE GivesUp(p) \/ Enters(p) \/ Fails(p)
  BY <1>4, <1>18, <1>1 DEF GivesUp, Enters, Fails, Goes
<1> QED
  BY <1>5, <1>6, <1>7, <1>8, <1>9, <1>10, <1>11, <1>12, <1>13, <1>14, <1>15, <1>16, <1>17, <1>18
  DEF Kind

\* ControlInv is kept.
LEMMA ControlStep ==
  ASSUME IInv, NEW p \in Procs, Kind(p), Others(p)
  PROVE  ControlInv'
<1>1. Settled(p)
  BY SettledStep
<1>2. ASSUME NEW q \in Procs, q # p PROVE Settled(q)
  <2>1. OthersKept(p)
    BY OthersStep
  <2> QED
    BY <1>2, <2>1 DEF OthersKept, Others, IInv, ControlInv, Settled
<1> QED
  BY <1>1, <1>2 DEF Settled, ControlInv
-----------------------------------------------------------------------------
(* The locks of the slots.                                                 *)

\* Process p has the lock of slot s, by its next step.
Has(p, s) == \/ pc[p] \in Locking /\ ip[p] = s
             \/ pc[p] = "reading" /\ file[p][1] = s

\* acquiresleep() and releasesleep() are done by who holds the lock after, or
\* before them.
LEMMA LockStep ==
  ASSUME IInv, NEW p \in Procs, Kind(p), Others(p)
  PROVE  LockInv'
<1> DEFINE Kept == \A s \in Slots : itable'[s].lock = p <=> Has(p, s)'
           Busy == Locking \cup {"reading"}
<1>1. \A s \in Slots : itable[s].lock = p <=> Has(p, s)
  BY DEF IInv, LockInv, Has
<1>2. "reading" \notin Locking /\ p # None
  BY NoneAssumption DEF Locking
<1>23. ASSUME NEW s \in Slots, NEW q \in Procs, q # p
       PROVE  itable'[s].lock = q <=> Has(q, s)'
  <2>0. SlotKept(p, s)
    BY TableFacts
  <2>1. itable'[s].lock = q <=> itable[s].lock = q
    BY <1>23, <2>0 DEF SlotKept
  <2>2. Has(q, s)' <=> Has(q, s)
    BY <1>23 DEF Has, Others
  <2> QED
    BY <2>1, <2>2 DEF IInv, LockInv, Has
<1> SUFFICES Kept
  BY <1>23 DEF LockInv, Has
<1>3. ASSUME pc[p] \notin Busy, pc'[p] \notin Busy,
             \A s \in Slots : itable'[s].lock = itable[s].lock
      PROVE  Kept
  BY <1>1, <1>3 DEF Has
<1>4. ASSUME NEW t \in Slots, Only(t), itable'[t].lock = None, Has(p, t), pc'[p] \notin Busy
      PROVE  Kept
  <2>1. \A s \in Slots : s # t => ~Has(p, s)
    BY <1>2, <1>4 DEF Has
  <2>2. \A s \in Slots : itable'[s].lock # p
    BY <1>1, <1>2, <1>4, <2>1 DEF Only
  <2> QED
    BY <1>4, <2>2 DEF Has
<1>5. ASSUME NEW t \in Slots, Only(t), itable'[t].lock = p, pc[p] \notin Busy, Has(p, t)'
      PROVE  Kept
  <2>1. \A s \in Slots : s # t => ~Has(p, s)'
    BY <1>2, <1>5 DEF Has
  <2>2. \A s \in Slots : s # t => itable'[s].lock # p
    BY <1>1, <1>5 DEF Has, Only
  <2> QED
    BY <1>5, <2>1, <2>2
<1>6. ASSUME pc[p] \in Locking, pc'[p] \in Locking, ip'[p] = ip[p], ip[p] \in Slots,
             Only(ip[p]), itable'[ip[p]].lock = p
      PROVE  Kept
  <2>1. \A s \in Slots : Has(p, s)' <=> Has(p, s)
    BY <1>2, <1>6 DEF Has
  <2>2. \A s \in Slots : s # ip[p] => (itable'[s].lock = itable[s].lock)
    BY <1>6 DEF Only
  <2> QED
    BY <1>1, <1>6, <2>1, <2>2 DEF Has
<1>7. pc[p] \in Holding => ip[p] \in Slots
  BY HasSlot DEF IInv
<1>8. file[p] # None => file[p][1] \in Slots
  BY HasSlot DEF IInv
<1>9. pc[p] \in Locking => pc[p] \in Holding
  BY DEF Locking, Holding
<1> HIDE DEF Kept
<1>10. CASE Still(p)
  <2>0. itable' = itable
    BY <1>10, StillTable
  <2>1. CASE Unnames(p)
    <3>1. pc[p] \in Locking /\ pc'[p] \in Locking /\ ip'[p] = ip[p]
      BY <2>1 DEF Unnames, Goes, Locking
    <3>2. itable[ip[p]].lock = p
      BY <1>1, <1>7, <1>9, <3>1 DEF Has
    <3>3. Only(ip[p])
      BY <2>0 DEF Only
    <3> QED
      BY <1>6, <1>7, <1>9, <2>0, <3>1, <3>2, <3>3
  <2>2. CASE (\E m \in Pcs : Begins(p, m)) \/ Closes(p) \/ Ends(p)
    <3>1. pc[p] \notin Busy /\ pc'[p] \notin Busy
      BY <2>2 DEF Begins, Closes, Ends, Goes, Locking
    <3> QED
      BY <1>3, <2>0, <3>1
  <2>3. CASE (\E l \in Pcs : Misses(p, l)) \/ (\E i \in Inums : Allocates(p, i)) \/ Enters(p) \/ Fails(p)
    <3>1. pc[p] \notin Busy /\ pc'[p] \notin Busy
      BY <2>3 DEF Misses, Allocates, Enters, Fails, Goes, Locking
    <3> QED
      BY <1>3, <2>0, <3>1
  <2> QED
    BY <1>10, <2>1, <2>2, <2>3 DEF Still
<1>11. ASSUME NEW t \in Slots, NEW i, Get(p, t, i), pc[p] \notin Busy, pc'[p] \notin Busy
       PROVE  Kept
  BY <1>3, <1>11 DEF Get, Only
<1>12. CASE (\E s \in Slots, i \in Inums, l, m \in Pcs : Finds(p, s, i, l, m)) \/ \E s \in Slots : GetsNew(p, s)
  BY <1>11, <1>12 DEF Finds, GetsNew, Goes, Locking
<1>13. ASSUME NEW l \in Pcs, NEW m \in Pcs, Locks(p, l, m) \/ Takes(p, l, m)
       PROVE  Kept
  <2>1. /\ pc[p] \in Holding /\ pc[p] \notin Busy /\ pc'[p] \in Locking /\ ip'[p] = ip[p]
        /\ Only(ip[p]) /\ itable'[ip[p]].lock = p
    BY <1>13 DEF Locks, Takes, Goes, Lock, Passes, Becomes, Holding, Locking
  <2> QED
    BY <1>5, <1>7, <2>1 DEF Has
<1>14. CASE Reads(p)
  <2>1. /\ pc[p] = "user" /\ pc'[p] = "reading" /\ file[p] # None /\ file' = file
        /\ Only(file[p][1]) /\ itable'[file[p][1]].lock = p
    BY <1>14 DEF Reads, Goes, Lock
  <2>2. pc[p] \notin Busy
    BY <2>1 DEF Locking
  <2> QED
    BY <1>5, <1>8, <2>1, <2>2 DEF Has
<1>15. CASE HasRead(p)
  <2>1. /\ pc[p] = "reading" /\ pc'[p] = "user" /\ Only(file[p][1]) /\ itable'[file[p][1]].lock = None
    BY <1>15 DEF HasRead, Goes, Passes, Becomes
  <2>2. file[p] # None
    BY <2>1 DEF IInv, ControlInv
  <2>3. pc'[p] \notin Busy
    BY <2>1 DEF Locking
  <2> QED
    BY <1>4, <1>8, <2>1, <2>2, <2>3 DEF Has
<1>16. ASSUME pc[p] \in Locking, pc'[p] \notin Busy, Only(ip[p]), itable'[ip[p]].lock = None
       PROVE  Kept
  BY <1>4, <1>7, <1>9, <1>16 DEF Has
<1>17. CASE Opens(p) \/ GivesUp(p)
  BY <1>16, <1>17 DEF Opens, GivesUp, Goes, Passes, Becomes, Locking
<1>18. ASSUME NEW l \in Pcs, NEW m \in Pcs, NEW n, NEW h, Updates(p, l, m, n, h)
       PROVE  Kept
  <2>1. pc[p] \in Locking /\ Only(ip[p]) /\ itable'[ip[p]].lock = h /\ ip'[p] = ip[p]
    BY <1>18 DEF Updates, Goes, Becomes, Locking
  <2>2. (h = p /\ pc'[p] = "opened") \/ (h = None /\ pc'[p] \in {"iput_fail", "dirlink", "iput"})
    BY <1>18 DEF Updates, Goes
  <2> QED
    BY <1>6, <1>7, <1>9, <1>16, <2>1, <2>2 DEF Locking
<1>19. ASSUME NEW l \in Pcs, NEW m \in Pcs, Frees(p, l, m)
       PROVE  Kept
  <2>1. /\ pc[p] \in Locking /\ pc'[p] \in Locking /\ Only(ip[p]) /\ ip'[p] = ip[p]
        /\ itable'[ip[p]].lock = itable[ip[p]].lock
    BY <1>19 DEF Frees, Goes, Becomes, Locking
  <2>2. itable[ip[p]].lock = p
    BY <1>1, <1>7, <1>9, <2>1 DEF Has
  <2> QED
    BY <1>6, <1>7, <1>9, <2>1, <2>2
<1>20. ASSUME NEW l \in Pcs, NEW m \in Pcs, Clears(p, l, m)
       PROVE  Kept
  BY <1>16, <1>20 DEF Clears, Goes, Becomes, Locking
<1>21. ASSUME NEW l \in Pcs, Drops(p, l)
       PROVE  Kept
  <2>1. /\ pc[p] \notin Busy /\ pc'[p] \notin Busy /\ Only(ip[p])
        /\ itable'[ip[p]].lock = itable[ip[p]].lock
    BY <1>21 DEF Drops, Goes, Becomes, Locking
  <2>2. \A s \in Slots : itable'[s].lock = itable[s].lock
    BY <2>1 DEF Only
  <2> QED
    BY <1>3, <2>1, <2>2
<1> QED
  BY <1>10, <1>12, <1>13, <1>14, <1>15, <1>17, <1>18, <1>19, <1>20, <1>21 DEF Kind, Still
-----------------------------------------------------------------------------
(* The slots and their numbers.                                            *)

\* Of which iget() is it the step, and of which inode.
LEMMA FetchGets ==
  ASSUME IInv, NEW p \in Procs, Kind(p), pc'[p] \in Fetching
  PROVE  \E i \in Inums : /\ Get(p, ip'[p], i) /\ ip'[p] \in Slots
                          /\ \/ entries[i] > 0 /\ dirlock = None /\ pc'[p] # "ilock_new"
                             \/ i = inum[p] /\ pc[p] = "iget_new" /\ pc'[p] = "ilock_new"
                          /\ UNCHANGED <<dinode, entries, file>>
\* A process comes to hold an inode unlocked, not read yet, by iget() only.
<1>1. \/ \E s \in Slots, i \in Inums, l, m \in Pcs : Finds(p, s, i, l, m)
      \/ \E s \in Slots : GetsNew(p, s)
  <2> USE DEF Fetching, Goes
  <2>1. ~Closes(p) /\ ~Ends(p) /\ (\A m \in Pcs : ~Begins(p, m)) /\ \A l \in Pcs : ~Misses(p, l)
    BY DEF Closes, Ends, Begins, Misses
  <2>2. \A l, m \in Pcs : ~Locks(p, l, m) /\ ~Takes(p, l, m)
    BY DEF Locks, Takes
  <2>3. \A l, m \in Pcs : ~Frees(p, l, m) /\ ~Clears(p, l, m) /\ ~Drops(p, l)
    BY DEF Frees, Clears, Drops
  <2>4. ~Reads(p) /\ ~HasRead(p) /\ ~Opens(p) /\ ~GivesUp(p)
    BY DEF Reads, HasRead, Opens, GivesUp
  <2>5. ~Enters(p) /\ ~Fails(p) /\ ~Unnames(p) /\ \A i \in Inums : ~Allocates(p, i)
    BY DEF Enters, Fails, Unnames, Allocates
  <2>6. ASSUME NEW l \in Pcs, NEW m \in Pcs, NEW n, NEW h, Updates(p, l, m, n, h)
        PROVE  FALSE
    <3>1. pc'[p] \in {"opened", "iput_fail", "dirlink", "iput"}
      BY <2>6 DEF Updates
    <3> QED
      BY <3>1
  <2> HIDE DEF Fetching, Goes
  <2>7. ~(\E l, m \in Pcs, n \in 0 .. MaxLinks, h \in Procs \cup {None} : Updates(p, l, m, n, h))
    BY <2>6
  <2> QED
    BY <2>1, <2>2, <2>3, <2>4, <2>5, <2>7 DEF Kind
<1>2. \A s : ip' = [ip EXCEPT ![p] = s] => ip'[p] = s
  BY DEF IInv, Types
<1>3. ASSUME NEW s \in Slots, NEW i \in Inums, NEW l \in Pcs, NEW m \in Pcs, Finds(p, s, i, l, m)
      PROVE  /\ Get(p, s, i) /\ ip'[p] = s /\ UNCHANGED <<dinode, entries, file>>
             /\ entries[i] > 0 /\ dirlock = None /\ pc'[p] # "ilock_new"
  <2>1. Get(p, s, i) /\ UNCHANGED <<dinode, entries, file>> /\ entries[i] > 0 /\ dirlock = None
    BY <1>3 DEF Finds
  <2>2. pc'[p] # "ilock_new"
    BY <1>3 DEF Finds, Goes
  <2>3. ip'[p] = s
    BY <1>2, <2>1 DEF Get
  <2> QED
    BY <2>1, <2>2, <2>3
<1>4. ASSUME NEW s \in Slots, GetsNew(p, s)
      PROVE  /\ Get(p, s, inum[p]) /\ ip'[p] = s /\ UNCHANGED <<dinode, entries, file>>
             /\ inum[p] \in Inums /\ pc[p] = "iget_new" /\ pc'[p] = "ilock_new"
  <2>1. /\ Get(p, s, inum[p]) /\ UNCHANGED <<dinode, entries, file>>
        /\ inum[p] \in Inums /\ pc[p] = "iget_new" /\ pc'[p] = "ilock_new"
    BY <1>4 DEF GetsNew, Goes
  <2> QED
    BY <1>2, <2>1 DEF Get
<1> QED
  BY <1>3, <1>4, <1>1

\* A slot taken into use is for an inode that had none.
LEMMA NewSlot ==
  ASSUME IInv, NEW p \in Procs, Kind(p), itable' \in [Slots -> Slot],
         NEW s \in Slots, ~(itable[s].ref > 0), itable'[s].ref > 0
  PROVE  /\ Only(s) /\ itable'[s].inum \in Inums /\ SlotsOf(itable'[s].inum) = {}
         /\ ~itable'[s].valid /\ ip'[p] = s
<1>1. itable[s].ref \in Nat /\ itable'[s].ref \in Nat
  BY SMT DEF IInv, Types, Slot
<1>2. SlotKept(p, s)
  BY TableFacts
<1>3. itable'[s].ref # itable[s].ref /\ itable'[s].ref # itable[s].ref - 1
  BY <1>1, SMT
<1>4. pc'[p] \in Fetching /\ ip'[p] = s
  BY <1>2, <1>3 DEF SlotKept
<1>5. PICK i \in Inums : Get(p, s, i)
  BY <1>4, FetchGets
<1> QED
  BY <1>4, <1>5 DEF Get

\* A slot in use has the number of an inode, and no other slot in use has it.
LEMMA SlotsStep ==
  ASSUME IInv, NEW p \in Procs, Kind(p), itable' \in [Slots -> Slot]
  PROVE  SlotInv' /\ OneSlot'
<1>1. \A s \in Slots : itable[s].ref > 0 => itable'[s].inum = itable[s].inum
  BY TableFacts DEF SlotKept
<1>2. 0 \notin Inums
  BY SMT DEF Inums
<1>3. SlotInv'
  <2> SUFFICES ASSUME NEW s \in Slots, itable'[s].ref > 0 PROVE itable'[s].inum # 0
    BY DEF SlotInv
  <2>1. CASE itable[s].ref > 0
    BY <1>1, <2>1 DEF IInv, SlotInv
  <2>2. CASE ~(itable[s].ref > 0)
    BY <1>2, <2>2, NewSlot
  <2> QED
    BY <2>1, <2>2
<1>4. ASSUME NEW s \in Slots, NEW t \in Slots, itable'[s].ref > 0, itable'[t].ref > 0,
             itable'[s].inum = itable'[t].inum, ~(itable[s].ref > 0), s # t
      PROVE  FALSE
  <2>1. Only(s) /\ SlotsOf(itable'[s].inum) = {}
    BY <1>4, NewSlot
  <2>2. itable'[t] = itable[t]
    BY <1>4, <2>1 DEF Only
  <2>3. t \in SlotsOf(itable'[s].inum)
    BY <1>4, <2>2 DEF SlotsOf
  <2> QED
    BY <2>1, <2>3
<1>5. OneSlot'
  <2> SUFFICES ASSUME NEW s \in Slots, NEW t \in Slots, itable'[s].ref > 0, itable'[t].ref > 0,
                      itable'[s].inum = itable'[t].inum, s # t
               PROVE  FALSE
    BY DEF OneSlot
  <2>1. itable[s].ref > 0 /\ itable[t].ref > 0
    BY <1>4
  <2> QED
    BY <1>1, <2>1 DEF IInv, OneSlot
<1> QED
  BY <1>3, <1>5

\* The inode of a slot in use stays the same.
LEMMA InoStep ==
  ASSUME IInv, NEW p \in Procs, Kind(p), Others(p)
  PROVE  /\ \A q \in Procs : q # p /\ pc[q] \in Holding => Ino(q)' = Ino(q)
         /\ pc[p] \in Holding /\ ip'[p] = ip[p] => Ino(p)' = Ino(p)
         /\ \A q \in Procs : file[q] # None => itable'[file[q][1]].inum = file[q][2]
<1>1. \A s \in Slots : itable[s].ref > 0 => itable'[s].inum = itable[s].inum
  BY TableFacts DEF SlotKept
<1>2. ASSUME NEW q \in Procs, pc[q] \in Holding, ip'[q] = ip[q]
      PROVE  Ino(q)' = Ino(q)
  <2>1. ip[q] \in Slots /\ itable[ip[q]].ref > 0
    BY <1>2, HasSlot DEF IInv
  <2> QED
    BY <1>1, <1>2, <2>1 DEF Ino
<1>3. ASSUME NEW q \in Procs, file[q] # None
      PROVE  itable'[file[q][1]].inum = file[q][2]
  <2>1. file[q][1] \in Slots /\ itable[file[q][1]].ref > 0
    BY <1>3, HasSlot DEF IInv
  <2>2. itable[file[q][1]].inum = file[q][2]
    BY <1>3 DEF IInv, OpenFileLive
  <2> QED
    BY <1>1, <2>1, <2>2
<1> QED
  BY <1>2, <1>3 DEF Others
-----------------------------------------------------------------------------
(* The disk.                                                               *)

\* What p may do to inode i, and to its entries.
DiskKept(p, i) ==
  /\ dinode[i].type # 0 /\ dinode'[i].type = 0 =>
       pc[p] \in Freeing /\ pc'[p] \in Freed /\ i = Ino(p)
  /\ dinode[i].type = 0 /\ dinode'[i].type # 0 => pc[p] = "create" /\ inum'[p] = i
  /\ dinode'[i].nlink # dinode[i].nlink =>
       pc[p] \in {"created", "linked", "bad", "unlinked"} /\ i = Ino(p)
  /\ entries'[i] # entries[i] => pc[p] \in {"created", "dirlink", "unlinking"} /\ i = Ino(p)

\* iupdate() of inode i with type t and n links.
Wrote(i, t, n) == dinode' = [dinode EXCEPT ![i] = [type |-> t, nlink |-> n]]

\* It writes that inode only.
LEMMA DiskTypes ==
  ASSUME Types, NEW i \in Inums, NEW t \in {0, 1}, NEW n \in 0 .. MaxLinks, Wrote(i, t, n)
  PROVE  /\ dinode' \in Disk /\ dinode'[i].type = t /\ dinode'[i].nlink = n
         /\ \A j \in Inums : j # i => dinode'[j] = dinode[j]
<1> DEFINE x == [type |-> t, nlink |-> n]
           R == [type : {0, 1}, nlink : 0 .. MaxLinks]
<1>1. x \in R /\ x.type = t /\ x.nlink = n
  BY SMT
<1>2. dinode' = [dinode EXCEPT ![i] = x]
  BY DEF Wrote
<1>3. dinode \in [Inums -> R] /\ Disk = [Inums -> R]
  BY DEF Types, Disk
<1> HIDE DEF x, R
<1>4. dinode' \in [Inums -> R] /\ dinode'[i] = x /\ \A j \in Inums : j # i => dinode'[j] = dinode[j]
  BY <1>1, <1>2, <1>3
<1> QED
  BY <1>1, <1>3, <1>4

\* The inode that a process updates has no fewer links than it has entries; a
\* new one has neither, one to be named has fewer, one to be unlinked has more.
LEMMA EntryRange ==
  ASSUME IInv, NEW p \in Procs, pc[p] \in {"created", "dirlink", "unlinking"}
  PROVE  /\ Ino(p) \in Inums /\ entries[Ino(p)] \in Nat
         /\ pc[p] = "created" => entries[Ino(p)] = 0 /\ dinode[Ino(p)].nlink = 0
         /\ pc[p] \in {"created", "dirlink"} => entries[Ino(p)] + 1 \in 0 .. MaxLinks
         /\ pc[p] = "unlinking" => entries[Ino(p)] - 1 \in 0 .. MaxLinks /\ entries[Ino(p)] > 0
<1>1. Ino(p) \in Inums
  BY HasSlot DEF IInv, Holding
<1>2. /\ entries[Ino(p)] \in 0 .. MaxLinks /\ dinode[Ino(p)].nlink \in 0 .. MaxLinks
      /\ MaxLinks \in Nat \ {0}
  BY <1>1, SizesAssumption, SMT DEF IInv, Types, Names, Disk
<1>3. ASSUME pc[p] = "created" PROVE entries[Ino(p)] = 0 /\ dinode[Ino(p)].nlink = 0
  <2>1. dinode[Ino(p)].nlink = 0
    BY <1>3 DEF IInv, FreshInv, Fresh
  <2> QED
    BY <1>1, <2>1, NoLinks DEF IInv
<1>4. ASSUME pc[p] = "dirlink" PROVE dinode[Ino(p)].nlink > entries[Ino(p)]
  <2>1. p \in Pending(Ino(p))
    BY <1>4 DEF Pending, Ahead
  <2> QED
    BY <1>1, <2>1, NoLinks DEF IInv
<1>5. ASSUME pc[p] = "unlinking" PROVE entries[Ino(p)] > 0
  BY <1>5 DEF IInv, LinksInv
<1> DEFINE e == entries[Ino(p)]
           n == dinode[Ino(p)].nlink
<1>6. e \in 0 .. MaxLinks /\ n \in 0 .. MaxLinks /\ MaxLinks \in Nat \ {0}
  BY <1>2
<1>7. (pc[p] = "created" => e = 0) /\ (pc[p] = "dirlink" => n > e) /\ (pc[p] = "unlinking" => e > 0)
  BY <1>3, <1>4, <1>5
<1> HIDE DEF e, n
<1>8. /\ e \in Nat /\ (pc[p] \in {"created", "dirlink"} => e + 1 \in 0 .. MaxLinks)
      /\ (pc[p] = "unlinking" => e - 1 \in 0 .. MaxLinks)
  BY <1>6, <1>7, SMT
<1> QED
  BY <1>1, <1>3, <1>5, <1>8 DEF e

\* The entries of the inode of p after a step that changes them by one.
LEMMA EntriesChange ==
  ASSUME IInv, NEW p \in Procs, pc[p] \in {"created", "dirlink", "unlinking"}, NEW n,
         n = IF pc[p] = "unlinking" THEN entries[Ino(p)] - 1 ELSE entries[Ino(p)] + 1,
         entries' = [entries EXCEPT ![Ino(p)] = n]
  PROVE  /\ entries' \in Names /\ entries'[Ino(p)] = n
         /\ \A j \in Inums : j # Ino(p) => entries'[j] = entries[j]
<1>1. Ino(p) \in Inums /\ n \in 0 .. MaxLinks
  BY EntryRange
<1>2. entries \in [Inums -> 0 .. MaxLinks]
  BY DEF IInv, Types, Names
<1> QED
  BY <1>1, <1>2 DEF Names

\* The inode of p after iupdate().
LEMMA UpdateDisk ==
  ASSUME IInv, NEW p \in Procs, NEW l \in Pcs, NEW m \in Pcs, NEW n \in 0 .. MaxLinks, NEW h,
         Updates(p, l, m, n, h)
  PROVE  /\ dinode' \in Disk /\ dinode'[Ino(p)].type = dinode[Ino(p)].type /\ dinode'[Ino(p)].nlink = n
         /\ \A j \in Inums : j # Ino(p) => dinode'[j] = dinode[j]
         /\ pc[p] = l /\ l \in {"created", "linked", "bad", "unlinked"} /\ Ino(p) \in Inums
<1>1. pc[p] = l /\ l \in {"created", "linked", "bad", "unlinked"}
  BY DEF Updates, Goes
<1>2. pc[p] \in Locking \ Freed
  BY <1>1 DEF Locking, Freed
<1>3. ip[p] \in Slots /\ Ino(p) \in Inums /\ itable[ip[p]].type = dinode[Ino(p)].type
  BY <1>2, LockedSlot
<1>4. itable[ip[p]].type \in {0, 1}
  BY <1>3, SMT DEF IInv, Types, Slot
<1>5. Wrote(Ino(p), itable[ip[p]].type, n)
  BY DEF Updates, Wrote
<1>6. Types
  BY DEF IInv
<1>7. /\ dinode' \in Disk /\ dinode'[Ino(p)].type = itable[ip[p]].type /\ dinode'[Ino(p)].nlink = n
      /\ \A j \in Inums : j # Ino(p) => dinode'[j] = dinode[j]
  BY <1>3, <1>4, <1>5, <1>6, DiskTypes
<1> QED
  BY <1>1, <1>3, <1>7

\* The disk changes as DiskKept says, and stays well-formed.
LEMMA DiskStep ==
  ASSUME IInv, NEW p \in Procs, Kind(p)
  PROVE  dinode' \in Disk /\ entries' \in Names /\ \A i \in Inums : DiskKept(p, i)
\* The iupdate() of iput() writes one inode, too, and clears its type only.
<1>1. ASSUME Types, NEW i \in Inums, NEW d, d = [dinode EXCEPT ![i].type = 0]
      PROVE  /\ d \in Disk /\ d[i].type = 0 /\ d[i].nlink = dinode[i].nlink
             /\ \A j \in Inums : j # i => d[j] = dinode[j]
  <2> USE <1>1
  <2> DEFINE x == [dinode[i] EXCEPT !.type = 0]
             R == [type : {0, 1}, nlink : 0 .. MaxLinks]
  <2>1. dinode \in [Inums -> R] /\ Disk = [Inums -> R]
    BY DEF Types, Disk
  <2>2. dinode[i] \in R
    BY <2>1
  <2>3. x \in R /\ x.type = 0 /\ x.nlink = dinode[i].nlink
    BY <2>2, SMT
  <2>4. d = [dinode EXCEPT ![i] = x]
    OBVIOUS
  <2> HIDE DEF x, R
  <2>5. d \in [Inums -> R] /\ d[i] = x /\ \A j \in Inums : j # i => d[j] = dinode[j]
    BY <2>1, <2>3, <2>4
  <2> QED
    BY <2>1, <2>3, <2>5
<1> DEFINE Good == dinode' \in Disk /\ entries' \in Names /\ \A i \in Inums : DiskKept(p, i)
<1> SUFFICES Good
  OBVIOUS
<1>2. Types /\ dinode \in Disk /\ entries \in Names
  BY DEF IInv, Types
<1>3. ASSUME dinode' = dinode, entries' = entries
      PROVE  Good
  BY <1>2, <1>3 DEF DiskKept
<1>4. ASSUME dinode' = dinode, pc[p] \in {"created", "dirlink", "unlinking"}, entries' \in Names,
             \A j \in Inums : j # Ino(p) => entries'[j] = entries[j]
      PROVE  Good
  BY <1>2, <1>4 DEF DiskKept
<1> HIDE DEF Good
<1>5. CASE Enters(p) \/ Unnames(p)
  <2>1. /\ dinode' = dinode /\ pc[p] \in {"dirlink", "unlinking"}
        /\ entries' = [entries EXCEPT ![Ino(p)] = IF pc[p] = "unlinking" THEN entries[Ino(p)] - 1
                                                                        ELSE entries[Ino(p)] + 1]
    BY <1>5 DEF Enters, Unnames, Goes
  <2>2. entries' \in Names /\ \A j \in Inums : j # Ino(p) => entries'[j] = entries[j]
    BY <2>1, EntriesChange
  <2> QED
    BY <1>4, <2>1, <2>2
<1>6. ASSUME NEW i \in Inums, Allocates(p, i)
      PROVE  Good
  <2>1. /\ entries' = entries /\ pc[p] = "create" /\ inum'[p] = i /\ dinode[i].type = 0
        /\ dinode' = [dinode EXCEPT ![i] = [type |-> 1, nlink |-> 0]]
    BY <1>6 DEF Allocates, Goes
  <2>2. 1 \in {0, 1} /\ 0 \in 0 .. MaxLinks
    BY SizesAssumption, SMT
  <2>3. /\ dinode' \in Disk /\ dinode'[i].type = 1 /\ dinode'[i].nlink = 0
        /\ \A j \in Inums : j # i => dinode'[j] = dinode[j]
    <3>1. Wrote(i, 1, 0)
      BY <2>1 DEF Wrote
    <3> QED
      BY <1>2, <2>2, <3>1, DiskTypes
  <2>4. dinode[i].nlink = 0
    BY <2>1, FreeDisk
  <2>5. \A j \in Inums : DiskKept(p, j)
    BY <2>1, <2>3, <2>4 DEF DiskKept
  <2> QED
    BY <1>2, <2>1, <2>3, <2>5 DEF Good
<1>7. ASSUME NEW l \in Pcs, NEW m \in Pcs, NEW n \in 0 .. MaxLinks, NEW h, Updates(p, l, m, n, h)
      PROVE  Good
  <2>1. /\ dinode' \in Disk /\ dinode'[Ino(p)].type = dinode[Ino(p)].type
        /\ \A j \in Inums : j # Ino(p) => dinode'[j] = dinode[j]
        /\ pc[p] \in {"created", "linked", "bad", "unlinked"}
    BY <1>7, UpdateDisk
  <2>2. \/ entries' = entries
        \/ pc[p] = "created" /\ entries' = [entries EXCEPT ![Ino(p)] = entries[Ino(p)] + 1]
    BY <1>7 DEF Updates, Goes
  <2>3. /\ entries' \in Names /\ \A j \in Inums : j # Ino(p) => entries'[j] = entries[j]
        /\ pc[p] # "created" => entries' = entries
    BY <1>2, <2>2, EntriesChange
  <2>4. \A j \in Inums : DiskKept(p, j)
    BY <2>1, <2>3 DEF DiskKept
  <2> QED
    BY <2>1, <2>3, <2>4 DEF Good
<1>8. ASSUME NEW l \in Pcs, NEW m \in Pcs, Frees(p, l, m)
      PROVE  Good
  <2>1. /\ entries' = entries /\ pc[p] \in Freeing /\ pc'[p] \in Freed
        /\ dinode' = [dinode EXCEPT ![Ino(p)].type = 0]
    BY <1>8 DEF Frees, Goes, Freeing, Freed
  <2>2. Ino(p) \in Inums
    BY <2>1, HasSlot DEF IInv, Freeing, Holding
  <2>3. /\ dinode' \in Disk /\ dinode'[Ino(p)].nlink = dinode[Ino(p)].nlink /\ dinode'[Ino(p)].type = 0
        /\ \A j \in Inums : j # Ino(p) => dinode'[j] = dinode[j]
    BY <1>2, <2>1, <2>2, <1>1
  <2>4. \A j \in Inums : DiskKept(p, j)
    BY <2>1, <2>3 DEF DiskKept
  <2> QED
    BY <1>2, <2>1, <2>3, <2>4 DEF Good
<1>9. CASE (\E m \in Pcs : Begins(p, m)) \/ Closes(p) \/ Ends(p) \/ (\E l \in Pcs : Misses(p, l))
  BY <1>3, <1>9 DEF Begins, Closes, Ends, Misses
<1>10. CASE \/ \E s \in Slots, i \in Inums, l, m \in Pcs : Finds(p, s, i, l, m)
            \/ \E s \in Slots : GetsNew(p, s)
            \/ \E l, m \in Pcs : Locks(p, l, m)
  BY <1>3, <1>10 DEF Finds, GetsNew, Locks
<1>11. CASE Reads(p) \/ HasRead(p) \/ Opens(p) \/ GivesUp(p) \/ Fails(p)
  BY <1>3, <1>11 DEF Reads, HasRead, Opens, GivesUp, Fails
<1>12. CASE (\E l, m \in Pcs : Takes(p, l, m) \/ Clears(p, l, m)) \/ (\E l \in Pcs : Drops(p, l))
  BY <1>3, <1>12 DEF Takes, Clears, Drops
<1> QED
  BY <1>5, <1>6, <1>7, <1>8, <1>9, <1>10, <1>11, <1>12 DEF Kind
-----------------------------------------------------------------------------
(* Types.                                                                  *)

\* The variables keep their types.
LEMMA TypesStep ==
  ASSUME IInv, NEW p \in Procs, Kind(p), Others(p), Shaped, itable' \in [Slots -> Slot]
  PROVE  Types'
\* The values that a step gives the variables of its process.
<1>1. /\ pc'[p] \in Pcs /\ ip'[p] \in Slots \cup {None} /\ inum'[p] \in 0 .. ninodes
      /\ file'[p] \in (Slots \X Inums) \cup {None} /\ durable' \in Disk \X Names
      /\ reclaimed' = reclaimed
  <2> DEFINE Good == /\ pc'[p] \in Pcs /\ ip'[p] \in Slots \cup {None} /\ inum'[p] \in 0 .. ninodes
                     /\ file'[p] \in (Slots \X Inums) \cup {None} /\ durable' \in Disk \X Names
                     /\ reclaimed' = reclaimed
  <2> SUFFICES Good
    OBVIOUS
  <2>1. /\ ip[p] \in Slots \cup {None} /\ inum[p] \in 0 .. ninodes
        /\ file[p] \in (Slots \X Inums) \cup {None} /\ durable \in Disk \X Names
        /\ dinode \in Disk /\ entries \in Names
    BY DEF IInv, Types
  <2>2. \A i \in Inums : i \in 0 .. ninodes
    BY SizesAssumption, SMT DEF Inums
  <2>3. 0 \in 0 .. ninodes
    BY SizesAssumption, SMT
  <2>4. \A s : ip' = [ip EXCEPT ![p] = s] => ip'[p] = s
    BY DEF IInv, Types
  <2>5. file[p] # None => file[p][1] \in Slots
    BY HasSlot DEF IInv
  <2>6. ASSUME pc'[p] \in Pcs, ip' = ip, inum' = inum, file' = file, durable' = durable, reclaimed' = reclaimed
        PROVE  Good
    BY <2>1, <2>6
  <2>7. CASE \E m \in Pcs : Begins(p, m)
    BY <2>6, <2>7 DEF Begins, Goes
  <2>8. CASE Closes(p)
    <3>1. "iput" \in Pcs
      BY DEF Pcs, Holding
    <3> QED
      BY <2>1, <2>5, <2>8, <3>1 DEF Closes, Goes
  <2>9. CASE Ends(p)
    <3>1. "user" \in Pcs
      BY DEF Pcs, Outside
    <3>2. durable' \in Disk \X Names
      BY <2>1, <2>9 DEF Ends
    <3> QED
      BY <2>1, <2>9, <3>1, <3>2 DEF Ends, Goes
  <2>10. CASE \E l \in Pcs : Misses(p, l)
    BY <2>6, <2>10 DEF Misses, Goes, Pcs
  <2>11. ASSUME NEW s \in Slots, NEW i \in Inums, NEW l \in Pcs, NEW m \in Pcs, Finds(p, s, i, l, m)
         PROVE  Good
    <3>1. ip'[p] = s /\ pc'[p] = m /\ UNCHANGED <<durable, file, inum, reclaimed>>
      BY <2>4, <2>11 DEF Finds, Goes, Get
    <3> QED
      BY <2>1, <3>1
  <2>12. ASSUME NEW s \in Slots, GetsNew(p, s)
         PROVE  Good
    <3>1. ip'[p] = s /\ pc'[p] = "ilock_new" /\ inum'[p] = 0 /\ UNCHANGED <<durable, file, reclaimed>>
      BY <2>4, <2>12 DEF GetsNew, Goes, Get
    <3>2. "ilock_new" \in Pcs
      BY DEF Pcs, Holding
    <3> QED
      BY <2>1, <2>3, <3>1, <3>2
  <2>13. ASSUME NEW l \in Pcs, NEW m \in Pcs,
                Locks(p, l, m) \/ Takes(p, l, m) \/ Frees(p, l, m) \/ Clears(p, l, m)
         PROVE  Good
    <3>1. pc'[p] \in Pcs /\ UNCHANGED <<ip, inum, file, durable, reclaimed>>
      BY <2>13 DEF Locks, Takes, Frees, Clears, Goes
    <3> QED
      BY <2>6, <3>1
  <2>14. CASE Reads(p) \/ HasRead(p) \/ GivesUp(p) \/ Enters(p) \/ Fails(p) \/ Unnames(p)
    <3>1. {"reading", "user", "iput", "ilock_bad", "unlinked"} \subseteq Pcs
      BY DEF Pcs, Holding, Outside
    <3> QED
      BY <2>6, <2>14, <3>1 DEF Reads, HasRead, GivesUp, Enters, Fails, Unnames, Goes
  <2>15. CASE Opens(p)
    <3>1. /\ pc[p] = "opened" /\ pc'[p] = "end" /\ ip'[p] = None /\ file'[p] = <<ip[p], Ino(p)>>
          /\ UNCHANGED <<durable, inum, reclaimed>>
      BY <2>15 DEF Opens, Goes
    <3>2. ip[p] \in Slots /\ Ino(p) \in Inums
      BY <3>1, HasSlot DEF IInv, Holding
    <3>3. "end" \in Pcs
      BY DEF Pcs
    <3>4. <<ip[p], Ino(p)>> \in Slots \X Inums
      BY <3>2, SMT
    <3> QED
      BY <2>1, <3>1, <3>3, <3>4
  <2>16. ASSUME NEW i \in Inums, Allocates(p, i)
         PROVE  Good
    <3>1. pc'[p] = "iget_new" /\ inum'[p] = i /\ UNCHANGED <<durable, file, ip, reclaimed>>
      BY <2>16 DEF Allocates, Goes
    <3>2. "iget_new" \in Pcs
      BY DEF Pcs, NoFile
    <3> QED
      BY <2>1, <2>2, <3>1, <3>2
  <2>17. ASSUME NEW l \in Pcs, NEW m \in Pcs, NEW n, NEW h, Updates(p, l, m, n, h)
         PROVE  Good
    BY <2>6, <2>17 DEF Updates, Goes
  <2>18. ASSUME NEW l \in Pcs, Drops(p, l)
         PROVE  Good
    <3>1. pc'[p] = "end" /\ ip'[p] = None /\ UNCHANGED <<durable, file, inum, reclaimed>>
      BY <2>18 DEF Drops, Goes
    <3>2. "end" \in Pcs
      BY DEF Pcs
    <3> QED
      BY <2>1, <3>1, <3>2
  <2> HIDE DEF Good
  <2> QED
    BY <2>7, <2>8, <2>9, <2>10, <2>11, <2>12, <2>13, <2>14, <2>15, <2>16, <2>17, <2>18 DEF Kind
<1>2. /\ pc'[p] \in Pcs /\ ip'[p] \in Slots \cup {None} /\ inum'[p] \in 0 .. ninodes
      /\ file'[p] \in (Slots \X Inums) \cup {None} /\ durable' \in Disk \X Names
      /\ reclaimed' = reclaimed
  BY <1>1
<1>3. dinode' \in Disk /\ entries' \in Names
  BY DiskStep
<1>4. dirlock' \in Procs \cup {None} /\ outstanding' \subseteq Procs
  BY OthersStep DEF OthersKept
<1>5. Types
  BY DEF IInv
<1>6. \A q \in Procs : pc'[q] \in Pcs
  BY <1>2, <1>5 DEF Others, Types
<1>7. \A q \in Procs : ip'[q] \in Slots \cup {None}
  BY <1>2, <1>5 DEF Others, Types
<1>8. \A q \in Procs : inum'[q] \in 0 .. ninodes
  BY <1>2, <1>5 DEF Others, Types
<1>9. \A q \in Procs : file'[q] \in (Slots \X Inums) \cup {None}
  BY <1>2, <1>5 DEF Others, Types
<1>10. pc' \in [Procs -> Pcs]
  BY <1>6 DEF Shaped, Fn
<1>11. ip' \in [Procs -> Slots \cup {None}]
  BY <1>7 DEF Shaped, Fn
<1>12. inum' \in [Procs -> 0 .. ninodes]
  BY <1>8 DEF Shaped, Fn
<1>13. file' \in [Procs -> (Slots \X Inums) \cup {None}]
  BY <1>9 DEF Shaped, Fn
<1>14. reclaimed' \in 1 .. ninodes + 1
  BY <1>2, <1>5 DEF Types
<1> QED
  BY <1>2, <1>3, <1>4, <1>10, <1>11, <1>12, <1>13, <1>14 DEF Types
-----------------------------------------------------------------------------
(* Inodes in use are not freed.                                            *)

\* Two users of one inode use one slot.
LEMMA SameSlot ==
  ASSUME IInv, NEW p \in Procs, pc[p] \in Holding, NEW q \in Procs
  PROVE  /\ pc[q] \in Holding /\ Ino(q) = Ino(p) => ip[q] = ip[p]
         /\ file[q] # None /\ file[q][2] = Ino(p) => file[q][1] = ip[p]
<1>1. ip[p] \in Slots /\ itable[ip[p]].ref > 0
  BY HasSlot DEF IInv
<1>2. ASSUME pc[q] \in Holding, Ino(q) = Ino(p) PROVE ip[q] = ip[p]
  <2>1. ip[q] \in Slots /\ itable[ip[q]].ref > 0
    BY <1>2, HasSlot DEF IInv
  <2> QED
    BY <1>1, <1>2, <2>1 DEF IInv, OneSlot, Ino
<1>3. ASSUME file[q] # None, file[q][2] = Ino(p) PROVE file[q][1] = ip[p]
  <2>1. file[q][1] \in Slots /\ itable[file[q][1]].ref > 0
    BY <1>3, HasSlot DEF IInv
  <2>2. itable[file[q][1]].inum = file[q][2]
    BY <1>3 DEF IInv, OpenFileLive
  <2> QED
    BY <1>1, <1>3, <2>1, <2>2 DEF IInv, OneSlot, Ino
<1> QED
  BY <1>2, <1>3

\* The inode that p frees is of no one else: not in use, not open, not named,
\* and not the one that create() has just allocated.
LEMMA FreeingAlone ==
  ASSUME IInv, NEW p \in Procs, pc[p] \in Freeing
  PROVE  /\ \A q \in Procs : q # p /\ pc[q] \in Holding => Ino(q) # Ino(p)
         /\ \A q \in Procs : file[q] # None => file[q][2] # Ino(p)
         /\ entries[Ino(p)] = 0
         /\ \A q \in Procs : pc[q] = "iget_new" => inum[q] # Ino(p)
<1>1. pc[p] \in Holding /\ pc[p] \in Using /\ pc[p] # "iget_new"
  BY DEF Freeing, Holding, Using, Gone, Freed
<1>2. itable[ip[p]].ref = 1 /\ dinode[Ino(p)].nlink = 0
  BY DEF IInv, FreeInv
<1>3. ip[p] \in Slots /\ Ino(p) \in Inums
  BY <1>1, HasSlot DEF IInv
<1>4. /\ \A q \in Procs : q # p => ip[q] # ip[p]
      /\ \A q \in Procs : file[q] # None => file[q][1] # ip[p]
  BY <1>2, <1>3, Alone DEF IInv
<1>5. entries[Ino(p)] = 0
  BY <1>2, <1>3, NoLinks DEF IInv
<1>6. ASSUME NEW q \in Procs, pc[q] = "iget_new" PROVE inum[q] # Ino(p)
  <2>1. Fresh(q, inum[q])
    BY <1>6 DEF IInv, FreshInv
  <2> QED
    BY <1>1, <1>6, <2>1 DEF Fresh
<1> QED
  BY <1>1, <1>4, <1>5, <1>6, SameSlot

\* How p comes to use an inode.
LEMMA UsingStep ==
  ASSUME IInv, NEW p \in Procs, Kind(p), pc'[p] \in Using
  PROVE  \/ pc[p] \in Using /\ ip'[p] = ip[p] /\ pc'[p] \notin Fetching
         \/ pc'[p] \in Fetching
         \/ Closes(p)
<1> DEFINE Good == \/ pc[p] \in Using /\ ip'[p] = ip[p] /\ pc'[p] \notin Fetching
                   \/ pc'[p] \in Fetching
                   \/ Closes(p)
<1> SUFFICES Good
  OBVIOUS
<1>1. {"user", "reading", "end", "open", "create", "link", "unlink", "iget_new"} \cap Using = {}
  BY DEF Using, Holding
<1>2. Gone \cap Using = {}
  BY DEF Using
<1>3. {"ilock_open", "opened", "ilock_new", "created", "ilock_link", "linked", "dirlink", "ilock_bad",
       "bad", "ilock_unlink", "unlinking", "unlinked", "iput", "iput_fail", "ifree", "ifree_fail"}
        \subseteq Using
  BY DEF Using, Holding, Gone, Freed
<1>4. CASE \/ \E m \in Pcs : Begins(p, m)
           \/ Ends(p) \/ Reads(p) \/ HasRead(p) \/ Opens(p)
           \/ \E l \in Pcs : Misses(p, l) \/ Drops(p, l)
           \/ \E i \in Inums : Allocates(p, i)
  <2>1. pc'[p] \in {"user", "reading", "end", "open", "create", "link", "unlink", "iget_new"}
    BY <1>4 DEF Begins, Ends, Reads, HasRead, Opens, Misses, Drops, Allocates, Goes
  <2> QED
    BY <1>1, <2>1
<1>5. CASE \E l, m \in Pcs : Frees(p, l, m) \/ Clears(p, l, m)
  <2>1. pc'[p] \in Gone
    BY <1>5 DEF Frees, Clears, Goes, Gone, Freed
  <2> QED
    BY <1>2, <2>1
<1>6. CASE (\E s \in Slots, i \in Inums, l, m \in Pcs : Finds(p, s, i, l, m)) \/ \E s \in Slots : GetsNew(p, s)
  BY <1>6 DEF Finds, GetsNew, Goes, Fetching
<1>7. CASE Closes(p)
  BY <1>7
<1>8. ASSUME pc[p] \in {"ilock_open", "opened", "ilock_new", "created", "ilock_link", "linked", "dirlink", "ilock_bad",
                        "bad", "ilock_unlink", "unlinking", "unlinked", "iput", "iput_fail", "ifree", "ifree_fail"},
             ip'[p] = ip[p]
      PROVE  Good
  BY <1>3, <1>8
<1>9. ASSUME NEW l \in Pcs, NEW m \in Pcs, Locks(p, l, m) \/ Takes(p, l, m)
      PROVE  Good
  BY <1>8, <1>9 DEF Locks, Takes, Goes
<1>10. ASSUME NEW l \in Pcs, NEW m \in Pcs, NEW n, NEW h, Updates(p, l, m, n, h)
       PROVE  Good
  BY <1>8, <1>10 DEF Updates, Goes
<1>11. CASE GivesUp(p) \/ Enters(p) \/ Fails(p) \/ Unnames(p)
  BY <1>8, <1>11 DEF GivesUp, Enters, Fails, Unnames, Goes
<1> HIDE DEF Good
<1> QED
  BY <1>4, <1>5, <1>6, <1>7, <1>9, <1>10, <1>11 DEF Kind

\* How p comes to have an open file.
LEMMA FileStep ==
  ASSUME IInv, NEW p \in Procs, Kind(p), file'[p] # None
  PROVE  \/ file'[p] = file[p]
         \/ /\ pc[p] = "opened" /\ file'[p][1] = ip[p] /\ file'[p][2] = Ino(p)
            /\ UNCHANGED <<dinode, entries>>
<1>1. ASSUME Opens(p)
      PROVE  /\ pc[p] = "opened" /\ file'[p][1] = ip[p] /\ file'[p][2] = Ino(p)
             /\ UNCHANGED <<dinode, entries>>
  <2>1. pc[p] = "opened" /\ file'[p] = <<ip[p], Ino(p)>> /\ UNCHANGED <<dinode, entries>>
    BY <1>1 DEF Opens, Goes
  <2>2. file'[p][1] = ip[p] /\ file'[p][2] = Ino(p)
    BY <2>1, SMT
  <2> QED
    BY <2>1, <2>2
<1>2. CASE (\E m \in Pcs : Begins(p, m)) \/ Closes(p) \/ Ends(p) \/ (\E l \in Pcs : Misses(p, l))
  BY <1>2 DEF Begins, Closes, Ends, Misses
<1>3. CASE \/ \E s \in Slots, i \in Inums, l, m \in Pcs : Finds(p, s, i, l, m)
           \/ \E s \in Slots : GetsNew(p, s)
           \/ \E l, m \in Pcs : Locks(p, l, m)
  BY <1>3 DEF Finds, GetsNew, Locks
<1>4. CASE Reads(p) \/ HasRead(p) \/ GivesUp(p) \/ Enters(p) \/ Fails(p) \/ Unnames(p)
  BY <1>4 DEF Reads, HasRead, GivesUp, Enters, Fails, Unnames
<1>5. CASE \E l, m \in Pcs : Takes(p, l, m) \/ Frees(p, l, m) \/ Clears(p, l, m) \/ Drops(p, l)
  BY <1>5 DEF Takes, Frees, Clears, Drops
<1>6. CASE \/ \E i \in Inums : Allocates(p, i)
           \/ \E l, m \in Pcs, n \in 0 .. MaxLinks, h \in Procs \cup {None} : Updates(p, l, m, n, h)
  BY <1>6 DEF Allocates, Updates
<1> QED
  BY <1>1, <1>2, <1>3, <1>4, <1>5, <1>6 DEF Kind

\* A process is between ialloc() and iget() by ialloc() only.
LEMMA AllocKinds ==
  ASSUME NEW p \in Procs, Kind(p), pc'[p] = "iget_new"
  PROVE  \E i \in Inums : Allocates(p, i)
<1> USE DEF Goes
<1>1. ~Closes(p) /\ ~Ends(p) /\ (\A m \in Pcs : ~Begins(p, m)) /\ \A l \in Pcs : ~Misses(p, l)
  BY DEF Closes, Ends, Begins, Misses
<1>2. /\ \A l, m \in Pcs : ~Locks(p, l, m) /\ ~Takes(p, l, m)
      /\ \A s \in Slots : ~GetsNew(p, s)
  BY DEF Locks, Takes, GetsNew
<1>3. \A l, m \in Pcs : ~Frees(p, l, m) /\ ~Clears(p, l, m) /\ ~Drops(p, l)
  BY DEF Frees, Clears, Drops
<1>4. ~Reads(p) /\ ~HasRead(p) /\ ~Opens(p) /\ ~GivesUp(p) /\ ~Enters(p) /\ ~Fails(p) /\ ~Unnames(p)
  BY DEF Reads, HasRead, Opens, GivesUp, Enters, Fails, Unnames
<1>5. ASSUME NEW s \in Slots, NEW i \in Inums, NEW l \in Pcs, NEW m \in Pcs, Finds(p, s, i, l, m)
      PROVE  FALSE
  BY <1>5 DEF Finds
<1>6. ASSUME NEW l \in Pcs, NEW m \in Pcs, NEW n, NEW h, Updates(p, l, m, n, h)
      PROVE  FALSE
  BY <1>6 DEF Updates
<1> HIDE DEF Goes
<1> QED
  BY <1>1, <1>2, <1>3, <1>4, <1>5, <1>6 DEF Kind

\* Inodes that are named, open or in use stay allocated.
LEMMA LiveStep ==
  ASSUME IInv, NEW p \in Procs, Kind(p), Others(p)
  PROVE  LiveInv' /\ OpenFileLive'
<1>1. \A i \in Inums : DiskKept(p, i)
  BY DiskStep
<1>2. /\ \A q \in Procs : q # p /\ pc[q] \in Holding => Ino(q)' = Ino(q)
      /\ pc[p] \in Holding /\ ip'[p] = ip[p] => Ino(p)' = Ino(p)
      /\ \A q \in Procs : file[q] # None => itable'[file[q][1]].inum = file[q][2]
  BY InoStep
<1>3. \A q \in Procs : pc[q] \in Using => pc[q] \in Holding /\ Ino(q) \in Inums
  BY HasSlot DEF IInv, Using
<1>4. LiveInv
  BY DEF IInv
<1>5. ASSUME NEW i \in Inums, entries'[i] > 0
      PROVE  dinode'[i].type # 0
  <2>1. CASE dinode[i].type = 0
    <3>1. ~(entries[i] > 0)
      BY <1>4, <2>1 DEF LiveInv
    <3>2. pc[p] \in {"created", "dirlink", "unlinking"} /\ i = Ino(p)
      BY <1>1, <1>5, <3>1 DEF DiskKept
    <3>3. pc[p] \in Using
      BY <3>2 DEF Using, Holding, Gone, Freed
    <3> QED
      BY <1>4, <2>1, <3>2, <3>3 DEF LiveInv
  <2>2. CASE dinode[i].type # 0 /\ dinode'[i].type = 0
    <3>1. pc[p] \in Freeing /\ i = Ino(p)
      BY <1>1, <2>2 DEF DiskKept
    <3>2. entries[i] = 0
      BY <3>1, FreeingAlone
    <3>3. entries'[i] = entries[i]
      BY <1>1, <3>1 DEF DiskKept, Freeing
    <3> QED
      BY <1>5, <3>2, <3>3, SMT
  <2> QED
    BY <2>1, <2>2
<1>6. ASSUME NEW q \in Procs, q # p, pc'[q] \in Using
      PROVE  dinode'[Ino(q)'].type # 0
  <2>1. pc[q] \in Using /\ pc[q] \in Holding /\ Ino(q)' = Ino(q) /\ Ino(q) \in Inums
    BY <1>2, <1>3, <1>6 DEF Others
  <2>2. dinode[Ino(q)].type # 0
    BY <1>4, <2>1 DEF LiveInv
  <2>3. ASSUME dinode'[Ino(q)].type = 0 PROVE FALSE
    <3>1. pc[p] \in Freeing /\ Ino(q) = Ino(p)
      BY <1>1, <2>1, <2>2, <2>3 DEF DiskKept
    <3> QED
      BY <1>6, <2>1, <3>1, FreeingAlone
  <2> QED
    BY <2>1, <2>3
<1>7. ASSUME pc'[p] \in Using
      PROVE  dinode'[Ino(p)'].type # 0
  <2>1. CASE pc[p] \in Using /\ ip'[p] = ip[p]
    <3>1. Ino(p)' = Ino(p) /\ Ino(p) \in Inums /\ dinode[Ino(p)].type # 0
      BY <1>2, <1>3, <1>4, <2>1 DEF LiveInv
    <3>2. pc'[p] \notin Freed
      BY <1>7 DEF Using, Gone
    <3> QED
      BY <1>1, <3>1, <3>2 DEF DiskKept
  <2>2. CASE pc'[p] \in Fetching
    <3>1. PICK i \in Inums : /\ Get(p, ip'[p], i) /\ UNCHANGED dinode
                             /\ entries[i] > 0 \/ (i = inum[p] /\ pc[p] = "iget_new")
      BY <2>2, FetchGets
    <3>2. Ino(p)' = i
      BY <3>1 DEF Get, Ino
    <3> QED
      BY <1>4, <3>1, <3>2 DEF LiveInv
  <2>3. CASE Closes(p)
    <3>1. /\ ip'[p] = file[p][1] /\ file[p] # None /\ itable' = itable /\ dinode' = dinode
      BY <2>3 DEF Closes
    <3>2. Ino(p)' = file[p][2]
      BY <1>2, <3>1 DEF Ino
    <3> QED
      BY <3>1, <3>2 DEF IInv, OpenFileLive
  <2> QED
    BY <1>7, <2>1, <2>2, <2>3, UsingStep
<1>8. ASSUME NEW q \in Procs, pc'[q] = "iget_new"
      PROVE  dinode'[inum'[q]].type # 0
  <2>1. CASE q # p
    <3>1. pc[q] = "iget_new" /\ inum'[q] = inum[q] /\ inum[q] # 0
      BY <1>8, <2>1 DEF Others, IInv, ControlInv
    <3>2. inum[q] \in Inums
      BY <3>1, SMT DEF IInv, Types, Inums
    <3>3. dinode[inum[q]].type # 0
      BY <1>4, <3>1 DEF LiveInv
    <3>4. ASSUME dinode'[inum[q]].type = 0 PROVE FALSE
      <4>1. pc[p] \in Freeing /\ inum[q] = Ino(p)
        BY <1>1, <3>2, <3>3, <3>4 DEF DiskKept
      <4> QED
        BY <3>1, <4>1, FreeingAlone
    <3> QED
      BY <3>1, <3>4
  <2>2. CASE q = p
    <3>1. PICK i \in Inums : Allocates(p, i)
      BY <1>8, <2>2, AllocKinds
    <3>2. Wrote(i, 1, 0) /\ inum'[p] = i /\ 1 \in {0, 1} /\ Types
      BY <3>1 DEF Allocates, Wrote, IInv
    <3>3. 0 \in 0 .. MaxLinks /\ 1 # 0
      BY SizesAssumption, SMT
    <3> QED
      BY <2>2, <3>2, <3>3, DiskTypes
  <2> QED
    BY <2>1, <2>2
<1>9. ASSUME NEW q \in Procs, file'[q] # None, file'[q] = file[q]
      PROVE  itable'[file'[q][1]].inum = file'[q][2] /\ dinode'[file'[q][2]].type # 0
  <2>1. file[q] # None /\ itable'[file[q][1]].inum = file[q][2] /\ file[q][2] \in Inums
    BY <1>2, <1>9, HasSlot DEF IInv
  <2>2. dinode[file[q][2]].type # 0
    BY <2>1 DEF IInv, OpenFileLive
  <2>3. ASSUME dinode'[file[q][2]].type = 0 PROVE FALSE
    <3>1. pc[p] \in Freeing /\ file[q][2] = Ino(p)
      BY <1>1, <2>1, <2>2, <2>3 DEF DiskKept
    <3> QED
      BY <2>1, <3>1, FreeingAlone
  <2> QED
    BY <1>9, <2>1, <2>3
<1>10. ASSUME file'[p] # None, file'[p] # file[p]
       PROVE  itable'[file'[p][1]].inum = file'[p][2] /\ dinode'[file'[p][2]].type # 0
  <2>1. /\ pc[p] = "opened" /\ file'[p][1] = ip[p] /\ file'[p][2] = Ino(p)
        /\ UNCHANGED dinode
    BY <1>10, FileStep
  <2>2. pc[p] \in Using
    BY <2>1 DEF Using, Holding, Gone, Freed
  <2>3. ip[p] \in Slots /\ itable[ip[p]].ref > 0
    BY <1>3, <2>2, HasSlot DEF IInv
  <2>4. itable'[ip[p]].inum = itable[ip[p]].inum
    BY <2>3, TableFacts DEF SlotKept
  <2> QED
    BY <1>4, <2>1, <2>2, <2>4 DEF LiveInv, Ino
<1>11. LiveInv'
  <2>1. \A q \in Procs : pc'[q] \in Using => dinode'[Ino(q)'].type # 0
    BY <1>6, <1>7
  <2> QED
    BY <1>5, <1>8, <2>1 DEF LiveInv, Ino
<1>12. OpenFileLive'
  <2>1. \A q \in Procs : file'[q] # None => itable'[file'[q][1]].inum = file'[q][2] /\ dinode'[file'[q][2]].type # 0
    BY <1>9, <1>10 DEF Others
  <2> QED
    BY <2>1 DEF OpenFileLive
<1> QED
  BY <1>11, <1>12
-----------------------------------------------------------------------------
(* A new inode is nobody else's.                                           *)

\* Fresh(p, i) after a step.
FreshThen(p, i) ==
  /\ dinode'[i].nlink = 0
  /\ \A q \in Procs : q # p /\ pc'[q] \in Using => Ino(q)' # i
  /\ \A q \in Procs : file'[q] # None => file'[q][2] # i

\* A process comes to have its inode locked, and as it was, by ilock().
LEMMA LockedKinds ==
  ASSUME NEW p \in Procs, Kind(p), pc'[p] \in {"created", "linked", "unlinking"}
  PROVE  \E l, m \in Pcs : Locks(p, l, m)
<1> USE DEF Goes
<1>1. ~Closes(p) /\ ~Ends(p) /\ (\A m \in Pcs : ~Begins(p, m)) /\ \A l \in Pcs : ~Misses(p, l)
  BY DEF Closes, Ends, Begins, Misses
<1>2. /\ \A l, m \in Pcs : ~Takes(p, l, m)
      /\ \A s \in Slots : ~GetsNew(p, s)
      /\ \A i \in Inums : ~Allocates(p, i)
  BY DEF Takes, GetsNew, Allocates
<1>3. \A l, m \in Pcs : ~Frees(p, l, m) /\ ~Clears(p, l, m) /\ ~Drops(p, l)
  BY DEF Frees, Clears, Drops
<1>4. ~Reads(p) /\ ~HasRead(p) /\ ~Opens(p) /\ ~GivesUp(p) /\ ~Enters(p) /\ ~Fails(p) /\ ~Unnames(p)
  BY DEF Reads, HasRead, Opens, GivesUp, Enters, Fails, Unnames
<1>5. ASSUME NEW s \in Slots, NEW i \in Inums, NEW l \in Pcs, NEW m \in Pcs, Finds(p, s, i, l, m)
      PROVE  FALSE
  <2>1. pc'[p] \in {"ilock_open", "ilock_link", "ilock_unlink"}
    BY <1>5 DEF Finds
  <2> QED
    BY <2>1
<1>6. ASSUME NEW l \in Pcs, NEW m \in Pcs, NEW n, NEW h, Updates(p, l, m, n, h)
      PROVE  FALSE
  <2>1. pc'[p] \in {"opened", "iput_fail", "dirlink", "iput"}
    BY <1>6 DEF Updates
  <2> QED
    BY <2>1
<1> HIDE DEF Goes
<1> QED
  BY <1>1, <1>2, <1>3, <1>4, <1>5, <1>6 DEF Kind

\* The inode that create() makes stays its own until it is named.
LEMMA FreshStep ==
  ASSUME IInv, NEW p \in Procs, Kind(p), Others(p)
  PROVE  FreshInv'
\* While q is creating inode i, no other process comes to use or open it.
<1>1. ASSUME NEW q \in Procs, q # p, pc[q] \in InDir, NEW i \in Inums,
             Fresh(q, i)
      PROVE  FreshThen(q, i)
  <2> USE <1>1
  <2>1. dirlock = q /\ dirlock # None /\ pc[p] \notin InDir
    BY NoneAssumption DEF IInv, ControlInv
  <2>2. ASSUME pc[p] \in Using PROVE Ino(p) # i
    BY <2>2 DEF Fresh
  <2>3. dinode'[i].nlink = 0
    <3>1. ASSUME dinode'[i].nlink # dinode[i].nlink PROVE FALSE
      <4>1. pc[p] \in {"created", "linked", "bad", "unlinked"} /\ i = Ino(p)
        BY <3>1, DiskStep DEF DiskKept
      <4> QED
        BY <2>2, <4>1 DEF Using, Holding, Gone, Freed
    <3> QED
      BY <3>1 DEF Fresh
  <2>4. /\ \A r \in Procs : r # p /\ pc[r] \in Holding => Ino(r)' = Ino(r)
        /\ pc[p] \in Holding /\ ip'[p] = ip[p] => Ino(p)' = Ino(p)
        /\ \A r \in Procs : file[r] # None => itable'[file[r][1]].inum = file[r][2]
    BY InoStep
  <2>5. ASSUME NEW r \in Procs, r # q, r # p, pc'[r] \in Using PROVE Ino(r)' # i
    <3>1. pc[r] \in Using
      BY <2>5 DEF Others
    <3>2. pc[r] \in Holding
      BY <3>1 DEF Using
    <3> QED
      BY <2>4, <2>5, <3>1, <3>2 DEF Fresh
  <2>6. ASSUME pc'[p] \in Using PROVE Ino(p)' # i
    <3>1. CASE pc[p] \in Using /\ ip'[p] = ip[p]
      BY <2>2, <2>4, <3>1 DEF Using
    <3>2. CASE pc'[p] \in Fetching
      BY <2>1, <3>2, FetchGets DEF InDir
    <3>3. CASE Closes(p)
      <4>1. ip'[p] = file[p][1] /\ file[p] # None
        BY <3>3 DEF Closes
      <4>2. Ino(p)' = file[p][2]
        BY <2>4, <4>1 DEF Ino
      <4> QED
        BY <4>1, <4>2 DEF Fresh
    <3> QED
      BY <2>6, <3>1, <3>2, <3>3, UsingStep
  <2>7. ASSUME NEW r \in Procs, file'[r] # None PROVE file'[r][2] # i
    <3>1. CASE file'[r] = file[r]
      BY <2>7, <3>1 DEF Fresh
    <3>2. CASE file'[r] # file[r]
      <4>1. r = p
        BY <3>2 DEF Others
      <4>2. pc[p] = "opened" /\ file'[p][2] = Ino(p)
        BY <2>7, <3>2, <4>1, FileStep
      <4> QED
        BY <2>2, <4>1, <4>2 DEF Using, Holding, Gone, Freed
    <3> QED
      BY <3>1, <3>2
  <2>8. \A r \in Procs : r # q /\ pc'[r] \in Using => Ino(r)' # i
    BY <2>5, <2>6
  <2> QED
    BY <2>3, <2>7, <2>8 DEF FreshThen
\* The steps of the creating process keep its inode its own, too.
<1>2. ASSUME NEW i \in Inums, dinode'[i].nlink = 0, file' = file,
             \A q \in Procs : q # p /\ pc[q] \in Using => Ino(q) # i,
             \A q \in Procs : file[q] # None => file[q][2] # i
      PROVE  FreshThen(p, i)
  <2> USE <1>2
  <2>1. \A r \in Procs : r # p /\ pc[r] \in Holding => Ino(r)' = Ino(r)
    BY InoStep
  <2>2. ASSUME NEW r \in Procs, r # p, pc'[r] \in Using PROVE Ino(r)' # i
    <3>1. pc[r] \in Using
      BY <2>2 DEF Others
    <3>2. pc[r] \in Holding
      BY <3>1 DEF Using
    <3> QED
      BY <2>1, <2>2, <3>1, <3>2
  <2> QED
    BY <2>2 DEF FreshThen
<1>3. \A q \in Procs : pc[q] = "iget_new" => inum[q] # 0
  BY DEF IInv, ControlInv
<1>4. \A q \in Procs : inum[q] # 0 => inum[q] \in Inums
  BY SMT DEF IInv, Types, Inums
<1>5. FreshInv
  BY DEF IInv
<1>6. ASSUME NEW q \in Procs, q # p, pc'[q] = "iget_new" PROVE FreshThen(q, inum'[q])
  <2>1. pc[q] = "iget_new" /\ inum'[q] = inum[q] /\ pc[q] \in InDir
    BY <1>6 DEF Others, InDir
  <2>2. Fresh(q, inum[q]) /\ inum[q] \in Inums
    BY <1>3, <1>4, <1>5, <2>1 DEF FreshInv
  <2> QED
    BY <1>6, <2>1, <2>2, <1>1
<1>7. ASSUME NEW q \in Procs, q # p, pc'[q] \in {"ilock_new", "created"} PROVE FreshThen(q, Ino(q)')
  <2>1. pc[q] \in {"ilock_new", "created"} /\ pc[q] \in InDir /\ pc[q] \in Holding
    BY <1>7 DEF Others, InDir, Holding
  <2>2. Fresh(q, Ino(q)) /\ Ino(q) \in Inums
    BY <1>5, <2>1, HasSlot DEF IInv, FreshInv
  <2>3. Ino(q)' = Ino(q)
    BY <1>7, <2>1, InoStep
  <2> QED
    BY <1>7, <2>1, <2>2, <2>3, <1>1
<1>8. ASSUME pc'[p] = "iget_new" PROVE FreshThen(p, inum'[p])
  <2>1. PICK i \in Inums : Allocates(p, i)
    BY <1>8, AllocKinds
  <2>2. Wrote(i, 1, 0) /\ inum'[p] = i /\ 1 \in {0, 1} /\ Types /\ file' = file /\ dinode[i].type = 0
    BY <2>1 DEF Allocates, Wrote, IInv
  <2>3. 0 \in 0 .. MaxLinks
    BY SizesAssumption, SMT
  <2>4. dinode'[i].nlink = 0
    BY <2>2, <2>3, DiskTypes
  <2>5. /\ \A q \in Procs : q # p /\ pc[q] \in Using => Ino(q) # i
        /\ \A q \in Procs : file[q] # None => file[q][2] # i
    BY <2>2, FreeDisk
  <2> QED
    BY <2>2, <2>4, <2>5, <1>2
<1>9. ASSUME NEW i \in Inums, Fresh(p, i), UNCHANGED <<dinode, file>> PROVE FreshThen(p, i)
  BY <1>9, <1>2 DEF Fresh
<1>10. ASSUME pc'[p] = "ilock_new" PROVE FreshThen(p, Ino(p)')
  <2>1. PICK i \in Inums : /\ Get(p, ip'[p], i) /\ UNCHANGED <<dinode, file>>
                           /\ i = inum[p] /\ pc[p] = "iget_new"
    BY <1>10, FetchGets DEF Fetching
  <2>2. Ino(p)' = i
    BY <2>1 DEF Get, Ino
  <2> QED
    BY <1>5, <1>9, <2>1, <2>2 DEF FreshInv
<1>11. ASSUME pc'[p] = "created" PROVE FreshThen(p, Ino(p)')
  <2>1. pc[p] = "ilock_new" /\ UNCHANGED <<dinode, file, ip>>
    BY <1>11, LockedKinds DEF Locks, Goes
  <2>2. pc[p] \in Holding
    BY <2>1 DEF Holding
  <2>3. Ino(p) \in Inums /\ Fresh(p, Ino(p))
    BY <1>5, <2>1, <2>2, HasSlot DEF IInv, FreshInv
  <2>4. Ino(p)' = Ino(p)
    BY <2>1, <2>2, InoStep
  <2> QED
    BY <1>9, <2>1, <2>3, <2>4
<1>12. \A q \in Procs : pc'[q] = "iget_new" => FreshThen(q, inum'[q])
  BY <1>6, <1>8
<1>13. \A q \in Procs : pc'[q] \in {"ilock_new", "created"} => FreshThen(q, Ino(q)')
  BY <1>7, <1>10, <1>11
<1> QED
  BY <1>12, <1>13 DEF FreshInv, Fresh, FreshThen, Ino
-----------------------------------------------------------------------------
(* An inode that is being freed.                                           *)

\* What is being freed goes on to be free.
LEMMA FreedKinds ==
  ASSUME NEW p \in Procs, Kind(p), pc'[p] \in Freed
  PROVE  pc[p] \in Freeing /\ UNCHANGED <<entries, file, ip>>
<1> USE DEF Goes, Freed
<1>1. ~Closes(p) /\ ~Ends(p) /\ (\A m \in Pcs : ~Begins(p, m)) /\ \A l \in Pcs : ~Misses(p, l)
  BY DEF Closes, Ends, Begins, Misses
<1>2. /\ \A l, m \in Pcs : ~Locks(p, l, m)
      /\ \A s \in Slots : ~GetsNew(p, s)
      /\ \A i \in Inums : ~Allocates(p, i)
  BY DEF Locks, GetsNew, Allocates
<1>3. \A l, m \in Pcs : ~Takes(p, l, m) /\ ~Clears(p, l, m) /\ ~Drops(p, l)
  BY DEF Takes, Clears, Drops
<1>4. ~Reads(p) /\ ~HasRead(p) /\ ~Opens(p) /\ ~GivesUp(p) /\ ~Enters(p) /\ ~Fails(p) /\ ~Unnames(p)
  BY DEF Reads, HasRead, Opens, GivesUp, Enters, Fails, Unnames
<1>5. ASSUME NEW s \in Slots, NEW i \in Inums, NEW l \in Pcs, NEW m \in Pcs, Finds(p, s, i, l, m)
      PROVE  FALSE
  BY <1>5 DEF Finds
<1>6. ASSUME NEW l \in Pcs, NEW m \in Pcs, NEW n, NEW h, Updates(p, l, m, n, h)
      PROVE  FALSE
  <2>1. pc'[p] \in {"opened", "iput_fail", "dirlink", "iput"}
    BY <1>6 DEF Updates
  <2> QED
    BY <2>1
<1>7. ASSUME NEW l \in Pcs, NEW m \in Pcs, Frees(p, l, m)
      PROVE  pc[p] \in Freeing /\ UNCHANGED <<entries, file, ip>>
  BY <1>7 DEF Frees, Freeing
<1> HIDE DEF Goes, Freed
<1> QED
  BY <1>1, <1>2, <1>3, <1>4, <1>5, <1>6, <1>7 DEF Kind

\* Who waits for an inode's lock, or has only its reference left to drop, does
\* that next.
LEMMA WaitKinds ==
  ASSUME NEW p \in Procs, Kind(p), pc[p] \in Fetching \cup {"idrop", "idrop_fail"}
  PROVE  (Lock(p, ip[p]) /\ pc[p] \in Fetching) \/ ip'[p] = None
<1> USE DEF Goes, Fetching
<1>1. ~Closes(p) /\ ~Ends(p) /\ (\A m \in Pcs : ~Begins(p, m)) /\ \A l \in Pcs : ~Misses(p, l)
  BY DEF Closes, Ends, Begins, Misses
<1>2. /\ \A s \in Slots : ~GetsNew(p, s)
      /\ \A i \in Inums : ~Allocates(p, i)
  BY DEF GetsNew, Allocates
<1>3. \A l, m \in Pcs : ~Takes(p, l, m) /\ ~Clears(p, l, m) /\ ~Frees(p, l, m)
  BY DEF Takes, Clears, Frees
<1>4. ~Reads(p) /\ ~HasRead(p) /\ ~Opens(p) /\ ~GivesUp(p) /\ ~Enters(p) /\ ~Fails(p) /\ ~Unnames(p)
  BY DEF Reads, HasRead, Opens, GivesUp, Enters, Fails, Unnames
<1>5. ASSUME NEW s \in Slots, NEW i \in Inums, NEW l \in Pcs, NEW m \in Pcs, Finds(p, s, i, l, m)
      PROVE  FALSE
  <2>1. pc[p] \in {"open", "create", "link", "unlink"}
    BY <1>5 DEF Finds
  <2> QED
    BY <2>1
<1>6. ASSUME NEW l \in Pcs, NEW m \in Pcs, NEW n, NEW h, Updates(p, l, m, n, h)
      PROVE  FALSE
  <2>1. pc[p] \in {"created", "linked", "bad", "unlinked"}
    BY <1>6 DEF Updates
  <2> QED
    BY <2>1
<1>7. ASSUME NEW l \in Pcs, NEW m \in Pcs, Locks(p, l, m)
      PROVE  Lock(p, ip[p]) /\ pc[p] \in Fetching
  <2>1. Lock(p, ip[p]) /\ pc[p] \in {"ilock_open", "ilock_new", "ilock_link", "ilock_bad", "ilock_unlink"}
    BY <1>7 DEF Locks
  <2> QED
    BY <2>1
<1>8. ASSUME NEW l \in Pcs, Drops(p, l)
      PROVE  ip'[p] = None
  BY <1>8 DEF Drops
<1> HIDE DEF Goes, Fetching
<1> QED
  BY <1>1, <1>2, <1>3, <1>4, <1>5, <1>6, <1>7, <1>8 DEF Kind

\* FreeInv is kept.
LEMMA FreeStep ==
  ASSUME IInv, NEW p \in Procs, Kind(p), Others(p)
  PROVE  FreeInv'
\* FreeInv's first part: nobody comes to an inode that is about to be freed.
<1>1. ASSUME NEW q \in Procs, pc'[q] \in Freeing
      PROVE  itable'[ip'[q]].ref = 1 /\ dinode'[Ino(q)'].nlink = 0
  <2> USE <1>1
  \* iput() frees an inode of which it has the last reference, and the table
  \* shows the inode's link count.
  <2>1. ASSUME pc'[p] \in Freeing
        PROVE  /\ pc[p] \in {"iput", "iput_fail"} /\ LastOfUnlinked(ip[p]) /\ Passes(ip[p], p)
               /\ UNCHANGED <<dinode, entries, file, ip>>
    <3> USE <2>1
    <3> USE DEF Goes, Freeing
    <3>1. ~Closes(p) /\ ~Ends(p) /\ (\A m \in Pcs : ~Begins(p, m)) /\ \A l \in Pcs : ~Misses(p, l)
      BY DEF Closes, Ends, Begins, Misses
    <3>2. /\ \A l, m \in Pcs : ~Locks(p, l, m)
          /\ \A s \in Slots : ~GetsNew(p, s)
          /\ \A i \in Inums : ~Allocates(p, i)
      BY DEF Locks, GetsNew, Allocates
    <3>3. \A l, m \in Pcs : ~Frees(p, l, m) /\ ~Clears(p, l, m) /\ ~Drops(p, l)
      BY DEF Frees, Clears, Drops
    <3>4. ~Reads(p) /\ ~HasRead(p) /\ ~Opens(p) /\ ~GivesUp(p) /\ ~Enters(p) /\ ~Fails(p) /\ ~Unnames(p)
      BY DEF Reads, HasRead, Opens, GivesUp, Enters, Fails, Unnames
    <3>5. ASSUME NEW s \in Slots, NEW i \in Inums, NEW l \in Pcs, NEW m \in Pcs, Finds(p, s, i, l, m)
          PROVE  FALSE
      BY <3>5 DEF Finds
    <3>6. ASSUME NEW l \in Pcs, NEW m \in Pcs, NEW n, NEW h, Updates(p, l, m, n, h)
          PROVE  FALSE
      <4>1. pc'[p] \in {"opened", "iput_fail", "dirlink", "iput"}
        BY <3>6 DEF Updates
      <4> QED
        BY <4>1
    <3>7. ASSUME NEW l \in Pcs, NEW m \in Pcs, Takes(p, l, m)
          PROVE  /\ pc[p] \in {"iput", "iput_fail"} /\ LastOfUnlinked(ip[p]) /\ Passes(ip[p], p)
                 /\ UNCHANGED <<dinode, entries, file, ip>>
      BY <3>7 DEF Takes
    <3> HIDE DEF Goes, Freeing
    <3> QED
      BY <3>1, <3>2, <3>3, <3>4, <3>5, <3>6, <3>7 DEF Kind
  <2>2. CASE q # p
    <3>1. pc[q] \in Freeing /\ ip'[q] = ip[q]
      BY <2>2 DEF Others
    <3>2. pc[q] \in Holding /\ pc[q] \in Using
      BY <3>1 DEF Freeing, Holding, Using, Gone, Freed
    <3>3. /\ itable[ip[q]].ref = 1 /\ dinode[Ino(q)].nlink = 0
      BY <3>1 DEF IInv, FreeInv
    <3>4. ip[q] \in Slots /\ Ino(q) \in Inums
      BY <3>2, HasSlot DEF IInv
    <3>5. ip[p] # ip[q]
      BY <2>2, <3>3, <3>4, Alone DEF IInv
    <3>6. Ino(q)' = Ino(q)
      BY <2>2, <3>2, InoStep
    <3>7. dinode'[Ino(q)].nlink = dinode[Ino(q)].nlink
      <4> SUFFICES ASSUME dinode'[Ino(q)].nlink # dinode[Ino(q)].nlink PROVE FALSE
        OBVIOUS
      <4>1. pc[p] \in {"created", "linked", "bad", "unlinked"} /\ Ino(q) = Ino(p)
        BY <3>4, DiskStep DEF DiskKept
      <4>2. pc[p] \in Holding
        BY <4>1 DEF Holding
      <4> QED
        BY <3>2, <3>5, <4>1, <4>2, SameSlot
    <3>8. itable'[ip[q]].ref = itable[ip[q]].ref
      <4> SUFFICES ASSUME itable'[ip[q]].ref # itable[ip[q]].ref PROVE FALSE
        OBVIOUS
      <4>1. SlotKept(p, ip[q])
        BY <3>4, TableFacts
      <4>2. pc'[p] \in Fetching /\ ip'[p] = ip[q]
        BY <3>5, <4>1 DEF SlotKept
      <4>3. PICK i \in Inums : Get(p, ip[q], i) /\ (entries[i] > 0 \/ (i = inum[p] /\ pc[p] = "iget_new"))
        BY <4>2, FetchGets
      <4>4. itable[ip[q]].ref > 0
        BY <3>2, HasSlot DEF IInv
      <4>5. i = Ino(q)
        BY <4>3, <4>4 DEF Get, Ino
      <4>6. entries[i] = 0 /\ (pc[p] = "iget_new" => inum[p] # i)
        BY <3>1, <4>5, FreeingAlone
      <4>7. ~(entries[i] > 0)
        BY <4>6, SMT
      <4> QED
        BY <4>3, <4>6, <4>7
    <3> QED
      BY <3>1, <3>3, <3>6, <3>7, <3>8
  <2>3. CASE q = p
    <3>1. /\ pc[p] \in {"iput", "iput_fail"} /\ LastOfUnlinked(ip[p]) /\ Passes(ip[p], p)
          /\ UNCHANGED <<dinode, ip>>
      BY <2>3, <2>1
    <3>2. pc[p] \in Holding /\ pc[p] \notin Freed
      BY <3>1 DEF Holding, Freed
    <3>3. ip[p] \in Slots /\ itable[ip[p]].ref > 0
      BY <3>2, HasSlot DEF IInv
    <3>4. itable[ip[p]].ref = 1 /\ itable[ip[p]].valid /\ itable[ip[p]].nlink = 0
      BY <3>1 DEF LastOfUnlinked
    <3>5. \A r \in Procs : pc[r] \in Freed => ip[r] # ip[p]
      BY <3>2, <3>3, <3>4, Alone DEF IInv
    <3>6. dinode[Ino(p)].nlink = 0
      BY <3>3, <3>4, <3>5 DEF IInv, CoherInv, Ino
    <3>7. Ino(p)' = Ino(p)
      BY <3>1, <3>2, InoStep
    <3>8. itable'[ip[p]].ref = itable[ip[p]].ref
      BY <3>1 DEF Passes, Becomes
    <3> QED
      BY <2>3, <3>1, <3>4, <3>6, <3>7, <3>8
  <2> QED
    BY <2>2, <2>3
\* Its second part: who comes to the slot of an inode that is free waits.
<1>2. ASSUME NEW q \in Procs, pc'[q] \in Freed
      PROVE  /\ \A r \in Procs : r # q /\ ip'[r] = ip'[q] => pc'[r] \in Fetching \cup {"idrop", "idrop_fail"}
             /\ \A r \in Procs : file'[r] # None => file'[r][1] # ip'[q]
  <2> USE <1>2
  \* A process comes to hold an inode by iget(), or with the file that it closes.
  <2>1. ASSUME ip'[p] # ip[p], ip'[p] # None
        PROVE  pc'[p] \in Fetching \/ Closes(p)
    <3> USE <2>1
    <3>2. CASE \/ \E m \in Pcs : Begins(p, m)
               \/ \E l \in Pcs : Misses(p, l) \/ Drops(p, l)
               \/ Ends(p) \/ Reads(p) \/ HasRead(p) \/ Opens(p) \/ GivesUp(p)
      BY <3>2 DEF Begins, Misses, Drops, Ends, Reads, HasRead, Opens, GivesUp
    <3>3. CASE \/ \E l, m \in Pcs : Locks(p, l, m) \/ Takes(p, l, m) \/ Frees(p, l, m) \/ Clears(p, l, m)
               \/ Enters(p) \/ Fails(p) \/ Unnames(p) \/ \E i \in Inums : Allocates(p, i)
      BY <3>3 DEF Locks, Takes, Frees, Clears, Enters, Fails, Unnames, Allocates
    <3>4. CASE \E l, m \in Pcs, n \in 0 .. MaxLinks, h \in Procs \cup {None} : Updates(p, l, m, n, h)
      BY <3>4 DEF Updates
    <3>5. CASE (\E s \in Slots, i \in Inums, l, m \in Pcs : Finds(p, s, i, l, m)) \/ \E s \in Slots : GetsNew(p, s)
      BY <3>5 DEF Finds, GetsNew, Goes, Fetching
    <3> QED
      BY <3>2, <3>3, <3>4, <3>5 DEF Kind
  <2>2. CASE q # p
    <3>1. pc[q] \in Freed /\ ip'[q] = ip[q]
      BY <2>2 DEF Others
    <3>2. pc[q] \in Holding /\ pc[q] \in Locking
      BY <3>1 DEF Freed, Holding, Locking
    <3>3. ip[q] \in Slots
      BY <3>2, HasSlot DEF IInv
    <3>4. itable[ip[q]].lock = q /\ q # None
      BY <3>2, <3>3, NoneAssumption DEF IInv, LockInv
    <3>5. /\ \A r \in Procs : r # q /\ ip[r] = ip[q] => pc[r] \in Fetching \cup {"idrop", "idrop_fail"}
          /\ \A r \in Procs : file[r] # None => file[r][1] # ip[q]
      BY <3>1 DEF IInv, FreeInv
    <3>6. ASSUME NEW r \in Procs, r # q, r # p, ip'[r] = ip'[q]
          PROVE  pc'[r] \in Fetching \cup {"idrop", "idrop_fail"}
      BY <3>1, <3>5, <3>6 DEF Others
    <3>7. ASSUME ip'[p] = ip'[q], pc'[p] \notin Fetching
          PROVE  FALSE
      <4>1. CASE ip[p] = ip[q]
        <5>1. pc[p] \in Fetching \cup {"idrop", "idrop_fail"}
          BY <2>2, <3>5, <4>1
        <5>2. ip'[p] = None
          BY <3>4, <4>1, <5>1, WaitKinds DEF Lock
        <5> QED
          BY <3>1, <3>3, <3>7, <5>2, NoneAssumption
      <4>2. CASE ip[p] # ip[q]
        <5>1. ip'[p] # ip[p] /\ ip'[p] # None
          BY <3>1, <3>3, <3>7, <4>2, NoneAssumption
        <5>2. Closes(p)
          BY <3>7, <5>1, <2>1
        <5>3. file[p] # None /\ file[p][1] = ip[q]
          BY <3>1, <3>7, <5>2 DEF Closes
        <5> QED
          BY <3>5, <5>3
      <4> QED
        BY <4>1, <4>2
    <3>8. ASSUME NEW r \in Procs, file'[r] # None
          PROVE  file'[r][1] # ip'[q]
      <4>1. CASE file'[r] = file[r]
        BY <3>1, <3>5, <3>8, <4>1
      <4>2. CASE file'[r] # file[r]
        <5>1. r = p
          BY <4>2 DEF Others
        <5>2. pc[p] = "opened" /\ file'[p][1] = ip[p]
          BY <3>8, <4>2, <5>1, FileStep
        <5>3. pc[p] \notin Fetching \cup {"idrop", "idrop_fail"}
          BY <5>2 DEF Fetching
        <5> QED
          BY <2>2, <3>1, <3>5, <5>1, <5>2, <5>3
      <4> QED
        BY <4>1, <4>2
    <3> QED
      BY <3>6, <3>7, <3>8
  <2>3. CASE q = p
    <3>1. pc[p] \in Freeing /\ UNCHANGED <<file, ip>>
      BY <2>3, FreedKinds
    <3>2. itable[ip[p]].ref = 1
      BY <3>1 DEF IInv, FreeInv
    <3>3. ip[p] \in Slots
      BY <3>1, HasSlot DEF IInv, Freeing, Holding
    <3>4. /\ \A r \in Procs : r # p => ip[r] # ip[p]
          /\ \A r \in Procs : file[r] # None => file[r][1] # ip[p]
      BY <3>2, <3>3, Alone DEF IInv
    <3> QED
      BY <2>3, <3>1, <3>4
  <2> QED
    BY <2>2, <2>3
<1> QED
  BY <1>1, <1>2 DEF FreeInv, Ino
=============================================================================
