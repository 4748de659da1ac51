--------------------------- MODULE InodeTheorems ---------------------------
(***************************************************************************)
(* That the inode table of kernel/fs.c is sound for every number of        *)
(* processes, inodes, slots and links: the steps of a process keep the     *)
(* cached copies, the link counts and what is durable; a crash and the     *)
(* reboot after it bring the invariant back; and what follows from it.     *)
(***************************************************************************)
EXTENDS InodeProofs

USE Zenon
-----------------------------------------------------------------------------
(* The cached copies.                                                      *)

\* A copy that was read stays valid as long as the inode is used.
LEMMA ValidStep ==
  ASSUME IInv, NEW p \in Procs, Kind(p), Others(p)
  PROVE  ValidInv'
<1>1. ASSUME NEW s \in Slots, itable[s].ref > 0, itable[s].valid, pc[p] \in Freed => ip[p] # s
      PROVE  itable'[s].valid
  BY <1>1, TableFacts DEF SlotKept
<1>2. ValidInv /\ FreeInv
  BY DEF IInv
<1>3. ASSUME NEW q \in Procs, pc[q] \in Using \ Fetching, ip'[q] = ip[q]
      PROVE  itable'[ip'[q]].valid
  <2>1. ip[q] \in Slots /\ itable[ip[q]].ref > 0 /\ itable[ip[q]].valid
    BY <1>2, <1>3, HasSlot DEF IInv, ValidInv, Using
  <2>2. ASSUME pc[p] \in Freed, ip[p] = ip[q] PROVE FALSE
    <3>1. p # q /\ pc[q] \notin Fetching \cup {"idrop", "idrop_fail"}
      BY <1>3, <2>2 DEF Using, Gone
    <3> QED
      BY <1>2, <2>2, <3>1 DEF FreeInv
  <2> QED
    BY <1>1, <1>3, <2>1, <2>2
<1>4. ASSUME NEW q \in Procs, file[q] # None
      PROVE  itable'[file[q][1]].valid
  <2>1. file[q][1] \in Slots /\ itable[file[q][1]].ref > 0 /\ itable[file[q][1]].valid
    BY <1>2, <1>4, HasSlot DEF IInv, ValidInv
  <2>2. pc[p] \in Freed => ip[p] # file[q][1]
    BY <1>2, <1>4 DEF FreeInv
  <2> QED
    BY <1>1, <2>1, <2>2
<1>5. ASSUME pc'[p] \in Using \ Fetching
      PROVE  itable'[ip'[p]].valid
  <2>1. CASE pc[p] \in Using /\ ip'[p] = ip[p]
    <3>1. CASE pc[p] \in Fetching
      <4>1. ip[p] # None
        BY <3>1 DEF IInv, ControlInv, Fetching, Holding
      <4>2. Lock(p, ip[p])
        BY <2>1, <3>1, <4>1, WaitKinds
      <4> QED
        BY <2>1, <4>2 DEF Lock
    <3>2. CASE pc[p] \notin Fetching
      BY <1>3, <2>1, <3>2
    <3> QED
      BY <3>1, <3>2
  <2>2. CASE Closes(p)
    BY <1>4, <2>2 DEF Closes
  <2> QED
    BY <1>5, <2>1, <2>2, UsingStep
<1>6. ASSUME NEW q \in Procs, pc'[q] \in Using \ Fetching
      PROVE  itable'[ip'[q]].valid
  BY <1>3, <1>5, <1>6 DEF Others
<1>7. ASSUME NEW q \in Procs, file'[q] # None
      PROVE  itable'[file'[q][1]].valid
  <2>1. CASE file'[q] = file[q]
    BY <1>4, <1>7, <2>1
  <2>2. CASE file'[q] # file[q]
    <3>1. q = p
      BY <2>2 DEF Others
    <3>2. pc[p] = "opened" /\ file'[p][1] = ip[p]
      BY <1>7, <2>2, <3>1, FileStep
    <3>3. pc[p] \in Using \ Fetching /\ pc[p] \notin Freed
      BY <3>2 DEF Using, Holding, Gone, Freed, Fetching
    <3>4. ip[p] \in Slots /\ itable[ip[p]].ref > 0 /\ itable[ip[p]].valid
      BY <1>2, <3>3, HasSlot DEF IInv, ValidInv, Using
    <3> QED
      BY <1>1, <3>1, <3>2, <3>3, <3>4
  <2> QED
    BY <2>1, <2>2
<1> QED
  BY <1>6, <1>7 DEF ValidInv

\* What a step may do to the copy in slot s.
CopyKept(p, s) ==
  \/ /\ itable'[s].valid = itable[s].valid /\ itable'[s].type = itable[s].type
     /\ itable'[s].nlink = itable[s].nlink
  \/ /\ s = ip[p] /\ \E l, m \in Pcs, n \in 0 .. MaxLinks, h \in Procs \cup {None} : Updates(p, l, m, n, h)
  \/ /\ s = ip[p] /\ ip'[p] = ip[p] /\ pc'[p] \in Freed
  \/ /\ Lock(p, s) /\ UNCHANGED dinode
     /\ (s = ip[p] /\ pc[p] \in Using) \/ (file[p] # None /\ s = file[p][1])
  \/ s = ip[p] /\ pc[p] \in Freed /\ ~itable'[s].valid

\* With a link count to write, a process writes it next.
LEMMA CountKinds ==
  ASSUME NEW p \in Procs, Kind(p), pc[p] \in {"created", "linked", "bad", "unlinked"}
  PROVE  \E l, m \in Pcs, n \in 0 .. MaxLinks, h \in Procs \cup {None} : Updates(p, l, m, n, h)
<1> USE DEF Goes
<1>1. ~Closes(p) /\ ~Ends(p) /\ (\A m \in Pcs : ~Begins(p, m)) /\ \A l \in Pcs : ~Misses(p, l)
  BY DEF Closes, Ends, Begins, Misses
<1>2. /\ \A s \in Slots : ~GetsNew(p, s)
      /\ \A i \in Inums : ~Allocates(p, i)
      /\ \A l, m \in Pcs : ~Locks(p, l, m)
  BY DEF GetsNew, Allocates, Locks
<1>3. \A l, m \in Pcs : ~Takes(p, l, m) /\ ~Clears(p, l, m) /\ ~Frees(p, l, m) /\ ~Drops(p, l)
  BY DEF Takes, Clears, Frees, Drops
<1>4. ~Reads(p) /\ ~HasRead(p) /\ ~Opens(p) /\ ~GivesUp(p) /\ ~Enters(p) /\ ~Fails(p) /\ ~Unnames(p)
  BY DEF Reads, HasRead, Opens, GivesUp, Enters, Fails, Unnames
<1>5. ASSUME NEW s \in Slots, NEW i \in Inums, NEW l \in Pcs, NEW m \in Pcs, Finds(p, s, i, l, m)
      PROVE  FALSE
  <2>1. pc[p] \in {"open", "create", "link", "unlink"}
    BY <1>5 DEF Finds
  <2> QED
    BY <2>1
<1> HIDE DEF Goes
<1> QED
  BY <1>1, <1>2, <1>3, <1>4, <1>5 DEF Kind

\* A valid copy stays that of the inode on the disk.
LEMMA CoherStep ==
  ASSUME IInv, NEW p \in Procs, Kind(p), Others(p), itable' \in [Slots -> Slot]
  PROVE  CoherInv'
\* That is all that a step does to a copy in use.
<1>1. ASSUME NEW s \in Slots, itable[s].ref > 0
      PROVE  CopyKept(p, s)
  <2> USE <1>1
  <2>1. ASSUME itable'[s] = itable[s] PROVE CopyKept(p, s)
    BY <2>1 DEF CopyKept
  <2>2. CASE Still(p)
    BY <2>1, <2>2, StillTable
  <2>3. ASSUME NEW t \in Slots, NEW i, Get(p, t, i)
        PROVE  CopyKept(p, s)
    <3>1. CASE s = t
      BY <2>3, <3>1 DEF Get, CopyKept
    <3>2. CASE s # t
      BY <2>1, <2>3, <3>2 DEF Get, Only
    <3> QED
      BY <3>1, <3>2
  <2>4. CASE (\E t \in Slots, i \in Inums, l, m \in Pcs : Finds(p, t, i, l, m)) \/ \E t \in Slots : GetsNew(p, t)
    BY <2>3, <2>4 DEF Finds, GetsNew
  <2>5. ASSUME NEW l \in Pcs, NEW m \in Pcs, Locks(p, l, m)
        PROVE  CopyKept(p, s)
    <3>1. Lock(p, ip[p]) /\ UNCHANGED dinode
      BY <2>5 DEF Locks
    <3>2. pc[p] \in Using
      BY <2>5 DEF Locks, Goes, Using, Holding, Gone, Freed
    <3>3. CASE s = ip[p]
      BY <3>1, <3>2, <3>3 DEF CopyKept
    <3>4. CASE s # ip[p]
      BY <2>1, <3>1, <3>4 DEF Lock, Only
    <3> QED
      BY <3>3, <3>4
  <2>6. CASE Reads(p)
    <3>1. Lock(p, file[p][1]) /\ file[p] # None /\ UNCHANGED dinode
      BY <2>6 DEF Reads
    <3>2. CASE s = file[p][1]
      BY <3>1, <3>2 DEF CopyKept
    <3>3. CASE s # file[p][1]
      BY <2>1, <3>1, <3>3 DEF Lock, Only
    <3> QED
      BY <3>2, <3>3
  <2>7. ASSUME NEW t, NEW n, NEW h, Becomes(t, n, itable[t].valid, itable[t].type, itable[t].nlink, h)
        PROVE  CopyKept(p, s)
    <3>1. CASE s = t
      BY <2>7, <3>1 DEF Becomes, CopyKept
    <3>2. CASE s # t
      BY <2>1, <2>7, <3>2 DEF Becomes, Only
    <3> QED
      BY <3>1, <3>2
  <2>8. CASE HasRead(p) \/ Opens(p) \/ GivesUp(p)
    BY <2>7, <2>8 DEF HasRead, Opens, GivesUp, Passes
  <2>9. ASSUME NEW l \in Pcs, NEW m \in Pcs, Takes(p, l, m) \/ Drops(p, l)
        PROVE  CopyKept(p, s)
    BY <2>7, <2>9 DEF Takes, Drops, Passes
  <2>10. ASSUME NEW l \in Pcs, NEW m \in Pcs, NEW n \in 0 .. MaxLinks, NEW h \in Procs \cup {None},
                Updates(p, l, m, n, h)
         PROVE  CopyKept(p, s)
    <3>1. CASE s = ip[p]
      BY <2>10, <3>1 DEF CopyKept
    <3>2. CASE s # ip[p]
      BY <2>1, <2>10, <3>2 DEF Updates, Becomes, Only
    <3> QED
      BY <3>1, <3>2
  <2>11. ASSUME NEW l \in Pcs, NEW m \in Pcs, Frees(p, l, m)
         PROVE  CopyKept(p, s)
    <3>1. ip'[p] = ip[p] /\ pc'[p] \in Freed
      BY <2>11 DEF Frees, Goes, Freed
    <3>2. CASE s = ip[p]
      BY <3>1, <3>2 DEF CopyKept
    <3>3. CASE s # ip[p]
      BY <2>1, <2>11, <3>3 DEF Frees, Becomes, Only
    <3> QED
      BY <3>2, <3>3
  <2>12. ASSUME NEW l \in Pcs, NEW m \in Pcs, Clears(p, l, m)
         PROVE  CopyKept(p, s)
    <3>1. pc[p] \in Freed
      BY <2>12 DEF Clears, Goes, Freed
    <3>2. CASE s = ip[p]
      BY <2>12, <3>1, <3>2 DEF Clears, Becomes, CopyKept
    <3>3. CASE s # ip[p]
      BY <2>1, <2>12, <3>3 DEF Clears, Becomes, Only
    <3> QED
      BY <3>2, <3>3
  <2> QED
    BY <2>2, <2>4, <2>5, <2>6, <2>8, <2>9, <2>10, <2>11, <2>12 DEF Kind, Still
\* The copy of an inode that was freed is made invalid next.
<1>2. ASSUME pc[p] \in Freed
      PROVE  ~itable'[ip[p]].valid
  <2> USE <1>2
  <2> USE DEF Goes, Freed
  <2>1. ~Closes(p) /\ ~Ends(p) /\ (\A m \in Pcs : ~Begins(p, m)) /\ \A l \in Pcs : ~Misses(p, l)
    BY DEF Closes, Ends, Begins, Misses
  <2>2. /\ \A s \in Slots : ~GetsNew(p, s)
        /\ \A i \in Inums : ~Allocates(p, i)
        /\ \A l, m \in Pcs : ~Locks(p, l, m)
    BY DEF GetsNew, Allocates, Locks
  <2>3. \A l, m \in Pcs : ~Takes(p, l, m) /\ ~Frees(p, l, m) /\ ~Drops(p, l)
    BY DEF Takes, Frees, Drops
  <2>4. ~Reads(p) /\ ~HasRead(p) /\ ~Opens(p) /\ ~GivesUp(p) /\ ~Enters(p) /\ ~Fails(p) /\ ~Unnames(p)
    BY DEF Reads, HasRead, Opens, GivesUp, Enters, Fails, Unnames
  <2>5. ASSUME NEW s \in Slots, NEW i \in Inums, NEW l \in Pcs, NEW m \in Pcs, Finds(p, s, i, l, m)
        PROVE  FALSE
    <3>1. pc[p] \in {"open", "create", "link", "unlink"}
      BY <2>5 DEF Finds
    <3> QED
      BY <3>1
  <2>6. ASSUME NEW l \in Pcs, NEW m \in Pcs, NEW n, NEW h, Updates(p, l, m, n, h)
        PROVE  FALSE
    <3>1. pc[p] \in {"created", "linked", "bad", "unlinked"}
      BY <2>6 DEF Updates
    <3> QED
      BY <3>1
  <2>7. ASSUME NEW l \in Pcs, NEW m \in Pcs, Clears(p, l, m)
        PROVE  ~itable'[ip[p]].valid
    BY <2>7 DEF Clears, Becomes
  <2> HIDE DEF Goes, Freed
  <2> QED
    BY <2>1, <2>2, <2>3, <2>4, <2>5, <2>6, <2>7 DEF Kind
<1> SUFFICES ASSUME NEW s \in Slots, itable'[s].ref > 0, itable'[s].valid,
                    \A q \in Procs : pc'[q] \in Freed => ip'[q] # s
             PROVE  /\ dinode'[itable'[s].inum].type # 0
                    /\ itable'[s].type = dinode'[itable'[s].inum].type
                    /\ itable'[s].nlink = dinode'[itable'[s].inum].nlink
  BY DEF CoherInv
<1>3. itable[s].ref > 0
  BY NewSlot
<1>4. itable'[s].inum = itable[s].inum
  BY <1>3, TableFacts DEF SlotKept
<1> DEFINE i == itable[s].inum
<1>5. i \in Inums
  <2>1. i # 0
    BY <1>3 DEF IInv, SlotInv
  <2> QED
    BY <2>1, SMT DEF IInv, Types, Slot, Inums
<1>6. ASSUME NEW q \in Procs, pc[q] \in Freed PROVE ip[q] # s
  <2>1. CASE q # p
    BY <1>6, <2>1 DEF Others
  <2>2. CASE q = p
    BY <1>6, <2>2, <1>2
  <2> QED
    BY <2>1, <2>2
<1>7. ASSUME itable[s].valid
      PROVE  dinode[i].type # 0 /\ itable[s].type = dinode[i].type /\ itable[s].nlink = dinode[i].nlink
  BY <1>3, <1>6, <1>7 DEF IInv, CoherInv
<1>8. ASSUME pc[p] \in Holding, Ino(p) = i PROVE s = ip[p]
  <2>1. ip[p] \in Slots /\ itable[ip[p]].ref > 0
    BY <1>8, HasSlot DEF IInv
  <2> QED
    BY <1>3, <1>8, <2>1 DEF IInv, OneSlot, Ino
<1> HIDE DEF i
<1>9. ASSUME NEW l \in Pcs, NEW m \in Pcs, NEW n \in 0 .. MaxLinks, NEW h \in Procs \cup {None}, Updates(p, l, m, n, h)
      PROVE  dinode'[i].type # 0 /\ itable'[s].type = dinode'[i].type /\ itable'[s].nlink = dinode'[i].nlink
  <2>1. /\ dinode'[Ino(p)].type = dinode[Ino(p)].type /\ dinode'[Ino(p)].nlink = n
        /\ \A j \in Inums : j # Ino(p) => dinode'[j] = dinode[j]
        /\ pc[p] \in {"created", "linked", "bad", "unlinked"}
    BY <1>9, UpdateDisk, ZenonT(30)
  <2>2. Becomes(ip[p], itable[ip[p]].ref, itable[ip[p]].valid, itable[ip[p]].type, n, h)
    BY <1>9 DEF Updates
  <2>3. CASE s = ip[p]
    <3>1. itable[s].valid /\ itable'[s].type = itable[s].type /\ itable'[s].nlink = n
      BY <2>2, <2>3 DEF Becomes
    <3>2. i = Ino(p)
      BY <2>3 DEF i, Ino
    <3> QED
      BY <1>7, <2>1, <3>1, <3>2
  <2>4. CASE s # ip[p]
    <3>1. itable'[s] = itable[s]
      BY <2>2, <2>4 DEF Becomes, Only
    <3>2. pc[p] \in Holding
      BY <2>1 DEF Holding
    <3>3. dinode'[i] = dinode[i]
      BY <1>5, <1>8, <2>1, <2>4, <3>2
    <3> QED
      BY <1>7, <3>1, <3>3
  <2> QED
    BY <2>3, <2>4
<1>10. ASSUME ~\E l, m \in Pcs, n \in 0 .. MaxLinks, h \in Procs \cup {None} : Updates(p, l, m, n, h)
      PROVE  dinode'[i].type # 0 /\ itable'[s].type = dinode'[i].type /\ itable'[s].nlink = dinode'[i].nlink
  <2>1. DiskKept(p, i)
    BY <1>5, DiskStep
  <2>2. dinode'[i].nlink = dinode[i].nlink
    BY <1>10, <2>1, CountKinds DEF DiskKept
  <2>3. ASSUME dinode[i].type # 0 PROVE dinode'[i].type # 0
    <3> SUFFICES ASSUME dinode'[i].type = 0 PROVE FALSE
      OBVIOUS
    <3>1. pc[p] \in Freeing /\ pc'[p] \in Freed /\ i = Ino(p)
      BY <2>1, <2>3 DEF DiskKept
    <3>2. pc[p] \in Holding
      BY <3>1 DEF Freeing, Holding
    <3>3. ip'[p] = ip[p]
      BY <3>1, FreedKinds
    <3> QED
      BY <1>8, <3>1, <3>2, <3>3
  <2>4. dinode[i].type \in {0, 1} /\ dinode'[i].type \in {0, 1}
    <3>1. dinode \in Disk /\ dinode' \in Disk
      BY DiskStep DEF IInv, Types
    <3> QED
      BY <1>5, <3>1, SMT DEF Disk
  <2>5. dinode[i].type # 0 => dinode'[i].type = dinode[i].type
    BY <2>3, <2>4
  <2>6. ASSUME itable[s].valid, itable'[s].type = itable[s].type, itable'[s].nlink = itable[s].nlink
        PROVE  dinode'[i].type # 0 /\ itable'[s].type = dinode'[i].type /\ itable'[s].nlink = dinode'[i].nlink
    BY <1>7, <2>2, <2>3, <2>5, <2>6
  <2>7. CASE Lock(p, s) /\ UNCHANGED dinode /\ ((s = ip[p] /\ pc[p] \in Using) \/ (file[p] # None /\ s = file[p][1]))
    <3>1. CASE itable[s].valid
      BY <2>6, <2>7, <3>1 DEF Lock
    <3>2. CASE ~itable[s].valid
      <4>1. itable'[s].type = dinode[i].type /\ itable'[s].nlink = dinode[i].nlink
        BY <2>7, <3>2 DEF Lock, i
      <4>2. dinode[i].type # 0
        BY <2>7 DEF IInv, LiveInv, OpenFileLive, Ino, i
      <4> QED
        BY <2>7, <4>1, <4>2
    <3> QED
      BY <3>1, <3>2
  <2>8. CopyKept(p, s)
    BY <1>3, <1>1
  <2> QED
    BY <1>6, <1>10, <2>6, <2>7, <2>8 DEF CopyKept
<1> QED
  BY <1>4, <1>9, <1>10 DEF i
-----------------------------------------------------------------------------
(* The link counts.                                                        *)

\* Every step keeps the link counts in line with the entries.
LEMMA LinksStep ==
  ASSUME IInv, NEW p \in Procs, Kind(p), Others(p)
  PROVE  LinksInv'
\* The other steps leave a process where it was with respect to the entries.
<1>1. ASSUME ~Enters(p), ~Unnames(p),
             ~\E l, m \in Pcs, n \in 0 .. MaxLinks, h \in Procs \cup {None} : Updates(p, l, m, n, h)
      PROVE  /\ pc[p] \in Ahead <=> pc'[p] \in Ahead
             /\ pc[p] \in Ahead => ip'[p] = ip[p]
             /\ entries' = entries
  <2> USE <1>1
  <2> DEFINE Good == /\ pc[p] \in Ahead <=> pc'[p] \in Ahead
                     /\ pc[p] \in Ahead => ip'[p] = ip[p]
                     /\ entries' = entries
  <2> SUFFICES Good
    OBVIOUS
  <2> USE DEF Goes, Ahead
  <2>1. CASE (\E m \in Pcs : Begins(p, m)) \/ Closes(p) \/ Ends(p) \/ (\E l \in Pcs : Misses(p, l))
    BY <2>1 DEF Begins, Closes, Ends, Misses
  <2>2. CASE (\E s \in Slots : GetsNew(p, s)) \/ \E i \in Inums : Allocates(p, i)
    BY <2>2 DEF GetsNew, Allocates
  <2>3. ASSUME NEW s \in Slots, NEW i \in Inums, NEW l \in Pcs, NEW m \in Pcs, Finds(p, s, i, l, m)
        PROVE  Good
    <3>1. /\ pc[p] \in {"open", "create", "link", "unlink"} /\ entries' = entries
          /\ pc'[p] \in {"ilock_open", "ilock_link", "ilock_unlink"}
      BY <2>3 DEF Finds
    <3> QED
      BY <3>1
  <2>4. ASSUME NEW l \in Pcs, NEW m \in Pcs, Locks(p, l, m)
        PROVE  Good
    BY <2>4 DEF Locks
  <2>5. CASE Reads(p) \/ HasRead(p) \/ Opens(p) \/ GivesUp(p) \/ Fails(p)
    BY <2>5 DEF Reads, HasRead, Opens, GivesUp, Fails
  <2>6. ASSUME NEW l \in Pcs, NEW m \in Pcs, Takes(p, l, m) \/ Frees(p, l, m) \/ Clears(p, l, m)
        PROVE  Good
    BY <2>6 DEF Takes, Frees, Clears
  <2>7. ASSUME NEW l \in Pcs, Drops(p, l)
        PROVE  Good
    <3>1. pc[p] \in {"iput", "iput_fail", "idrop", "idrop_fail"} /\ pc'[p] = "end" /\ entries' = entries
      BY <2>7 DEF Drops
    <3> QED
      BY <3>1
  <2> HIDE DEF Goes, Ahead, Good
  <2> QED
    BY <2>1, <2>2, <2>3, <2>4, <2>5, <2>6, <2>7 DEF Kind
\* The link count stays what the entries and the processes ahead of them say.
<1>2. ASSUME NEW i \in Inums
      PROVE  dinode'[i].nlink = entries'[i] + Cardinality(Pending(i)')
  <2> USE <1>2
  \* The processes ahead of the entries of i, p apart, are the same.
  <2>1. LET now == pc[p] \in Ahead /\ Ino(p) = i
            then == pc'[p] \in Ahead /\ Ino(p)' = i
        IN  /\ Cardinality(Pending(i)) \in Nat
            /\ (then /\ ~now => Cardinality(Pending(i)') = Cardinality(Pending(i)) + 1)
            /\ (now /\ ~then => Cardinality(Pending(i)') = Cardinality(Pending(i)) - 1)
            /\ ((now <=> then) => Cardinality(Pending(i)') = Cardinality(Pending(i)))
    <3> DEFINE now == pc[p] \in Ahead /\ Ino(p) = i
               then == pc'[p] \in Ahead /\ Ino(p)' = i
               P == Pending(i)
               Q == Pending(i)'
    <3>1. ASSUME NEW q \in Procs, q # p PROVE q \in P <=> q \in Q
      <4>1. pc'[q] = pc[q]
        BY <3>1 DEF Others
      <4>2. pc[q] \in Ahead => pc[q] \in Holding
        BY DEF Ahead, Holding
      <4>3. pc[q] \in Ahead => Ino(q)' = Ino(q)
        BY <3>1, <4>2, InoStep
      <4> QED
        BY <4>1, <4>3 DEF Pending
    <3>2. (p \in P <=> now) /\ (p \in Q <=> then) /\ P \subseteq Procs /\ Q \subseteq Procs
      BY DEF Pending
    <3> HIDE DEF P, Q, now, then
    <3>3. (then => Q = P \cup {p}) /\ (~then => Q = P \ {p})
      BY <3>1, <3>2
    <3>4. /\ Cardinality(P) \in Nat
          /\ (~now => Cardinality(P \cup {p}) = Cardinality(P) + 1 /\ P \ {p} = P)
          /\ (now => Cardinality(P \ {p}) = Cardinality(P) - 1 /\ P \cup {p} = P)
      BY <3>2, Counting
    <3>5. /\ Cardinality(P) \in Nat
          /\ (then /\ ~now => Cardinality(Q) = Cardinality(P) + 1)
          /\ (now /\ ~then => Cardinality(Q) = Cardinality(P) - 1)
          /\ ((now <=> then) => Cardinality(Q) = Cardinality(P))
      BY <3>3, <3>4
    <3> QED
      BY <3>5 DEF P, Q, now, then
  <2> DEFINE now == pc[p] \in Ahead /\ Ino(p) = i
             then == pc'[p] \in Ahead /\ Ino(p)' = i
             c == Cardinality(Pending(i))
             d == Cardinality(Pending(i)')
  <2>2. /\ c \in Nat /\ (then /\ ~now => d = c + 1) /\ (now /\ ~then => d = c - 1)
        /\ ((now <=> then) => d = c)
    BY <2>1
  <2>3. dinode[i].nlink = entries[i] + c
    BY DEF IInv, LinksInv
  <2>4. entries[i] \in Nat /\ dinode[i].nlink \in Nat
    BY NoLinks DEF IInv
  <2> HIDE DEF c, d
  <2>5. ASSUME NEW l \in Pcs, NEW m \in Pcs, NEW n \in 0 .. MaxLinks, NEW h, Updates(p, l, m, n, h)
        PROVE  dinode'[i].nlink = entries'[i] + d
    <3>1. /\ dinode'[Ino(p)].nlink = n /\ \A j \in Inums : j # Ino(p) => dinode'[j] = dinode[j]
          /\ pc[p] = l /\ l \in {"created", "linked", "bad", "unlinked"}
      BY <2>5, UpdateDisk, ZenonT(30)
    <3>2. pc'[p] = m /\ ip'[p] = ip[p]
      BY <2>5 DEF Updates, Goes
    <3>3. pc[p] \in Holding /\ pc[p] \in Locking \ Freed
      BY <3>1 DEF Holding, Locking, Freed
    <3>4. Ino(p)' = Ino(p) /\ Ino(p) \in Inums /\ itable[ip[p]].nlink = dinode[Ino(p)].nlink
      BY <3>2, <3>3, InoStep, LockedSlot
    <3>5. CASE i # Ino(p)
      <4>1. dinode'[i] = dinode[i] /\ entries'[i] = entries[i]
        BY <3>1, <3>5, DiskStep DEF DiskKept
      <4>2. d = c
        BY <2>2, <3>4, <3>5
      <4> QED
        BY <2>3, <4>1, <4>2
    <3>6. CASE i = Ino(p) /\ l = "created" /\ m = "opened"
      <4>1. n = 1 /\ entries' = [entries EXCEPT ![Ino(p)] = entries[Ino(p)] + 1]
        BY <2>5, <3>6 DEF Updates
      <4>2. entries'[Ino(p)] = entries[Ino(p)] + 1
        BY <3>1, <3>6, <4>1, EntriesChange
      <4>3. entries[i] = 0 /\ dinode[i].nlink = 0
        BY <3>1, <3>6, EntryRange
      <4>4. d = c
        BY <2>2, <3>1, <3>2, <3>6 DEF Ahead
      <4>5. dinode'[i].nlink = 1 /\ entries'[i] = entries[i] + 1
        BY <3>1, <3>6, <4>1, <4>2
      <4> QED
        BY <2>2, <2>3, <2>4, <4>3, <4>4, <4>5, SMT
    <3>7. CASE i = Ino(p) /\ l = "created" /\ m = "iput_fail"
      <4>1. n = 0 /\ entries' = entries
        BY <2>5, <3>7 DEF Updates
      <4>2. dinode[i].nlink = 0
        BY <3>1, <3>7, EntryRange
      <4>3. d = c
        BY <2>2, <3>1, <3>2, <3>7 DEF Ahead
      <4> QED
        BY <2>3, <3>1, <3>7, <4>1, <4>2, <4>3
    <3>8. CASE i = Ino(p) /\ l = "linked" /\ m = "dirlink"
      <4>1. n = itable[ip[p]].nlink + 1 /\ entries' = entries
        BY <2>5, <3>8 DEF Updates
      <4>2. d = c + 1
        BY <2>2, <3>1, <3>2, <3>4, <3>8 DEF Ahead
      <4>3. dinode'[i].nlink = dinode[i].nlink + 1
        BY <3>1, <3>4, <3>8, <4>1
      <4> QED
        BY <2>2, <2>3, <2>4, <4>1, <4>2, <4>3, SMT
    <3>9. CASE i = Ino(p) /\ l \in {"bad", "unlinked"} /\ m = "iput"
      <4>1. n = itable[ip[p]].nlink - 1 /\ entries' = entries
        BY <2>5, <3>9 DEF Updates
      <4>2. d = c - 1
        BY <2>2, <3>1, <3>2, <3>9 DEF Ahead
      <4>3. dinode'[i].nlink = dinode[i].nlink - 1
        BY <3>1, <3>4, <3>9, <4>1
      <4> QED
        BY <2>2, <2>3, <2>4, <4>1, <4>2, <4>3, SMT
    <3>10. \/ l = "created" /\ m \in {"opened", "iput_fail"}
           \/ l = "linked" /\ m = "dirlink"
           \/ l \in {"bad", "unlinked"} /\ m = "iput"
      BY <2>5 DEF Updates
    <3> QED
      BY <3>5, <3>6, <3>7, <3>8, <3>9, <3>10
  <2>6. ASSUME Enters(p) PROVE dinode'[i].nlink = entries'[i] + d
    <3>1. /\ pc[p] = "dirlink" /\ pc'[p] = "iput" /\ dinode' = dinode
          /\ entries' = [entries EXCEPT ![Ino(p)] = entries[Ino(p)] + 1]
      BY <2>6 DEF Enters, Goes
    <3>2. /\ entries'[Ino(p)] = entries[Ino(p)] + 1
          /\ \A j \in Inums : j # Ino(p) => entries'[j] = entries[j]
      BY <3>1, EntriesChange
    <3>3. pc[p] \in Ahead /\ pc'[p] \notin Ahead
      BY <3>1 DEF Ahead
    <3>4. CASE i = Ino(p)
      <4>1. d = c - 1
        BY <2>2, <3>3, <3>4
      <4>2. entries'[i] = entries[i] + 1
        BY <3>2, <3>4
      <4> QED
        BY <2>2, <2>3, <2>4, <3>1, <4>1, <4>2, SMT
    <3>5. CASE i # Ino(p)
      BY <2>2, <2>3, <3>1, <3>2, <3>3, <3>5
    <3> QED
      BY <3>4, <3>5
  <2>7. ASSUME Unnames(p) PROVE dinode'[i].nlink = entries'[i] + d
    <3>1. /\ pc[p] = "unlinking" /\ pc'[p] = "unlinked" /\ dinode' = dinode /\ ip'[p] = ip[p]
          /\ entries' = [entries EXCEPT ![Ino(p)] = entries[Ino(p)] - 1]
      BY <2>7 DEF Unnames, Goes
    <3>2. /\ entries'[Ino(p)] = entries[Ino(p)] - 1
          /\ \A j \in Inums : j # Ino(p) => entries'[j] = entries[j]
      BY <3>1, EntriesChange
    <3>3. pc[p] \notin Ahead /\ pc'[p] \in Ahead /\ pc[p] \in Holding
      BY <3>1 DEF Ahead, Holding
    <3>4. Ino(p)' = Ino(p)
      BY <3>1, <3>3, InoStep
    <3>5. CASE i = Ino(p)
      <4>1. d = c + 1
        BY <2>2, <3>3, <3>4, <3>5
      <4>2. entries'[i] = entries[i] - 1
        BY <3>2, <3>5
      <4> QED
        BY <2>2, <2>3, <2>4, <3>1, <4>1, <4>2, SMT
    <3>6. CASE i # Ino(p)
      BY <2>2, <2>3, <3>1, <3>2, <3>3, <3>4, <3>6
    <3> QED
      BY <3>5, <3>6
  <2>8. ASSUME ~Enters(p), ~Unnames(p),
               ~\E l, m \in Pcs, n \in 0 .. MaxLinks, h \in Procs \cup {None} : Updates(p, l, m, n, h)
        PROVE  dinode'[i].nlink = entries'[i] + d
    <3>1. /\ pc[p] \in Ahead <=> pc'[p] \in Ahead
          /\ pc[p] \in Ahead => ip'[p] = ip[p]
          /\ entries' = entries
      BY <2>8, <1>1
    <3>2. pc[p] \in Ahead => Ino(p)' = Ino(p)
      BY <3>1, InoStep DEF Ahead, Holding
    <3>3. d = c
      BY <2>2, <3>1, <3>2
    <3>4. dinode'[i].nlink = dinode[i].nlink
      BY <2>8, CountKinds, DiskStep DEF DiskKept
    <3> QED
      BY <2>3, <3>1, <3>3, <3>4
  <2> QED
    BY <2>5, <2>6, <2>7, <2>8 DEF d
\* An entry that unlink() has found stays until it removes it itself, and a link
\* count that link() has found below the bound stays below it until it adds one.
<1>3. ASSUME NEW q \in Procs
      PROVE  /\ pc'[q] \in {"ilock_unlink", "unlinking"} => entries'[Ino(q)'] > 0
             /\ pc'[q] = "linked" => dinode'[Ino(q)'].nlink < MaxLinks
  <2> USE <1>3
  <2>1. ASSUME q # p, pc'[q] \in {"ilock_unlink", "unlinking"} PROVE entries'[Ino(q)'] > 0
    <3>1. pc[q] = pc'[q] /\ pc[q] \in {"ilock_unlink", "unlinking"}
      BY <2>1 DEF Others
    <3>2. pc[q] \in Holding /\ pc[q] \in InDir
      BY <3>1 DEF Holding, InDir
    <3>3. Ino(q)' = Ino(q) /\ Ino(q) \in Inums /\ entries[Ino(q)] > 0
      <4>1. Ino(q)' = Ino(q)
        BY <2>1, <3>2, InoStep
      <4>2. Ino(q) \in Inums
        BY <3>2, HasSlot DEF IInv
      <4> QED
        BY <3>1, <4>1, <4>2 DEF IInv, LinksInv
    <3>4. dirlock = q /\ pc[p] \notin InDir
      BY <2>1, <3>2 DEF IInv, ControlInv
    <3>5. ASSUME entries'[Ino(q)] # entries[Ino(q)] PROVE entries'[Ino(q)] > 0
      <4>1. pc[p] = "dirlink" /\ Ino(q) = Ino(p)
        BY <3>3, <3>4, <3>5, DiskStep DEF DiskKept, InDir
      <4>2. Enters(p)
        <5>1. entries' # entries
          BY <3>5
        <5>2. ~Unnames(p)
          BY <4>1 DEF Unnames, Goes
        <5>3. \A l, m \in Pcs, n \in 0 .. MaxLinks, h \in Procs \cup {None} : ~Updates(p, l, m, n, h)
          BY <4>1, UpdateDisk
        <5> QED
          BY <5>1, <5>2, <5>3, <1>1
      <4>3. entries' = [entries EXCEPT ![Ino(p)] = entries[Ino(p)] + 1]
        BY <4>2 DEF Enters
      <4>4. entries'[Ino(p)] = entries[Ino(p)] + 1
        BY <4>1, <4>3, EntriesChange
      <4>5. entries[Ino(p)] \in Nat
        BY <4>1, EntryRange
      <4>6. entries[Ino(p)] + 1 > 0
        BY <4>5, SMT
      <4> QED
        BY <4>1, <4>4, <4>6
    <3> QED
      BY <3>3, <3>5
  <2>2. ASSUME pc'[p] = "ilock_unlink" PROVE entries'[Ino(p)'] > 0
    <3>1. PICK i \in Inums : /\ Get(p, ip'[p], i) /\ ip'[p] \in Slots
                             /\ \/ entries[i] > 0 /\ dirlock = None /\ pc'[p] # "ilock_new"
                                \/ i = inum[p] /\ pc[p] = "iget_new" /\ pc'[p] = "ilock_new"
                             /\ UNCHANGED <<dinode, entries, file>>
      BY <2>2, FetchGets DEF Fetching
    <3>2. entries[i] > 0 /\ entries' = entries
      BY <2>2, <3>1
    <3>3. Ino(p)' = i
      BY <3>1 DEF Get, Ino
    <3> QED
      BY <3>2, <3>3
  <2>3. ASSUME pc'[p] \in {"unlinking", "linked"}
        PROVE  /\ pc'[p] = "unlinking" => entries'[Ino(p)'] > 0
               /\ pc'[p] = "linked" => dinode'[Ino(p)'].nlink < MaxLinks
    <3>1. PICK l, m \in Pcs : Locks(p, l, m)
      BY <2>3, LockedKinds
    <3>2. ip' = ip /\ entries' = entries /\ dinode' = dinode /\ pc[p] = l /\ pc'[p] = m
      BY <3>1 DEF Locks, Goes
    <3>3. \/ l = "ilock_unlink" /\ m = "unlinking"
          \/ l = "ilock_link" /\ m = "linked" /\ dinode[Ino(p)].nlink < MaxLinks
      BY <2>3, <3>1, <3>2 DEF Locks
    <3>4. pc[p] \in Holding
      BY <3>2, <3>3 DEF Holding
    <3>5. Ino(p)' = Ino(p)
      BY <3>2, <3>4, InoStep
    <3> QED
      BY <3>2, <3>3, <3>5 DEF IInv, LinksInv
  <2>4. ASSUME q # p, pc'[q] = "linked" PROVE dinode'[Ino(q)'].nlink < MaxLinks
    <3>1. pc[q] = "linked" /\ pc[q] \in Holding /\ pc[q] \in Locking \ Freed
      BY <2>4 DEF Others, Holding, Locking, Freed
    <3>2. Ino(q)' = Ino(q) /\ Ino(q) \in Inums /\ itable[ip[q]].lock = q
      <4>1. Ino(q)' = Ino(q)
        BY <2>4, <3>1, InoStep
      <4>2. Ino(q) \in Inums /\ itable[ip[q]].lock = q
        BY <3>1, LockedSlot
      <4> QED
        BY <4>1, <4>2
    <3>3. dinode[Ino(q)].nlink < MaxLinks
      BY <3>1 DEF IInv, LinksInv
    <3>4. ASSUME dinode'[Ino(q)].nlink # dinode[Ino(q)].nlink PROVE FALSE
      <4>1. pc[p] \in {"created", "linked", "bad", "unlinked"} /\ Ino(q) = Ino(p)
        BY <3>2, <3>4, DiskStep DEF DiskKept
      <4>2. pc[p] \in Holding /\ pc[p] \in Locking \ Freed
        BY <4>1 DEF Holding, Locking, Freed
      <4>3. ip[q] = ip[p]
        BY <3>1, <4>1, <4>2, SameSlot
      <4>4. itable[ip[p]].lock = p
        BY <4>2, LockedSlot
      <4> QED
        BY <2>4, <3>2, <4>3, <4>4
    <3> QED
      BY <3>2, <3>3, <3>4
  <2> QED
    BY <2>1, <2>2, <2>3, <2>4
<1>4. \A i \in Inums : dinode'[i].nlink = entries'[i] + Cardinality(Pending(i)')
  BY <1>2
<1>5. \A q \in Procs : /\ pc'[q] \in {"ilock_unlink", "unlinking"} => entries'[Ino(q)'] > 0
                       /\ pc'[q] = "linked" => dinode'[Ino(q)'].nlink < MaxLinks
  BY <1>3
<1> QED
  BY <1>4, <1>5 DEF LinksInv
-----------------------------------------------------------------------------
(* What is durable.                                                        *)

\* When nobody is inside an operation the link counts are the entries.
LEMMA Quiet ==
  ASSUME IInv, \A q \in Procs : pc[q] \notin Ahead, NEW i \in Inums
  PROVE  dinode[i].nlink = entries[i] /\ (entries[i] > 0 => dinode[i].type # 0)
<1>1. Pending(i) = {}
  BY DEF Pending
<1>2. Cardinality(Pending(i)) = 0
  BY <1>1, FS_EmptySet
<1>3. dinode[i].nlink = entries[i] + Cardinality(Pending(i)) /\ (entries[i] > 0 => dinode[i].type # 0)
  BY DEF IInv, LinksInv, LiveInv
<1>4. entries[i] \in Nat
  BY NoLinks DEF IInv
<1> HIDE DEF Pending
<1> QED
  BY <1>2, <1>3, <1>4, SMT

\* What end_op() commits, and what is there between operations, is consistent.
LEMMA DurableStep ==
  ASSUME IInv, NEW p \in Procs, Kind(p), Others(p)
  PROVE  DurableInv'
\* Only end_op() leaves an operation; a file is read outside of any.
<1>1. ASSUME pc'[p] \in Outside
      PROVE  Ends(p) \/ Reads(p) \/ HasRead(p)
  <2> USE <1>1
  <2> USE DEF Outside, Goes
  <2>1. /\ ~Closes(p) /\ (\A m \in Pcs : ~Begins(p, m)) /\ \A l \in Pcs : ~Misses(p, l) /\ ~Drops(p, l)
    BY DEF Closes, Begins, Misses, Drops
  <2>2. \A l, m \in Pcs : ~Locks(p, l, m) /\ ~Takes(p, l, m)
    BY DEF Locks, Takes
  <2>3. \A l, m \in Pcs : ~Frees(p, l, m) /\ ~Clears(p, l, m)
    BY DEF Frees, Clears
  <2>4. ~Opens(p) /\ ~GivesUp(p) /\ ~Enters(p) /\ ~Fails(p) /\ ~Unnames(p)
    BY DEF Opens, GivesUp, Enters, Fails, Unnames
  <2>5. (\A i \in Inums : ~Allocates(p, i)) /\ \A s \in Slots : ~GetsNew(p, s)
    BY DEF Allocates, GetsNew
  <2>6. \A s \in Slots, i \in Inums, l, m \in Pcs : ~Finds(p, s, i, l, m)
    BY DEF Finds
  <2>7. ASSUME NEW l \in Pcs, NEW m \in Pcs, NEW n, NEW h, Updates(p, l, m, n, h)
        PROVE  FALSE
    BY <2>7 DEF Updates
  <2> QED
    BY <2>1, <2>2, <2>4, <2>5, <2>6, <2>7, <2>3 DEF Kind
\* Nothing is committed but by end_op().
<1>2. ASSUME ~Ends(p)
      PROVE  durable' = durable
  <2> USE <1>2
  <2>1. (\A m \in Pcs : Begins(p, m) => durable' = durable) /\ (Closes(p) => durable' = durable)
    BY DEF Begins, Closes
  <2>2. \A l \in Pcs : Misses(p, l) \/ Drops(p, l) => durable' = durable
    BY DEF Misses, Drops
  <2>3. \A l, m \in Pcs : Locks(p, l, m) \/ Takes(p, l, m) => durable' = durable
    BY DEF Locks, Takes
  <2>4. \A l, m \in Pcs : Frees(p, l, m) \/ Clears(p, l, m) => durable' = durable
    BY DEF Frees, Clears
  <2>5. Reads(p) \/ HasRead(p) \/ Opens(p) \/ GivesUp(p) => durable' = durable
    BY DEF Reads, HasRead, Opens, GivesUp
  <2>6. Enters(p) \/ Fails(p) \/ Unnames(p) => durable' = durable
    BY DEF Enters, Fails, Unnames
  <2>7. /\ (\A i \in Inums : Allocates(p, i) => durable' = durable)
        /\ \A s \in Slots : GetsNew(p, s) => durable' = durable
    BY DEF Allocates, GetsNew
  <2>8. \A s \in Slots, i \in Inums, l, m \in Pcs : Finds(p, s, i, l, m) => durable' = durable
    BY DEF Finds
  <2>9. ASSUME NEW l \in Pcs, NEW m \in Pcs, NEW n, NEW h, Updates(p, l, m, n, h)
        PROVE  durable' = durable
    BY <2>9 DEF Updates
  <2> QED
    BY <2>1, <2>2, <2>3, <2>4, <2>5, <2>6, <2>7, <2>8, <2>9 DEF Kind
<1>3. CASE ~Ends(p)
  <2>1. durable' = durable
    BY <1>3, <1>2
  <2>2. DurableConsistent'
    BY <2>1 DEF IInv, DurableInv, DurableConsistent
  <2>3. ASSUME outstanding' = {} PROVE durable' = <<dinode', entries'>>
    <3>1. pc'[p] \in Outside
      BY <2>3, SettledStep DEF Settled
    <3>2. Reads(p) \/ HasRead(p)
      BY <1>3, <3>1, <1>1
    <3>3. outstanding' = outstanding /\ dinode' = dinode /\ entries' = entries
      BY <3>2 DEF Reads, HasRead
    <3> QED
      BY <2>1, <2>3, <3>3 DEF IInv, DurableInv
  <2> QED
    BY <2>2, <2>3 DEF DurableInv
<1>4. CASE Ends(p)
  <2>1. /\ pc[p] = "end" /\ outstanding' = outstanding \ {p} /\ dinode' = dinode /\ entries' = entries
        /\ durable' = IF outstanding = {p} THEN <<dinode, entries>> ELSE durable
    BY <1>4 DEF Ends, Goes
  <2>2. p \in outstanding
    BY <2>1 DEF IInv, ControlInv, Outside
  <2>3. CASE outstanding = {p}
    <3>1. durable' = <<dinode', entries'>> /\ durable'[1] = dinode /\ durable'[2] = entries
      BY <2>1, <2>3
    <3>2. ASSUME NEW q \in Procs PROVE pc[q] \notin Ahead
      BY <2>1, <2>3, <3>2 DEF IInv, ControlInv, Outside, Ahead
    <3>3. \A i \in Inums : dinode[i].nlink = entries[i] /\ (entries[i] > 0 => dinode[i].type # 0)
      BY <3>2, Quiet
    <3> QED
      BY <3>1, <3>3 DEF DurableInv, DurableConsistent
  <2>4. CASE outstanding # {p}
    <3>1. durable' = durable /\ outstanding' # {}
      BY <2>1, <2>2, <2>4
    <3> QED
      BY <3>1 DEF IInv, DurableInv, DurableConsistent
  <2> QED
    BY <2>3, <2>4
<1> QED
  BY <1>3, <1>4

\* Processes run only when the boot is over, one at a time.
LEMMA RunKinds ==
  ASSUME NEW p \in Procs, Kind(p)
  PROVE  Others(p) /\ ~Booting /\ reclaimed' = reclaimed
<1> DEFINE Runs == Others(p) /\ ~Booting /\ reclaimed' = reclaimed
<1> SUFFICES Runs
  OBVIOUS
<1>1. (\A m \in Pcs : Begins(p, m) => Runs) /\ (Closes(p) => Runs) /\ (Ends(p) => Runs)
  BY DEF Begins, Closes, Ends, Goes
<1>2. \A l \in Pcs : Misses(p, l) \/ Drops(p, l) => Runs
  BY DEF Misses, Drops, Goes
<1>3. \A l, m \in Pcs : Locks(p, l, m) \/ Takes(p, l, m) => Runs
  BY DEF Locks, Takes, Goes
<1>4. \A l, m \in Pcs : Frees(p, l, m) \/ Clears(p, l, m) => Runs
  BY DEF Frees, Clears, Goes
<1>5. Reads(p) \/ HasRead(p) \/ Opens(p) \/ GivesUp(p) => Runs
  BY DEF Reads, HasRead, Opens, GivesUp, Goes
<1>6. Enters(p) \/ Fails(p) \/ Unnames(p) => Runs
  BY DEF Enters, Fails, Unnames, Goes
<1>7. (\A i \in Inums : Allocates(p, i) => Runs) /\ \A s \in Slots : GetsNew(p, s) => Runs
  BY DEF Allocates, GetsNew, Goes
<1>8. \A s \in Slots, i \in Inums, l, m \in Pcs : Finds(p, s, i, l, m) => Runs
  BY DEF Finds, Goes
<1>9. ASSUME NEW l \in Pcs, NEW m \in Pcs, NEW n, NEW h, Updates(p, l, m, n, h)
      PROVE  Runs
  BY <1>9 DEF Updates, Goes
<1> HIDE DEF Runs
<1> QED
  BY <1>1, <1>2, <1>3, <1>4, <1>5, <1>6, <1>7, <1>8, <1>9 DEF Kind

\* Every step of a process preserves the invariant.
LEMMA StepInv ==
  ASSUME IInv, NEW p \in Procs, Step(p)
  PROVE  IInv'
<1>1. Kind(p) /\ itable' \in [Slots -> Slot] /\ Types
  BY StepKinds DEF IInv
<1>2. Others(p) /\ ~Booting /\ reclaimed' = reclaimed
  BY <1>1, RunKinds
<1>3. Shaped
  BY <1>1, Shapes
<1>4. Types'
  BY <1>1, <1>2, <1>3, TypesStep
<1>5. ControlInv' /\ LockInv' /\ RefExact'
  BY <1>1, <1>2, ControlStep, LockStep, RefStep
<1>6. SlotInv' /\ OneSlot' /\ OpenFileLive' /\ LiveInv'
  BY <1>1, <1>2, SlotsStep, LiveStep
<1>7. FreshInv' /\ FreeInv' /\ ValidInv'
  BY <1>1, <1>2, FreshStep, FreeStep, ValidStep
<1>8. CoherInv' /\ LinksInv' /\ DurableInv'
  BY <1>1, <1>2, CoherStep, LinksStep, DurableStep
<1>9. BootInv'
  BY <1>2 DEF BootInv, Booting
<1> QED
  BY <1>4, <1>5, <1>6, <1>7, <1>8, <1>9 DEF IInv
-----------------------------------------------------------------------------
(* Boot and crash.                                                         *)

\* Nobody does anything: as after mkfs, after a crash, and while ireclaim() runs.
Clean ==
  /\ dinode \in Disk /\ entries \in Names /\ durable = <<dinode, entries>>
  /\ \A i \in Inums : dinode[i].nlink = entries[i] /\ (entries[i] > 0 => dinode[i].type # 0)
  /\ itable \in [Slots -> Slot]
  /\ \A s \in Slots : itable[s].ref = 0 /\ itable[s].lock = None
  /\ dirlock = None /\ outstanding = {}
  /\ pc \in [Procs -> Pcs] /\ ip \in [Procs -> Slots \cup {None}] /\ inum \in [Procs -> 0 .. ninodes]
  /\ file \in [Procs -> (Slots \X Inums) \cup {None}]
  /\ \A p \in Procs : pc[p] = "user" /\ file[p] = None /\ ip[p] = None /\ inum[p] = 0
  /\ reclaimed \in 1 .. ninodes + 1
  /\ \A i \in Inums : i < reclaimed => dinode[i].type = 0 \/ dinode[i].nlink > 0

\* When nobody does anything the invariant says only that the disk is consistent.
LEMMA CleanInv == Clean => IInv
<1> SUFFICES ASSUME Clean PROVE IInv
  OBVIOUS
<1>1. \A p \in Procs : pc[p] = "user" /\ file[p] = None /\ ip[p] = None /\ inum[p] = 0
  BY DEF Clean
<1>2. None \notin Procs /\ None \notin Slots
  BY NoneAssumption
<1>3. \A p \in Procs : /\ pc[p] \notin Holding /\ pc[p] \notin Locking /\ pc[p] \notin InDir
                       /\ pc[p] \notin NoFile /\ pc[p] \notin Ahead /\ pc[p] \in Outside
                       /\ pc[p] \notin Using /\ pc[p] \notin Freed /\ pc[p] \notin Freeing
                       /\ pc[p] \notin {"iget_new", "ilock_new", "created", "ilock_unlink",
                                        "unlinking", "linked", "reading"}
  BY <1>1 DEF Holding, Locking, InDir, NoFile, Ahead, Outside, Using, Freed, Freeing
<1>4. \A s \in Slots : itable[s].ref = 0 /\ itable[s].lock = None /\ ~(itable[s].ref > 0)
  <2>1. ~(0 > 0)
    BY SMT
  <2> QED
    BY <2>1 DEF Clean
<1>5. Types
  BY DEF Clean, Types
<1>6. ControlInv
  BY <1>1, <1>2, <1>3 DEF Clean, ControlInv
<1>7. LockInv
  BY <1>2, <1>3, <1>4 DEF LockInv
<1>8. RefExact
  <2> SUFFICES ASSUME NEW s \in Slots
               PROVE  itable[s].ref = Cardinality({p \in Procs : ip[p] = s})
                        + Cardinality({p \in Procs : file[p] # None /\ file[p][1] = s})
    BY DEF RefExact
  <2>1. {p \in Procs : ip[p] = s} = {} /\ {p \in Procs : file[p] # None /\ file[p][1] = s} = {}
    BY <1>1, <1>2
  <2>2. Cardinality({}) = 0
    BY FS_EmptySet
  <2>3. 0 = 0 + 0
    BY SMT
  <2> QED
    BY <1>4, <2>1, <2>2, <2>3
<1>9. SlotInv /\ OneSlot /\ CoherInv
  BY <1>4 DEF SlotInv, OneSlot, CoherInv
<1>10. OpenFileLive /\ LiveInv
  BY <1>1, <1>3 DEF OpenFileLive, LiveInv, Clean
<1>11. FreshInv /\ FreeInv /\ ValidInv
  BY <1>1, <1>3 DEF FreshInv, FreeInv, ValidInv
<1>12. LinksInv
  <2>1. ASSUME NEW i \in Inums PROVE dinode[i].nlink = entries[i] + Cardinality(Pending(i))
    <3>1. Pending(i) = {}
      BY <1>3 DEF Pending
    <3>2. Cardinality(Pending(i)) = 0
      BY <3>1, FS_EmptySet
    <3>3. entries[i] \in Nat
      BY SizesAssumption, SMT DEF Clean, Names
    <3>4. entries[i] + 0 = entries[i]
      BY <3>3, SMT
    <3> QED
      BY <3>2, <3>4 DEF Clean
  <2> QED
    BY <1>3, <2>1 DEF LinksInv
<1>13. BootInv
  BY <1>1 DEF BootInv, Clean
<1>14. DurableInv
  <2>1. durable = <<dinode, entries>> /\ durable[1] = dinode /\ durable[2] = entries
    BY DEF Clean
  <2> QED
    BY <2>1 DEF DurableInv, DurableConsistent, Clean
<1> QED
  BY <1>5, <1>6, <1>7, <1>8, <1>9, <1>10, <1>11, <1>12, <1>13, <1>14 DEF IInv

\* While ireclaim() runs, nobody else does.
LEMMA BootClean ==
  ASSUME IInv, Booting
  PROVE  Clean
<1>1. \A p \in Procs : pc[p] = "user" /\ file[p] = None
  BY DEF IInv, BootInv
<1>2. ASSUME NEW p \in Procs
      PROVE  /\ pc[p] \notin Holding /\ pc[p] \notin InDir /\ pc[p] \in Outside
             /\ pc[p] \notin Locking /\ pc[p] # "reading" /\ pc[p] # "iget_new"
  BY <1>1 DEF Holding, InDir, Outside, Locking
<1>3. \A p \in Procs : ip[p] = None /\ inum[p] = 0 /\ dirlock # p /\ p \notin outstanding
  BY <1>2 DEF IInv, ControlInv
<1>4. dirlock = None /\ outstanding = {}
  BY <1>3 DEF IInv, Types
<1>5. ASSUME NEW s \in Slots PROVE itable[s].ref = 0 /\ itable[s].lock = None
  <2>1. itable[s].lock \in Procs \cup {None}
    BY SMT DEF IInv, Types, Slot
  <2>2. ASSUME NEW p \in Procs PROVE itable[s].lock # p
    <3>1. itable[s].lock = p => pc[p] \in Locking \/ pc[p] = "reading"
      BY DEF IInv, LockInv
    <3> QED
      BY <1>2, <3>1
  <2>3. {p \in Procs : ip[p] = s} = {} /\ {p \in Procs : file[p] # None /\ file[p][1] = s} = {}
    BY <1>1, <1>3, NoneAssumption
  <2>4. Cardinality({}) = 0
    BY FS_EmptySet
  <2>5. itable[s].ref = 0 + 0
    BY <2>3, <2>4 DEF IInv, RefExact
  <2>6. itable[s].ref = 0
    BY <2>5, SMT
  <2> QED
    BY <2>1, <2>2, <2>6
<1>6. \A i \in Inums : dinode[i].nlink = entries[i] /\ (entries[i] > 0 => dinode[i].type # 0)
  BY <1>1, Quiet DEF Ahead
<1>7. durable = <<dinode, entries>>
  BY <1>4 DEF IInv, DurableInv
<1>8. \A i \in Inums : i < reclaimed => dinode[i].type = 0 \/ dinode[i].nlink > 0
  BY DEF IInv, BootInv
<1> QED
  BY <1>1, <1>3, <1>4, <1>5, <1>6, <1>7, <1>8 DEF Clean, IInv, Types

\* ireclaim() frees an inode without entries.
LEMMA ReclaimClean ==
  ASSUME IInv, ireclaim
  PROVE  Clean'
<1>1. Clean
  BY BootClean DEF ireclaim
<1> DEFINE r == reclaimed
           x == IF dinode[r].type # 0 /\ dinode[r].nlink = 0 THEN FreeInode ELSE dinode[r]
<1>2. r \in Inums /\ r + 1 \in 1 .. ninodes + 1 /\ r \in Nat /\ \A i \in Inums : i < r + 1 => i < r \/ i = r
  BY <1>1, SizesAssumption, SMT DEF Clean, ireclaim, Booting, Inums
<1>3. /\ dinode' = [dinode EXCEPT ![r] = x] /\ durable' = <<dinode', entries>> /\ reclaimed' = r + 1
      /\ UNCHANGED <<entries, itable, dirlock, outstanding, file, pc, ip, inum>>
  BY DEF ireclaim
<1>4. /\ dinode \in Disk /\ entries \in Names
      /\ \A i \in Inums : dinode[i].nlink = entries[i] /\ (entries[i] > 0 => dinode[i].type # 0)
      /\ \A i \in Inums : i < r => dinode[i].type = 0 \/ dinode[i].nlink > 0
  BY <1>1 DEF Clean
<1>5. /\ x \in [type : {0, 1}, nlink : 0 .. MaxLinks] /\ x.nlink = dinode[r].nlink
      /\ (entries[r] > 0 => x.type # 0) /\ (x.type = 0 \/ x.nlink > 0)
  <2>1. dinode[r] \in [type : {0, 1}, nlink : 0 .. MaxLinks] /\ dinode[r].nlink = entries[r]
    BY <1>2, <1>4 DEF Disk
  <2>2. FreeInode \in [type : {0, 1}, nlink : 0 .. MaxLinks] /\ FreeInode.type = 0 /\ FreeInode.nlink = 0
    BY SizesAssumption, SMT DEF FreeInode
  <2>3. CASE dinode[r].type # 0 /\ dinode[r].nlink = 0
    <3>1. x = FreeInode /\ ~(0 > 0)
      BY <2>3, SMT
    <3> QED
      BY <2>1, <2>2, <2>3, <3>1
  <2>4. CASE ~(dinode[r].type # 0 /\ dinode[r].nlink = 0)
    <3>1. x = dinode[r]
      BY <2>4
    <3>2. dinode[r].nlink = 0 \/ dinode[r].nlink > 0
      BY <2>1, SizesAssumption, SMT
    <3> QED
      BY <1>2, <1>4, <2>1, <2>4, <3>1, <3>2
  <2> QED
    BY <2>3, <2>4
<1> HIDE DEF x, r
<1>6. dinode' \in Disk /\ dinode'[r] = x /\ \A i \in Inums : i # r => dinode'[i] = dinode[i]
  BY <1>2, <1>3, <1>4, <1>5 DEF Disk
<1>7. \A i \in Inums : dinode'[i].nlink = entries[i] /\ (entries[i] > 0 => dinode'[i].type # 0)
  BY <1>2, <1>4, <1>5, <1>6
<1>8. \A i \in Inums : i < reclaimed' => dinode'[i].type = 0 \/ dinode'[i].nlink > 0
  BY <1>2, <1>3, <1>4, <1>5, <1>6
<1> QED
  BY <1>1, <1>2, <1>3, <1>6, <1>7, <1>8 DEF Clean

\* A crash leaves a consistent disk and nothing else.
LEMMA CrashClean ==
  ASSUME IInv, Crash
  PROVE  Clean'
<1>1. /\ dinode' = durable[1] /\ entries' = durable[2] /\ durable' = durable
      /\ itable' = [s \in Slots |-> EmptySlot] /\ dirlock' = None /\ outstanding' = {}
      /\ file' = [p \in Procs |-> None] /\ pc' = [p \in Procs |-> "user"]
      /\ ip' = [p \in Procs |-> None] /\ inum' = [p \in Procs |-> 0] /\ reclaimed' = 1
  BY DEF Crash
<1>2. durable \in Disk \X Names
  BY DEF IInv, Types
<1>3. dinode' \in Disk /\ entries' \in Names /\ durable' = <<dinode', entries'>>
  BY <1>1, <1>2, SMT
<1>4. \A i \in Inums : dinode'[i].nlink = entries'[i] /\ (entries'[i] > 0 => dinode'[i].type # 0)
  BY <1>1 DEF IInv, DurableInv, DurableConsistent
<1>5. /\ EmptySlot \in Slot /\ EmptySlot.ref = 0 /\ EmptySlot.lock = None
      /\ reclaimed' \in 1 .. ninodes + 1 /\ \A i \in Inums : ~(i < reclaimed')
      /\ 0 \in 0 .. ninodes
  BY <1>1, SizesAssumption, SMT DEF EmptySlot, Slot, Inums
<1>6. "user" \in Pcs
  BY DEF Pcs, Outside
<1> QED
  BY <1>1, <1>3, <1>4, <1>5, <1>6 DEF Clean

\* mkfs leaves every inode free or with one entry.
LEMMA InitClean == Init => Clean
<1> SUFFICES ASSUME Init PROVE Clean
  OBVIOUS
<1>1. /\ dinode \in [Inums -> {FreeInode, NewFile}] /\ entries = [i \in Inums |-> dinode[i].nlink]
      /\ durable = <<dinode, entries>> /\ reclaimed = 1
      /\ itable = [s \in Slots |-> EmptySlot] /\ dirlock = None /\ outstanding = {}
      /\ file = [p \in Procs |-> None] /\ pc = [p \in Procs |-> "user"]
      /\ ip = [p \in Procs |-> None] /\ inum = [p \in Procs |-> 0]
  BY DEF Init
<1>2. /\ EmptySlot \in Slot /\ EmptySlot.ref = 0 /\ EmptySlot.lock = None
      /\ reclaimed \in 1 .. ninodes + 1 /\ (\A i \in Inums : ~(i < reclaimed))
      /\ 0 \in 0 .. ninodes
  BY <1>1, SizesAssumption, SMT DEF EmptySlot, Slot, Inums
<1>3. \A d \in {FreeInode, NewFile} :
        /\ d \in [type : {0, 1}, nlink : 0 .. MaxLinks] /\ d.nlink \in 0 .. MaxLinks
        /\ d.nlink > 0 => d.type # 0
  BY SizesAssumption, SMT DEF FreeInode, NewFile
<1>4. dinode \in Disk
  BY <1>1, <1>3 DEF Disk
<1>5. entries \in Names /\ \A i \in Inums : dinode[i].nlink = entries[i] /\ (entries[i] > 0 => dinode[i].type # 0)
  <2>1. \A i \in Inums : dinode[i] \in {FreeInode, NewFile} /\ entries[i] = dinode[i].nlink
    BY <1>1
  <2> QED
    BY <1>1, <1>3, <2>1 DEF Names
<1>6. "user" \in Pcs
  BY DEF Pcs, Outside
<1> QED
  BY <1>1, <1>2, <1>4, <1>5, <1>6 DEF Clean

\* A process forgets an inode only in the second half of an iput().
LEMMA ForgetKinds ==
  ASSUME IInv, NEW p \in Procs, Kind(p), Others(p), itable' \in [Slots -> Slot],
         NEW i \in Inums, ~Forgotten(i), Forgotten(i)'
  PROVE  pc[p] \in {"idrop", "idrop_fail"} /\ pc'[p] = "end"
\* iget(): a process that has allocated an inode enters it in the table next.
<1>1. ASSUME pc[p] = "iget_new"
      PROVE  \E s \in Slots : GetsNew(p, s)
  <2> USE <1>1
  <2> USE DEF Goes
  <2>1. ~Closes(p) /\ ~Ends(p) /\ (\A m \in Pcs : ~Begins(p, m)) /\ \A l \in Pcs : ~Misses(p, l)
    BY DEF Closes, Ends, Begins, Misses
  <2>2. (\A j \in Inums : ~Allocates(p, j)) /\ \A l, m \in Pcs : ~Locks(p, l, m)
    BY DEF Allocates, Locks
  <2>3. \A l, m \in Pcs : ~Takes(p, l, m) /\ ~Clears(p, l, m) /\ ~Frees(p, l, m) /\ ~Drops(p, l)
    BY DEF Takes, Clears, Frees, Drops
  <2>4. ~Reads(p) /\ ~HasRead(p) /\ ~Opens(p) /\ ~GivesUp(p) /\ ~Enters(p) /\ ~Fails(p) /\ ~Unnames(p)
    BY DEF Reads, HasRead, Opens, GivesUp, Enters, Fails, Unnames
  <2>5. \A s \in Slots, j \in Inums, l, m \in Pcs : ~Finds(p, s, j, l, m)
    BY DEF Finds
  <2>6. ASSUME NEW l \in Pcs, NEW m \in Pcs, NEW n, NEW h, Updates(p, l, m, n, h)
        PROVE  FALSE
    BY <2>6 DEF Updates
  <2> HIDE DEF Goes
  <2> QED
    BY <2>1, <2>2, <2>3, <2>4, <2>5, <2>6 DEF Kind
\* The last reference to an inode without links is not dropped by iput() itself:
\* the copy it looks at is the inode.
<1>2. ASSUME pc[p] \in {"iput", "iput_fail"}, pc'[p] = "end",
             itable[ip[p]].ref = 1
      PROVE  dinode'[Ino(p)].nlink # 0
  <2> USE <1>2
  \* iput() that ends here drops a reference.
  <2>1. ASSUME pc[p] \in Dropping
        PROVE  \E l \in Pcs : Drops(p, l)
    <3> USE <2>1
    <3> USE DEF Goes, Dropping
    <3>1. ~Closes(p) /\ ~Ends(p) /\ (\A m \in Pcs : ~Begins(p, m)) /\ \A l \in Pcs : ~Misses(p, l)
      BY DEF Closes, Ends, Begins, Misses
    <3>2. (\A j \in Inums : ~Allocates(p, j)) /\ (\A s \in Slots : ~GetsNew(p, s))
      BY DEF Allocates, GetsNew
    <3>3. \A l, m \in Pcs : ~Takes(p, l, m) /\ ~Clears(p, l, m) /\ ~Frees(p, l, m)
      BY DEF Takes, Clears, Frees
    <3>4. ~Reads(p) /\ ~HasRead(p) /\ ~Opens(p) /\ ~GivesUp(p) /\ ~Enters(p) /\ ~Fails(p) /\ ~Unnames(p)
      BY DEF Reads, HasRead, Opens, GivesUp, Enters, Fails, Unnames
    <3>5. \A s \in Slots, j \in Inums, l, m \in Pcs : ~Finds(p, s, j, l, m)
      BY DEF Finds
    <3>6. ASSUME NEW l \in Pcs, NEW m \in Pcs, NEW n, NEW h, Updates(p, l, m, n, h)
          PROVE  FALSE
      BY <3>6 DEF Updates
    <3>7. \A l, m \in Pcs : ~Locks(p, l, m)
      BY DEF Locks
    <3> HIDE DEF Goes, Dropping
    <3> QED
      BY <3>1, <3>2, <3>3, <3>4, <3>5, <3>6, <3>7 DEF Kind
  <2>2. PICK l \in Pcs : Drops(p, l)
    BY <2>1 DEF Dropping
  <2>3. pc[p] = l /\ dinode' = dinode
    BY <2>2 DEF Drops, Goes
  <2>4. ~LastOfUnlinked(ip[p])
    BY <2>2, <2>3 DEF Drops
  <2>5. pc[p] \in Holding /\ pc[p] \in Using \ Fetching /\ pc[p] \notin Freed
    BY DEF Holding, Using, Gone, Freed, Fetching
  <2>6. ip[p] \in Slots /\ itable[ip[p]].ref > 0
    BY <2>5, HasSlot DEF IInv
  <2>7. itable[ip[p]].valid
    BY <2>5 DEF IInv, ValidInv
  <2>8. ASSUME NEW q \in Procs, pc[q] \in Freed PROVE ip[q] # ip[p]
    <3>1. RefExact
      BY DEF IInv
    <3> QED
      BY <2>5, <2>6, <2>8, <3>1, Alone
  <2>9. itable[ip[p]].nlink = dinode[itable[ip[p]].inum].nlink
    BY <2>6, <2>7, <2>8 DEF IInv, CoherInv
  <2> QED
    BY <2>3, <2>4, <2>7, <2>9 DEF LastOfUnlinked, Ino
<1>3. /\ dinode'[i].type # 0 /\ dinode'[i].nlink = 0
      /\ \A s \in Slots : ~(itable'[s].ref > 0 /\ itable'[s].inum = i)
      /\ \A q \in Procs : inum'[q] # i
      /\ reclaimed' > i
  BY DEF Forgotten, SlotsOf
<1>4. reclaimed > i
  BY <1>3, RunKinds
<1>5. DiskKept(p, i)
  BY DiskStep
<1>6. dinode[i].type # 0
  BY <1>3, <1>5 DEF DiskKept
<1>7. ASSUME dinode[i].nlink # 0 PROVE FALSE
  <2>1. pc[p] \in {"created", "linked", "bad", "unlinked"} /\ i = Ino(p)
    BY <1>3, <1>7, <1>5 DEF DiskKept
  <2>2. PICK l, m \in Pcs, n \in 0 .. MaxLinks, h \in Procs \cup {None} : Updates(p, l, m, n, h)
    BY <2>1, CountKinds
  <2>3. itable'[ip[p]].inum = itable[ip[p]].inum /\ itable'[ip[p]].ref = itable[ip[p]].ref
    BY <2>2 DEF Updates, Becomes
  <2>4. ip[p] \in Slots /\ itable[ip[p]].ref > 0
    BY <2>1, HasSlot DEF IInv, Holding
  <2> QED
    BY <1>3, <2>1, <2>3, <2>4 DEF Ino
<1>8. ASSUME NEW q \in Procs, inum[q] = i PROVE FALSE
  <2>1. q = p
    BY <1>3, <1>8 DEF Others
  <2>2. i # 0
    BY SMT DEF Inums
  <2>3. pc[p] = "iget_new"
    BY <1>8, <2>1, <2>2 DEF IInv, ControlInv
  <2>4. PICK s \in Slots : GetsNew(p, s)
    BY <2>3, <1>1
  <2>5. itable'[s].inum = i /\ itable'[s].ref = itable[s].ref + 1
    BY <1>8, <2>1, <2>4 DEF GetsNew, Get
  <2>6. itable[s].ref \in Nat
    BY SMT DEF IInv, Types, Slot
  <2>7. itable'[s].ref > 0
    BY <2>5, <2>6, SMT
  <2> QED
    BY <1>3, <2>5, <2>7
<1>9. PICK s \in Slots : itable[s].ref > 0 /\ itable[s].inum = i
  BY <1>4, <1>6, <1>7, <1>8 DEF Forgotten, SlotsOf
<1>10. SlotKept(p, s)
  BY TableFacts
<1>11. ~(itable'[s].ref > 0)
  BY <1>3, <1>9, <1>10 DEF SlotKept
<1>12. itable[s].ref \in Nat /\ itable'[s].ref \in Nat
  BY SMT DEF IInv, Types, Slot
<1>13. itable'[s].ref # itable[s].ref /\ itable'[s].ref # itable[s].ref + 1
  BY <1>9, <1>11, <1>12, SMT
<1>14. itable'[s].ref = itable[s].ref - 1 /\ ip[p] = s /\ pc[p] \in Dropping /\ pc'[p] = "end"
  BY <1>10, <1>13 DEF SlotKept
<1>15. itable[s].ref = 1
  BY <1>9, <1>11, <1>12, <1>14, SMT
<1>16. pc[p] \notin {"iput", "iput_fail"}
  BY <1>3, <1>9, <1>14, <1>15, <1>2 DEF Ino
<1> QED
  BY <1>14, <1>16 DEF Dropping

\* When no slot is unused, each has an inode of its own that is in use; so there
\* are as many of these as slots.
LEMMA SlotsFull ==
  ASSUME IInv, Unused = {}
  PROVE  Cardinality(InUse) = NINODE
<1> DEFINE f == [s \in Slots |-> itable[s].inum]
<1>1. ASSUME NEW s \in Slots PROVE itable[s].ref > 0 /\ itable[s].inum \in Inums
  <2>1. itable[s].ref \in Nat /\ itable[s].inum \in 0 .. ninodes
    BY SMT DEF IInv, Types, Slot
  <2>2. itable[s].ref # 0
    BY DEF Unused
  <2>3. itable[s].ref > 0
    BY <2>1, <2>2, SMT
  <2>4. itable[s].inum # 0
    BY <2>3 DEF IInv, SlotInv
  <2>5. itable[s].inum \in Inums
    BY <2>1, <2>4, SMT DEF Inums
  <2> QED
    BY <2>3, <2>5
<1>2. ASSUME NEW s \in Slots PROVE itable[s].inum \in InUse
  <2>1. (\E p \in Procs : ip[p] = s) \/ (\E p \in Procs : file[p] # None /\ file[p][1] = s)
    <3> SUFFICES ASSUME {p \in Procs : ip[p] = s} = {},
                        {p \in Procs : file[p] # None /\ file[p][1] = s} = {}
                 PROVE  FALSE
      OBVIOUS
    <3>1. itable[s].ref = Cardinality({}) + Cardinality({})
      BY DEF IInv, RefExact
    <3>2. Cardinality({}) = 0
      BY FS_EmptySet
    <3> QED
      BY <1>1, <3>1, <3>2, SMT
  <2>2. s # None
    BY NoneAssumption
  <2>3. ASSUME NEW p \in Procs, file[p] # None, file[p][1] = s PROVE itable[s].inum = file[p][2]
    BY <2>3 DEF IInv, OpenFileLive
  <2> QED
    BY <1>1, <2>1, <2>2, <2>3 DEF InUse
<1>3. IsFiniteSet(Inums) /\ IsFiniteSet(Slots) /\ Cardinality(Slots) = NINODE
  <2>1. 1 \in Int /\ ninodes \in Int /\ NINODE \in Int /\ ~(1 > NINODE) /\ NINODE - 1 + 1 = NINODE
    BY SizesAssumption, SMT
  <2> QED
    BY <2>1, FS_Interval DEF Inums, Slots
<1>4. IsFiniteSet(InUse)
  BY <1>3, FS_Subset DEF InUse
<1>5. f \in Injection(Slots, InUse)
  <2>1. f \in [Slots -> InUse]
    BY <1>2
  <2>2. \A s, t \in Slots : f[s] = f[t] => s = t
    BY <1>1 DEF IInv, OneSlot
  <2> QED
    BY <2>1, <2>2 DEF Injection, IsInjective
<1>6. \A i \in InUse : \E s \in Slots : f[s] = i
  <2> TAKE i \in InUse
  <2>1. PICK p \in Procs : \/ ip[p] # None /\ itable[ip[p]].inum = i
                           \/ file[p] # None /\ file[p][2] = i
    BY DEF InUse
  <2>2. CASE ip[p] # None /\ itable[ip[p]].inum = i
    <3>1. ip[p] \in Slots
      BY <2>2, HasSlot DEF IInv
    <3> QED
      BY <2>2, <3>1
  <2>3. CASE file[p] # None /\ file[p][2] = i
    <3>1. file[p][1] \in Slots /\ itable[file[p][1]].inum = file[p][2]
      BY <2>3, HasSlot DEF IInv, OpenFileLive
    <3> QED
      BY <2>3, <3>1
  <2> QED
    BY <2>1, <2>2, <2>3
<1> HIDE DEF f
<1>7. f \in Surjection(Slots, InUse)
  BY <1>5, <1>6 DEF Surjection, Injection
<1> QED
  BY <1>3, <1>4, <1>5, <1>7, FS_Injection

\* Who has the lock of a slot.
LEMMA LockHeld ==
  ASSUME LockInv, NEW s \in Slots, NEW p \in Procs
  PROVE  itable[s].lock = p <=> \/ pc[p] \in Locking /\ ip[p] = s
                                \/ pc[p] = "reading" /\ file[p][1] = s
  BY DEF LockInv

\* What the inode table promises, whatever the number of its slots: the types of
\* its fields, exact reference counts, one slot and one lock for an inode, a copy
\* that agrees with the disk, an inode that stays while a file is open on it, and
\* an iput() that never sleeps with itable.lock held.
LEMMA TableInv ==
  ASSUME IInv
  PROVE  TypeOK /\ RefExact /\ OneSlot /\ CacheCoherent /\ OpenFileLive /\ IputNeverBlocks
<1>1. TypeOK
  <2>1. \A l \in Pcs : l \in {"user", "open", "create", "link", "unlink", "close", "ilock_open",
                       "opened", "iget_new", "ilock_new", "created", "failed", "ilock_link",
                       "linked", "dirlink", "ilock_bad", "bad", "ilock_unlink", "unlinking",
                       "unlinked", "ilock_read", "reading", "iput", "ifree", "ifreed", "idrop",
                       "iput_fail", "ifree_fail", "ifreed_fail", "idrop_fail", "end"}
    BY DEF Pcs, Holding, NoFile, Outside
  <2> DEFINE Labels == {"user", "open", "create", "link", "unlink", "close", "ilock_open",
                       "opened", "iget_new", "ilock_new", "created", "failed", "ilock_link",
                       "linked", "dirlink", "ilock_bad", "bad", "ilock_unlink", "unlinking",
                       "unlinked", "ilock_read", "reading", "iput", "ifree", "ifreed", "idrop",
                       "iput_fail", "ifree_fail", "ifreed_fail", "idrop_fail", "end"}
             Entry == [inum : 0 .. ninodes, ref : 0 .. 2 * Cardinality(Procs),
                       valid : BOOLEAN, type : {0, 1}, nlink : 0 .. MaxLinks,
                       lock : Procs \cup {None}]
  <2>2. pc \in [Procs -> Labels]
    <3>1. pc \in [Procs -> Pcs] /\ Pcs \subseteq Labels
      BY <2>1 DEF IInv, Types
    <3> HIDE DEF Labels
    <3> QED
      BY <3>1
  <2>3. ASSUME NEW s \in Slots PROVE itable[s] \in Entry
    <3>1. Pointers(s) \subseteq Procs /\ Files(s) \subseteq Procs
      BY DEF Pointers, Files
    <3>2. /\ Cardinality(Pointers(s)) \in Nat /\ Cardinality(Pointers(s)) <= Cardinality(Procs)
          /\ Cardinality(Files(s)) \in Nat /\ Cardinality(Files(s)) <= Cardinality(Procs)
          /\ Cardinality(Procs) \in Nat
      BY <3>1, Counting
    <3>3. itable[s].ref = Cardinality(Pointers(s)) + Cardinality(Files(s))
      BY DEF IInv, RefExact, Pointers, Files
    <3>4. itable[s] \in Slot
      BY DEF IInv, Types
    <3> HIDE DEF Pointers, Files
    <3>5. itable[s].ref \in 0 .. 2 * Cardinality(Procs)
      BY <3>2, <3>3, SMT
    <3> QED
      BY <3>4, <3>5, SMT DEF Slot
  <2>4. itable \in [Slots -> Entry]
    <3>1. itable \in [Slots -> Slot]
      BY DEF IInv, Types
    <3> HIDE DEF Entry
    <3> QED
      BY <2>3, <3>1
  <2> HIDE DEF Entry, Labels
  <2>5. /\ dinode \in Disk /\ entries \in Names /\ dirlock \in Procs \cup {None}
        /\ outstanding \subseteq Procs /\ file \in [Procs -> (Slots \X Inums) \cup {None}]
        /\ ip \in [Procs -> Slots \cup {None}] /\ inum \in [Procs -> 0 .. ninodes]
        /\ reclaimed \in 1 .. ninodes + 1
    BY DEF IInv, Types
  <2> QED
    BY <2>2, <2>4, <2>5 DEF TypeOK, Entry, Labels, Disk, Names
<1>2. CacheCoherent
  <2> SUFFICES ASSUME NEW s \in Slots, itable[s].ref > 0, itable[s].valid, itable[s].lock = None
               PROVE  /\ itable[s].type = dinode[itable[s].inum].type
                      /\ itable[s].nlink = dinode[itable[s].inum].nlink
    BY DEF CacheCoherent
  <2>1. ASSUME NEW p \in Procs, pc[p] \in Freed, ip[p] = s PROVE FALSE
    <3>1. pc[p] \in Locking
      BY <2>1 DEF Freed, Locking
    <3>2. LockInv
      BY DEF IInv
    <3>3. itable[s].lock = p
      BY <2>1, <3>1, <3>2, LockHeld, SMT
    <3> QED
      BY <3>3, NoneAssumption
  <2> QED
    BY <2>1 DEF IInv, CoherInv
<1>3. IputNeverBlocks
  <2> SUFFICES ASSUME NEW p \in Procs, pc[p] \in {"iput", "iput_fail"}, LastOfUnlinked(ip[p])
               PROVE  itable[ip[p]].lock = None
    BY DEF IputNeverBlocks
  <2>1. pc[p] \in Holding /\ pc[p] \notin Locking
    BY DEF Holding, Locking
  <2>2. ip[p] \in Slots /\ itable[ip[p]].ref = 1 /\ RefExact
    BY <2>1, HasSlot DEF IInv, LastOfUnlinked
  <2>3. /\ \A q \in Procs : q # p => ip[q] # ip[p]
        /\ \A q \in Procs : file[q] # None => file[q][1] # ip[p]
    BY <2>2, Alone
  <2>4. LockInv
    BY DEF IInv
  <2>5. ASSUME NEW q \in Procs PROVE itable[ip[p]].lock # q
    <3>1. itable[ip[p]].lock = q => \/ pc[q] \in Locking /\ ip[q] = ip[p]
                                    \/ pc[q] = "reading" /\ file[q][1] = ip[p]
      BY <2>2, <2>4, LockHeld, SMT
    <3>2. pc[q] = "reading" => file[q] # None
      BY DEF IInv, ControlInv
    <3> QED
      BY <2>1, <2>3, <3>1, <3>2
  <2>6. itable[ip[p]].lock \in Procs \cup {None}
    BY <2>2, SMT DEF IInv, Types, Slot
  <2> QED
    BY <2>5, <2>6
<1> QED
  BY <1>1, <1>2, <1>3 DEF IInv

\* "ilock: no type" and "unlink: nlink < 1" are not reached.
TypesThere ==
  \A p \in Procs :
    /\ pc[p] \in {"ilock_open", "ilock_new", "ilock_link", "ilock_bad", "ilock_unlink"}
         => itable[ip[p]].valid \/ dinode[itable[ip[p]].inum].type # 0
    /\ pc[p] = "unlinking" => itable[ip[p]].nlink >= 1

\* An inode in use is allocated, and one that is being unlinked has a link.
LEMMA TypesInv ==
  ASSUME IInv
  PROVE  TypesThere
<1> SUFFICES ASSUME NEW p \in Procs
             PROVE  /\ pc[p] \in {"ilock_open", "ilock_new", "ilock_link", "ilock_bad", "ilock_unlink"}
                         => itable[ip[p]].valid \/ dinode[itable[ip[p]].inum].type # 0
                    /\ pc[p] = "unlinking" => itable[ip[p]].nlink >= 1
  BY DEF TypesThere
<1>1. ASSUME pc[p] \in {"ilock_open", "ilock_new", "ilock_link", "ilock_bad", "ilock_unlink"}
      PROVE  dinode[itable[ip[p]].inum].type # 0
  <2>1. pc[p] \in Using
    BY <1>1 DEF Using, Holding, Gone, Freed
  <2> QED
    BY <2>1 DEF IInv, LiveInv, Ino
<1>2. ASSUME pc[p] = "unlinking" PROVE itable[ip[p]].nlink >= 1
  <2>1. Ino(p) \in Inums /\ itable[ip[p]].nlink = dinode[Ino(p)].nlink
    BY <1>2, LockedSlot DEF Locking, Freed
  <2>2. entries[Ino(p)] > 0
    BY <1>2 DEF IInv, LinksInv
  <2>3. entries[Ino(p)] \in Nat /\ dinode[Ino(p)].nlink \in Nat /\ dinode[Ino(p)].nlink >= entries[Ino(p)]
    BY <2>1, NoLinks DEF IInv
  <2> QED
    BY <2>1, <2>2, <2>3, SMT
<1> QED
  BY <1>1, <1>2

\* A step that changes nothing changes no part of the invariant.
LEMMA StutterInv ==
  ASSUME IInv, UNCHANGED vars
  PROVE  IInv'
<1>1. /\ UNCHANGED <<dinode, entries, durable, itable, dirlock, outstanding>>
      /\ UNCHANGED <<file, pc, ip, inum, reclaimed>>
  BY DEF vars
<1>2. Types' /\ RefExact'
  BY <1>1 DEF IInv, Types, RefExact
<1>3. ControlInv'
  BY <1>1 DEF IInv, ControlInv
<1>4. LockInv'
  BY <1>1 DEF IInv, LockInv
<1>5. SlotInv' /\ OneSlot' /\ OpenFileLive'
  BY <1>1 DEF IInv, SlotInv, OneSlot, OpenFileLive
<1>6. LiveInv' /\ FreeInv'
  BY <1>1 DEF IInv, LiveInv, Ino, FreeInv
<1>7. FreshInv'
  BY <1>1 DEF IInv, FreshInv, Fresh, Ino
<1>8. ValidInv' /\ CoherInv' /\ LinksInv'
  BY <1>1 DEF IInv, ValidInv, CoherInv, LinksInv, Pending, Ino
<1>9. BootInv' /\ DurableInv'
  BY <1>1 DEF IInv, BootInv, Booting, DurableInv, DurableConsistent
<1> QED
  BY <1>2, <1>3, <1>4, <1>5, <1>6, <1>7, <1>8, <1>9 DEF IInv
-----------------------------------------------------------------------------
(* The theorems.                                                           *)

\* The inductive invariant of the inode table: iget(), ilock(), iput() and their
\* callers keep it, and so do a crash and the boot after it.
THEOREM Invariance == Spec => []IInv
<1>1. Init => IInv
  BY InitClean, CleanInv
<1>2. Clean' => IInv'
  BY CleanInv, PTL
<1>3. IInv /\ [Next]_vars => IInv'
  <2> SUFFICES ASSUME IInv, [Next]_vars PROVE IInv'
    OBVIOUS
  <2>1. CASE \E p \in Procs : Step(p)
    BY <2>1, StepInv
  <2>2. CASE ireclaim
    BY <1>2, <2>2, ReclaimClean
  <2>3. CASE Crash
    BY <1>2, <2>3, CrashClean
  <2>4. CASE UNCHANGED vars
    BY <2>4, StutterInv
  <2> QED
    BY <2>1, <2>2, <2>3, <2>4 DEF Next
<1> QED
  BY <1>1, <1>3, PTL DEF Spec

\* Whatever the number of slots: reference counts are exact, an inode has one
\* slot and one lock, the cached copy agrees with the disk, an open file keeps its
\* inode, iput() never sleeps with itable.lock held, ilock() and sys_unlink() do
\* not panic, and iget() panics only when NINODE different inodes are in use.
THEOREM CacheSound == Spec => []InodesCached
<1>1. IInv => InodesCached
  <2> SUFFICES ASSUME IInv PROVE InodesCached
    OBVIOUS
  <2>1. \A i \in Inums : SlotsOf(i) # {} \/ Unused # {} \/ Cardinality(InUse) = NINODE
    BY SlotsFull
  <2>2. TypesThere
    BY TypesInv
  <2>3. NoPanic
    BY <2>1, <2>2 DEF NoPanic, TypesThere
  <2> QED
    BY <2>3, TableInv DEF InodesCached
<1> QED
  BY <1>1, Invariance, PTL

\* Whenever the machine stops, the disk is consistent; only the second half of an
\* iput() forgets an inode; and ireclaim() leaves none that was forgotten.
THEOREM DiskSound == Spec => DiskInodesConsistent
<1>1. IInv' => DurableConsistent'
  BY DEF IInv, DurableInv
<1>2. ASSUME IInv, Next PROVE ForgetStep /\ ReclaimStep
  <2>1. \A i \in Inums : i >= 1 /\ i <= ninodes /\ i \in Nat
    BY SizesAssumption, SMT DEF Inums
  <2>2. ASSUME NEW p \in Procs, Step(p) PROVE ForgetStep /\ ReclaimStep
    <3>1. Kind(p) /\ itable' \in [Slots -> Slot]
      BY <1>2, <2>2, StepKinds
    <3>2. Others(p) /\ ~Booting
      BY <3>1, RunKinds
    <3>3. ForgetStep
      BY <1>2, <3>1, <3>2, ForgetKinds DEF ForgetStep
    <3> QED
      BY <3>2, <3>3 DEF ReclaimStep
  <2>3. ASSUME ireclaim PROVE ForgetStep /\ ReclaimStep
    <3>1. Clean'
      BY <1>2, <2>3, ReclaimClean
    <3>2. /\ \A i \in Inums : i < reclaimed' => dinode'[i].type = 0 \/ dinode'[i].nlink > 0
          /\ durable'[1] = dinode' /\ reclaimed' \in 1 .. ninodes + 1
      BY <3>1 DEF Clean
    <3>3. ASSUME NEW i \in Inums, Forgotten(i)' PROVE FALSE
      <4>1. dinode'[i].type # 0 /\ dinode'[i].nlink = 0 /\ reclaimed' > i
        BY <3>3 DEF Forgotten
      <4>2. i < reclaimed' /\ ~(0 > 0)
        BY <2>1, <3>2, <4>1, SizesAssumption, SMT
      <4> QED
        BY <3>2, <4>1, <4>2
    <3>4. ASSUME ~Booting' PROVE \A i \in Inums : i < reclaimed'
      <4>1. ~(reclaimed' <= ninodes)
        BY <3>4 DEF Booting
      <4> QED
        BY <2>1, <3>2, <4>1, SizesAssumption, SMT
    <3> QED
      BY <3>2, <3>3, <3>4 DEF ForgetStep, ReclaimStep
  <2>4. ASSUME Crash PROVE ForgetStep /\ ReclaimStep
    <3>1. reclaimed' = 1
      BY <2>4 DEF Crash
    <3>2. ASSUME NEW i \in Inums, Forgotten(i)' PROVE FALSE
      <4>1. 1 > i
        BY <3>1, <3>2 DEF Forgotten
      <4> QED
        BY <2>1, <4>1, SMT
    <3>3. Booting'
      <4>1. 1 <= ninodes
        BY SizesAssumption, SMT
      <4> QED
        BY <3>1, <4>1 DEF Booting
    <3> QED
      BY <3>2, <3>3 DEF ForgetStep, ReclaimStep
  <2> QED
    BY <1>2, <2>2, <2>3, <2>4 DEF Next
<1>3. IInv /\ IInv' /\ [Next]_vars => [DurableConsistent' /\ ForgetStep /\ ReclaimStep]_vars
  BY <1>1, <1>2
<1> QED
  BY <1>3, Invariance, PTL DEF Spec, DiskInodesConsistent
=============================================================================
