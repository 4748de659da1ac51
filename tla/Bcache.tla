------------------------------- MODULE Bcache -------------------------------
(***************************************************************************)
(* The buffer cache of kernel/bio.c with the sleep lock of each buffer     *)
(* (kernel/sleeplock.c), used as the file system and the log use it.  A    *)
(* process may hold one buffer while it asks for a second: bmap() and      *)
(* itrunc() an indirect block and then a block of the bitmap, write_log()  *)
(* and install_trans() a block of the log and then its home.  It writes a  *)
(* block it changed to the disk, or pins it for the log; only writei()     *)
(* lets go of a changed block, when either_copyin() fails half way.        *)
(*                                                                         *)
(* bcache.lock makes bget() up to acquiresleep(), and each half of         *)
(* brelse(), one step; a sleep lock is taken, or waited for, in one step.  *)
(* The disk reads and writes a block in one step (its driver is a part of  *)
(* its own).                                                               *)
(***************************************************************************)
EXTENDS Integers, FiniteSets, Sequences, SequencesExt

CONSTANTS Procs, Blocks, Values,
          NBUF,         \* buffers
          LOGBLOCKS,    \* how many blocks the log pins at most
          Nests,        \* <<k, l>>: a process may ask for l while it holds k
          None

NbufAssumption == NBUF \in Nat \ {0} /\ LOGBLOCKS \in Nat /\ Nests \subseteq Blocks \X Blocks

Bufs == 1 .. NBUF
NoBuf == 0

VARIABLES blockno, valid, refcnt, data,   \* fields of struct buf
          lru,        \* the list, most recently used first
          locked,     \* locked[b]: the process that holds b's sleep lock
          waiting,    \* the processes asleep in acquiresleep()
          pinned,     \* the blocks in the log
          disk,
          pc, buf,    \* how far each process is in bread() or brelse(), and of
                      \* which buffer; it holds those it has locked besides
          panic       \* bget() found no buffer, and has bcache.lock for ever

cache == <<blockno, valid, refcnt, data, lru>>
vars == <<cache, locked, waiting, pinned, disk, pc, buf, panic>>

\* After binit(): no buffer is for any block of the disk.
Init ==
  /\ blockno = [b \in Bufs |-> None] /\ valid = [b \in Bufs |-> FALSE]
  /\ refcnt = [b \in Bufs |-> 0]
  /\ disk \in [Blocks -> Values]
  /\ \E v \in Values : data = [b \in Bufs |-> v]
  /\ lru = [i \in Bufs |-> NBUF + 1 - i]
  /\ locked = [b \in Bufs |-> None]
  /\ waiting = {} /\ pinned = {}
  /\ pc = [p \in Procs |-> "ready"] /\ buf = [p \in Procs |-> NoBuf]
  /\ panic = FALSE

Cached(k) == \E b \in Bufs : blockno[b] = k
Goto(p, l) == pc' = [pc EXCEPT ![p] = l]
Holds(p, b) == pc[p] = "ready" /\ locked[b] = p
MoveToFront(b) == lru' = <<b>> \o SelectSeq(lru, LAMBDA x : x # b)

-----------------------------------------------------------------------------
(* bget() and bread().                                                     *)

\* The callers' order: with a block k in hand only l with <<k, l>> in Nests.
MayAsk(p, k) ==
  /\ pc[p] = "ready"
  /\ \A b \in Bufs : locked[b] = p =>
       <<blockno[b], k>> \in Nests /\ \A c \in Bufs : locked[c] = p => c = b

bget_hit(p, k) ==
  /\ MayAsk(p, k) /\ ~panic
  /\ \E b \in Bufs :
       /\ blockno[b] = k
       /\ refcnt' = [refcnt EXCEPT ![b] = @ + 1]
       /\ buf' = [buf EXCEPT ![p] = b]
  /\ Goto(p, "lock")
  /\ UNCHANGED <<blockno, valid, data, lru, locked, waiting, pinned, disk, panic>>

\* b is the least recently used buffer without references.
Victim(b) ==
  /\ refcnt[b] = 0
  /\ \E i \in Bufs : lru[i] = b /\ \A j \in i + 1 .. NBUF : refcnt[lru[j]] # 0

\* Mutant: the recycled buffer keeps its valid flag.
bget_miss_still_valid(p, k) ==
  /\ MayAsk(p, k) /\ ~panic /\ ~Cached(k)
  /\ \E b \in Bufs :
       /\ Victim(b)
       /\ blockno' = [blockno EXCEPT ![b] = k]
       /\ refcnt' = [refcnt EXCEPT ![b] = 1]
       /\ buf' = [buf EXCEPT ![p] = b]
  /\ Goto(p, "lock")
  /\ UNCHANGED <<valid, data, lru, locked, waiting, pinned, disk, panic>>

bget_miss(p, k) ==
  /\ MayAsk(p, k) /\ ~panic /\ ~Cached(k)
  /\ \E b \in Bufs :
       /\ Victim(b)
       /\ blockno' = [blockno EXCEPT ![b] = k]
       /\ valid' = [valid EXCEPT ![b] = FALSE]
       /\ refcnt' = [refcnt EXCEPT ![b] = 1]
       /\ buf' = [buf EXCEPT ![p] = b]
  /\ Goto(p, "lock")
  /\ UNCHANGED <<data, lru, locked, waiting, pinned, disk, panic>>

bget_panic(p, k) ==
  /\ MayAsk(p, k) /\ ~panic /\ ~Cached(k)
  /\ \A b \in Bufs : refcnt[b] # 0
  /\ panic' = TRUE
  /\ UNCHANGED <<cache, locked, waiting, pinned, disk, pc, buf>>

Return(p) == Goto(p, "ready") /\ buf' = [buf EXCEPT ![p] = NoBuf]

\* acquiresleep(&b->lock): take the lock, or sleep until it is released.
acquiresleep(p) ==
  /\ pc[p] = "lock" /\ p \notin waiting
  /\ IF locked[buf[p]] = None
     THEN /\ locked' = [locked EXCEPT ![buf[p]] = p]
          /\ IF valid[buf[p]] THEN Return(p) ELSE Goto(p, "fill") /\ UNCHANGED buf
          /\ UNCHANGED waiting
     ELSE waiting' = waiting \cup {p} /\ UNCHANGED <<locked, pc, buf>>
  /\ UNCHANGED <<cache, pinned, disk, panic>>

\* virtio_disk_rw(b, 0) in bread().
bread(p) ==
  LET b == buf[p] IN
  /\ pc[p] = "fill"
  /\ data' = [data EXCEPT ![b] = disk[blockno[b]]]
  /\ valid' = [valid EXCEPT ![b] = TRUE]
  /\ Return(p)
  /\ UNCHANGED <<blockno, refcnt, lru, locked, waiting, pinned, disk, panic>>

-----------------------------------------------------------------------------
(* What the holder of a buffer does.                                       *)

modify(p, b, v) ==
  /\ Holds(p, b) /\ v # data[b]
  /\ data' = [data EXCEPT ![b] = v]
  /\ UNCHANGED <<blockno, valid, refcnt, lru, locked, waiting, pinned, disk, pc, buf, panic>>

bwrite(p, b) ==
  /\ Holds(p, b)
  /\ disk' = [disk EXCEPT ![blockno[b]] = data[b]]
  /\ UNCHANGED <<cache, locked, waiting, pinned, pc, buf, panic>>

\* log_write() of a block that is not in the log yet.
bpin(p, b) ==
  /\ Holds(p, b) /\ ~panic
  /\ blockno[b] \notin pinned /\ Cardinality(pinned) < LOGBLOCKS
  /\ refcnt' = [refcnt EXCEPT ![b] = @ + 1]
  /\ pinned' = pinned \cup {blockno[b]}
  /\ UNCHANGED <<blockno, valid, data, lru, locked, waiting, disk, pc, buf, panic>>

\* install_trans() has written the block to its place.
bunpin(p, b) ==
  /\ Holds(p, b) /\ ~panic /\ blockno[b] \in pinned /\ disk[blockno[b]] = data[b]
  /\ refcnt' = [refcnt EXCEPT ![b] = @ - 1]
  /\ pinned' = pinned \ {blockno[b]}
  /\ UNCHANGED <<blockno, valid, data, lru, locked, waiting, disk, pc, buf, panic>>

\* brelse(): releasesleep(), ...
releasesleep(p, b) ==
  /\ Holds(p, b)
  /\ locked' = [locked EXCEPT ![b] = None]
  /\ waiting' = {q \in waiting : buf[q] # b}
  /\ Goto(p, "release") /\ buf' = [buf EXCEPT ![p] = b]
  /\ UNCHANGED <<cache, pinned, disk, panic>>

\* ... then, under bcache.lock, one reference less.
brelse(p) ==
  LET b == buf[p] IN
  /\ pc[p] = "release" /\ ~panic
  /\ refcnt' = [refcnt EXCEPT ![b] = @ - 1]
  /\ IF refcnt[b] = 1 THEN MoveToFront(b) ELSE UNCHANGED lru
  /\ Return(p)
  /\ UNCHANGED <<blockno, valid, data, locked, waiting, pinned, disk, panic>>

-----------------------------------------------------------------------------
Next ==
  \E p \in Procs :
    \/ \E k \in Blocks : bget_hit(p, k) \/ bget_miss(p, k) \/ bget_panic(p, k)
    \/ acquiresleep(p) \/ bread(p) \/ brelse(p)
    \/ \E b \in Bufs :
         \/ bwrite(p, b) \/ bpin(p, b) \/ bunpin(p, b) \/ releasesleep(p, b)
         \/ \E v \in Values : modify(p, b, v)

Spec == Init /\ [][Next]_vars

-----------------------------------------------------------------------------
TypeOK ==
  /\ blockno \in [Bufs -> Blocks \cup {None}] /\ valid \in [Bufs -> BOOLEAN]
  /\ refcnt \in [Bufs -> 0 .. Cardinality(Procs) + 1] /\ data \in [Bufs -> Values]
  /\ lru \in [Bufs -> Bufs]
  /\ locked \in [Bufs -> Procs \cup {None}]
  /\ waiting \subseteq Procs /\ pinned \subseteq Blocks
  /\ disk \in [Blocks -> Values]
  /\ pc \in [Procs -> {"ready", "lock", "fill", "release"}]
  /\ buf \in [Procs -> Bufs \cup {NoBuf}]
  /\ panic \in BOOLEAN

\* p has buffer b: locked, or on the way into or out of acquiresleep().
Has(p, b) == buf[p] = b \/ locked[b] = p

\* The reference count of a buffer is the number of processes that have it or
\* wait for it, plus one if the log has pinned its block: bget() recycles no
\* buffer that somebody uses, although brelse() gives up the sleep lock first.
RefcntExact ==
  \A b \in Bufs :
    refcnt[b] = Cardinality({p \in Procs : Has(p, b)})
                + (IF blockno[b] \in pinned THEN 1 ELSE 0)

\* No block is in two buffers, and the list has every buffer once.
OneBuffer ==
  /\ \A b, c \in Bufs : blockno[b] # None /\ blockno[b] = blockno[c] => b = c
  /\ Range(lru) = Bufs

\* Whoever sleeps in acquiresleep() sleeps for a buffer that another process
\* has locked: releasesleep() leaves nobody behind, whichever of the processes
\* it woke, or a newcomer, takes the lock first.  And no processes that hold one
\* buffer and want another sleep for each other in a circle.
SleepersWoken ==
  /\ \A p \in waiting : locked[buf[p]] \notin {None, p}
  /\ \A W \in SUBSET waiting : W # {} => \E p \in W : locked[buf[p]] \notin W

\* bget() gives up only when every buffer is pinned by the log or in the hands
\* of a process: no reference is leaked that would use the cache up.
PanicOnlyWhenFull ==
  panic => \A b \in Bufs : blockno[b] \in pinned \/ \E p \in Procs : Has(p, b)

\* The block as the next bread() shows it.
Shown == [k \in Blocks |->
            IF \E b \in Bufs : blockno[b] = k /\ valid[b]
            THEN data[CHOOSE b \in Bufs : blockno[b] = k /\ valid[b]]
            ELSE disk[k]]

S == INSTANCE BlockStore WITH
       content <- Shown,
       kept <- [k \in Blocks |-> IF k \in pinned THEN Shown[k] ELSE disk[k]],
       holder <- [k \in Blocks |->
                    IF \E b \in Bufs : blockno[b] = k /\ valid[b] /\ locked[b] # None
                    THEN locked[CHOOSE b \in Bufs : blockno[b] = k]
                    ELSE None]

\* Through the cache every block is one cell with a lock, whatever is evicted,
\* pinned or read again from the disk; a change that its holder neither logs
\* nor writes may be undone once nobody holds the block, and no other change.
StoreStep == S!Same \/ S!Next
=============================================================================
