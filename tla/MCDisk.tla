------------------------------- MODULE MCDisk -------------------------------
(***************************************************************************)
(* The buffer cache and the disk driver below it, side by side.  Bcache    *)
(* sees the driver as a disk that Virtio is shown to implement.  `part'    *)
(* names the instance that runs; a variable it does not have is None.      *)
(*   bcache  three processes share two buffers, of which the log may pin   *)
(*           one; whoever holds k1, an indirect block or a block of the    *)
(*           log, may ask for another block as well                        *)
(*   queue   Virtio: three processes and descriptors for one request       *)
(*   data    Virtio: two processes, each with a request on its way         *)
(***************************************************************************)
EXTENDS Integers, TLC

CONSTANTS p1, p2, p3, k1, k2, k3, None

VARIABLES part, pc, data, panic,
          blockno, valid, refcnt, lru, locked, waiting, pinned, disk, buf,
          desc, free, ops, info, avail, availidx, used, usedidx, used_idx, irq, intr, busy,
          asleep, idx, req, taken, doing, did, store

common == <<pc, data, panic>>
cache  == <<blockno, valid, refcnt, lru, locked, waiting, pinned, disk, buf>>
driver == <<desc, free, ops, info, avail, availidx, used, usedidx, used_idx, irq, intr, busy,
            asleep, idx, req, taken, doing, did, store>>

NoCache  == /\ blockno = None /\ valid = None /\ refcnt = None /\ lru = None /\ locked = None
            /\ waiting = None /\ pinned = None /\ disk = None /\ buf = None
NoDriver == /\ desc = None /\ free = None /\ ops = None /\ info = None /\ avail = None
            /\ availidx = None /\ used = None /\ usedidx = None /\ used_idx = None
            /\ irq = None /\ intr = None /\ busy = None /\ asleep = None /\ idx = None
            /\ req = None /\ taken = None /\ doing = None /\ did = None /\ store = None

Cache == INSTANCE Bcache WITH
  Procs <- {p1, p2, p3}, Blocks <- {k1, k2, k3}, Values <- {0, 1}, NBUF <- 2, LOGBLOCKS <- 1,
  Nests <- {<<k1, k2>>, <<k1, k3>>}

\* Ring indices wrap at the size of the ring.
Queue == INSTANCE Virtio WITH
  Procs <- {p1, p2, p3}, Blocks <- {k1, k2, k3}, Values <- {0}, NUM <- 4, IdxMod <- 4
Data == INSTANCE Virtio WITH
  Procs <- {p1, p2}, Blocks <- {k1, k2}, Values <- {0, 1}, NUM <- 6, IdxMod <- 6

ASSUME DiskSizes ==
  Cache!NbufAssumption /\ Queue!VirtioAssumption /\ Data!VirtioAssumption

\* Processes are interchangeable, and so are the blocks other than k1; p3 and k3
\* are in some instances only.
DiskSymmetry == Permutations({p1, p2, p3}) \cup Permutations({k2, k3})

MCInit ==
  \/ part = "bcache" /\ Cache!Init /\ NoDriver
  \/ part = "queue" /\ Queue!Init /\ NoCache
  \/ part = "data" /\ Data!Init /\ NoCache

\* After panic("bget: no buffers") nothing happens any more.
Panicked == part = "bcache" /\ panic /\ UNCHANGED <<common, cache, driver>>

MCNext ==
  /\ UNCHANGED part
  /\ \/ part = "bcache" /\ Cache!Next /\ UNCHANGED driver
     \/ Panicked
     \/ part = "queue" /\ Queue!Next /\ UNCHANGED cache
     \/ part = "data" /\ Data!Next /\ UNCHANGED cache

MCSpec == MCInit /\ [][MCNext]_<<part, common, cache, driver>>
-----------------------------------------------------------------------------
\* The reference count of a buffer is the number of processes that have it or
\* wait for it, plus the log's pin, and no block is in two buffers; nobody
\* sleeps in acquiresleep() for a free buffer, and no processes that hold one
\* buffer and ask for a second sleep in a circle; bget() gives up only when every
\* buffer is in use.  Every descriptor of the disk is free or in the chain of
\* one request, none is freed twice, no used entry is read that is stale, and
\* nobody sleeps for descriptors or a request that are there.
DiskResourcesExact ==
  /\ part = "bcache" => /\ Cache!TypeOK /\ Cache!RefcntExact /\ Cache!OneBuffer
                        /\ Cache!SleepersWoken /\ Cache!PanicOnlyWhenFull
  /\ part = "queue" => /\ Queue!TypeOK /\ Queue!NoPanic /\ Queue!DescOwned
                       /\ Queue!NoLostWakeup
  /\ part = "data" => /\ Data!TypeOK /\ Data!NoPanic /\ Data!DescOwned
                      /\ Data!NoLostWakeup

\* Through bread(), bwrite() and brelse() every block is one cell with a lock,
\* whatever is evicted, pinned or read again from the disk; only a change that
\* its holder neither logged nor wrote may be undone.
ImplementsBlockStore == [][part = "bcache" => Cache!StoreStep]_<<common, cache>>

\* Every request is carried out exactly once, for its own block and with its
\* own buffer, before virtio_disk_rw() returns.
ImplementsDisk == [][part = "data" => Data!DiskStep]_<<common, driver>>
=============================================================================
