----------------------------- MODULE MCReturns -----------------------------
(***************************************************************************)
(* Calls that have to return, side by side: pipes, the disk driver and     *)
(* malloc().  `part' names the component that runs; a variable it does not *)
(* have is None.                                                           *)
(***************************************************************************)
EXTENDS Integers

CONSTANTS p1, p2, w1, None

VARIABLES part, pc, asleep, data, used,
          nread, nwrite, readopen, writeopen, freed, lock, ref, fd, killed, i, n, unread,
          desc, free, ops, info, avail, availidx, usedidx, used_idx, irq, intr, busy, idx,
          req, taken, doing, did, store, panic,
          ptr, size, freep, brk, core, bp, at, prevp, nunits, nbytes, then

pipe == <<nread, nwrite, readopen, writeopen, freed, lock, ref, fd, killed, i, n, unread>>
disk == <<desc, free, ops, info, avail, availidx, usedidx, used_idx, irq, intr, busy, idx,
          req, taken, doing, did, store, panic>>
heap == <<ptr, size, freep, brk, core, bp, at, prevp, nunits, nbytes, then>>

NoPipe == /\ nread = None /\ nwrite = None /\ readopen = None /\ writeopen = None
          /\ freed = None /\ lock = None /\ ref = None /\ fd = None /\ killed = None
          /\ i = None /\ n = None /\ unread = None
NoDisk == /\ desc = None /\ free = None /\ ops = None /\ info = None /\ avail = None
          /\ availidx = None /\ usedidx = None /\ used_idx = None /\ irq = None /\ intr = None
          /\ busy = None /\ idx = None /\ req = None /\ taken = None /\ doing = None
          /\ did = None /\ store = None /\ panic = None
NoHeap == /\ ptr = None /\ size = None /\ freep = None /\ brk = None /\ core = None
          /\ bp = None /\ at = None /\ prevp = None /\ nunits = None /\ nbytes = None
          /\ then = None

Pipes == INSTANCE Pipe WITH
  Readers <- {p1, p2}, Writers <- {w1}, Killable <- {w1}, PIPESIZE <- 1, UintMod <- 2,
  Bytes <- {"a"}, MaxN <- 2

Disk == INSTANCE Virtio WITH
  Procs <- {p1, p2}, Blocks <- {1, 2}, Values <- {0}, NUM <- 4, IdxMod <- 4

\* A heap of seven units, of which some are the program's own.
Heap == INSTANCE Umalloc WITH
  Header <- 2, NALLOC <- 3, HeapEnd <- 9, Requests <- {0, 1, 3, 6}, p <- at

ASSUME ReturnSizes ==
  Pipes!PipeAssumption /\ Disk!VirtioAssumption /\ Heap!UmallocAssumption

MCInit ==
  \/ part = "pipe" /\ Pipes!Init /\ used = None /\ NoDisk /\ NoHeap
  \/ part = "disk" /\ Disk!Init /\ NoPipe /\ NoHeap
  \/ part = "heap" /\ Heap!Init /\ asleep = None /\ data = None /\ NoPipe /\ NoDisk

\* All descriptors of the pipe are closed: nothing is left to do.
Closed == part = "pipe" /\ freed /\ UNCHANGED <<pc, asleep, data, used, pipe, disk, heap>>

MCNext ==
  /\ UNCHANGED part
  /\ \/ part = "pipe" /\ Pipes!Next /\ UNCHANGED <<used, disk, heap>>
     \/ Closed
     \/ part = "disk" /\ Disk!Next /\ UNCHANGED <<pipe, heap>>
     \/ part = "heap" /\ Heap!Next /\ UNCHANGED <<asleep, data, pipe, disk>>

\* A process in the kernel goes on, and a spin lock that is free again and
\* again is acquired in the end.  Nobody has to read, write or close.
PipeFairness ==
  \A r \in {p1, p2, w1} :
    SF_<<pc, asleep, data, pipe>>(part = "pipe" /\ Pipes!Kernel(r))

\* The device finishes every request, the handler runs while an interrupt is
\* pending, and a process that is awake again and again is scheduled.
DiskFairness ==
  /\ WF_<<pc, asleep, data, used, disk>>(part = "disk" /\ Disk!Handler)
  /\ WF_<<pc, asleep, data, used, disk>>(part = "disk" /\ Disk!DevTake)
  /\ \A d \in Disk!Descs :
       /\ WF_<<pc, asleep, data, used, disk>>(part = "disk" /\ Disk!DevDo(d))
       /\ WF_<<pc, asleep, data, used, disk>>(part = "disk" /\ Disk!DevUsed(d))
  /\ \A r \in {p1, p2} :
       SF_<<pc, asleep, data, used, disk>>(part = "disk" /\ Disk!Waiting(r))

\* malloc() and free() run in the program that calls them.
HeapFairness == WF_<<pc, used, heap>>(part = "heap" /\ Heap!Step)

MCSpec == /\ MCInit /\ [][MCNext]_<<part, pc, asleep, data, used, pipe, disk, heap>>
          /\ PipeFairness /\ DiskFairness /\ HeapFairness
-----------------------------------------------------------------------------
\* Every unit that sbrk() gave to malloc() is in exactly one block, free, handed
\* out or on its way into the list, and big enough for what was asked; the list
\* is circular, in the order of addresses, and free neighbours are joined,
\* whichever of them was freed first.
HeapTiled == part = "heap" => Heap!TypeOK /\ Heap!Tiled /\ Heap!Sorted

Waits(which, state) == part = which /\ state

\* Once pipeclose() has closed one end, every piperead() or pipewrite() at the
\* other returns, and so does every request that virtio_disk_rw() has handed to
\* the device, and every malloc() and free(): no wakeup and no completion is
\* lost, and the loops over the circular list end.
CallsReturn ==
  /\ \A r \in {p1, p2} : Waits("pipe", ~writeopen /\ pc[r] # "user") ~> ~Waits("pipe", pc[r] # "user")
  /\ Waits("pipe", ~readopen /\ pc[w1] # "user") ~> ~Waits("pipe", pc[w1] # "user")
  /\ \A r \in {p1, p2} : Waits("disk", pc[r] = "wait") ~> ~Waits("disk", pc[r] = "wait")
  /\ Waits("heap", pc # "user") ~> ~Waits("heap", pc # "user")
=============================================================================
