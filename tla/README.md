# A TLA+ verification of xv6-riscv with lottery scheduling, memory calls and a shared buffer

The repository is the xv6 teaching kernel for RISC-V with three additions: a
lottery scheduler (Phase 1), system calls for memory statistics and encryption
(Phase 2), and a producer-consumer buffer in the kernel (Phase 3). This
directory models the kernel, its user library, shell and `mkfs` in TLA+. TLC
checks the models on small instances and TLAPS proves six of them correct for
instances of every size.

`PROJECT.json` says for every definition which lines it models, which run
checks which property, and which change of the code each property would catch.

## How the system fits together

User programs trap into the kernel, whose processes share memory and take turns
on several CPUs. Below the system calls lie these layers, each seen by the one
above it through a promise that a small module of its own states:

| layer | source | module | its promise |
|---|---|---|---|
| producer-consumer buffer | `kernel/sysproc.c` | `SharedBuf` | `BoundedQueue` |
| scheduler | `kernel/proc.c`, `sys_settickets` | `Lottery` | |
| processes | `kernel/proc.c` | `Proc` | |
| spin locks, interrupts, switches | `kernel/spinlock.c`, `trap.c`, `proc.c` | `Spinlock` | |
| pages | `kernel/kalloc.c` | `Kalloc` | `Allocator` |
| address spaces | `kernel/vm.c`, `exec.c`, `proc.c` | `Vm` | |
| copies to and from user memory, `encrypt()` | `kernel/vm.c`, `syscall.c`, `sysproc.c` | `UserCopy` | |
| descriptors | `kernel/file.c`, `sysfile.c` | `Ftable` | |
| pipes | `kernel/pipe.c` | `Pipe` | |
| file contents | `kernel/fs.c`, `file.c` | `File` | `ByteFiles` |
| directories | `kernel/fs.c`, `sysfile.c` | `Dir` | |
| inodes | `kernel/fs.c`, `sysfile.c` | `Inode` | |
| log | `kernel/log.c` | `Log` | `AtomicDisk` |
| buffer cache, sleep locks | `kernel/bio.c`, `sleeplock.c` | `Bcache` | `BlockStore` |
| disk driver | `kernel/virtio_disk.c` | `Virtio` | `DiskService` |
| console input | `kernel/console.c` | `Console` | |
| UART output | `kernel/uart.c` | `Uart` | |
| strings, numbers | `kernel/string.c`, `printf.c`, `user/ulib.c`, `user/printf.c` | `Strings` | |
| `malloc()` | `user/umalloc.c` | `Umalloc` | |
| shell and init | `user/sh.c`, `user/init.c` | `Shell` | |
| `grep` | `user/grep.c` | `Grep` | |
| image builder | `mkfs/mkfs.c` | `Mkfs` | |

A module uses the promise of the layer below and not its code: `Vm` takes the
free list as the set that `Kalloc` implements, `Inode` takes the log as blocks
that become durable together, `Bcache` takes the disk as `DiskService`, and
`Pipe`, `Console`, `Uart`, `Virtio` and `Log` take `sleep()` as one step, which
`Proc` and `Spinlock` justify by taking it apart.

## How the models correspond to the code

State. Fields of the C structures are variables of the same name; a process in
the middle of a call has a program counter `pc[p]`, and the locals it keeps
across a point where others can run are variables indexed by the process.

Actions. An action is the code between two points at which somebody else can
interfere, and has the name of the function it belongs to: `end_op(p)` is
`end_op()` up to its `release()`, `end_op_done(p)` what follows the commit.
What a spin lock protects from `acquire()` to `release()` is one step, unless
the point of the module is what happens inside (`Proc`, `Spinlock`, and the
loops of `Pipe` and `Console`, because `kill()` does not take their locks).

Data. Block and byte contents are small sets of values. A byte written by
`File` is the mark of its writer; pages in `Kalloc` have only their first word,
which is a list pointer while the page is free. Conversions that matter are
kept: `Lottery` computes in two's complement of width `IntBits`, with C's `%`;
ring counters of `Pipe`, `Console` and `Virtio` wrap at a `...Mod` constant.

Faults. `kalloc()`, `balloc()`, `copyin()`, `copyout()`, `fork()` and table
allocation may fail at every call. The machine may crash between any two disk
writes, and in the middle of a block. Processes may be killed at any step.

Per module, what is abstracted is in its opening comment. Some that matter:

* `Log`: a process holds one buffer at a time and any unreferenced buffer may be
  recycled at any time. `OpBlocks` bounds the distinct blocks of an operation.
  The header's `n` and `block[]` lie in the first sector, so a crash leaves the
  old header or the new one; other blocks may be torn.
* `Lottery`: the low `IntBits` of `rand_state` are kept, which evolve
  independently of the others; `random()` is a load and a store, without a lock.
  `RunsOnOneCPU` and `TwoCPUsProgress` hold whatever it returns; what two CPUs that
  repeat each other's numbers do to the odds is not a property TLC can state, and
  `NoStarvation` is about one CPU.
* `Dir`: a path is the sequence of elements `skipelem()` delivers.
* `Inode`: directory entries are counted, not named, in one directory.
* `Bcache`: `Nests` says which block may be asked for with which other in hand:
  the home of a block with the block of the log, the bitmap or a new block with
  an indirect block. Nothing in the code holds three. That this order has no
  circle is read off the callers; with one in `Nests`, `DiskResourcesExact` fails.
* `Vm`: sizes are in half pages; page tables have one level-1 page and two
  level-0 pages for user memory.
* `Shell`: a program that reads a pipe runs until the end of file.
* `Virtio`, `Uart`: device and FIFO are external, modelled from how the drivers
  use them; the device finishes requests in any order.

## The runs

A run checks one instance, or several *side by side*: the MC module chooses
`part` in its initial states and only that instance takes steps, so the number
of states is a sum and not a product. Variables an instance does not have are
`None`. Each `part = "x" => P` in a property is `P` for that instance.

| run | instances | states | properties |
|---|---|---|---|
| `user` | ring of 3, two processes; `copy`, `strings`, `grep`, `parse`, `shell`, `jobs`, `mkfs` | 384,395 | `RingInv`, `ImplementsQueue`, `BytesExact`, `LinesRun`, `ImageSound` |
| `log` | `wide`: overlapping operations that write all they reserved; `tight`: a log with room for one operation | 73,883 | `NoPanic`, `RoomReserved`, `Durability`, `SleeperHasWaker`, `ImplementsAtomicDisk` |
| `lottery` | `two`: two CPUs; `one`: one CPU and every operation; `steady`: one CPU and a settled workload | 464,361 | `RunsOnOneCPU`, `OneCPUDrawSucceeds`, `TwoCPUsProgress`, `NoStarvation` |
| `proc` | four slots, two CPUs | 992,110 | `SchedSafe`, `FamilySound`, `NoLostWakeup` |
| `proc_live` | three slots, two CPUs, fair | 6,645 | `DeathCompletes` |
| `interrupts` | `locks`: a process and two CPUs; `console`; `uart` | 728,222 | `LocksBalanced`, `NoSpinCycle`, `NoLostWakeup`, `ConsoleRing`, `NoByteLost` |
| `memory` | `kalloc`; `vm` and `arg`: two processes, 14 and 13 pages | 359,885 | `OneOwner`, `ImplementsAllocator`, `PagesOwnedOnce`, `MappingsStable` |
| `files` | `table`, `narrow`, `pipe`, `own`, `shared`, `fault` | 710,939 | `FileRefsExact`, `PipeFifo`, `BlocksOwnedOnce`, `ImplementsByteFiles` |
| `disk` | `bcache`: three processes, two buffers, up to two held at once; `queue`, `data`: too few descriptors, two requests | 495,222 | `DiskResourcesExact`, `ImplementsBlockStore`, `ImplementsDisk` |
| `inode` | two processes, crashes; `calls`: every call, on two inodes; `files`: three files and two slots | 1,788,119 | `InodesCached`, `DiskInodesConsistent` |
| `dir` | two processes, three inodes | 739,680 | `NamesLead`, `NoWaitCycle` |
| `returns` | `pipe`, `disk`, `heap`, fair | 66,979 | `HeapTiled`, `CallsReturn` |

What the properties mean:

* `RingInv`, `ImplementsQueue`: `in`, `out` and `count` never drift apart, and
  produce and consume are those of one FIFO queue.
* `BytesExact`: `copyin`, `copyout`, `copyinstr`, `encrypt`, the string
  functions, `gets`, `printint` and `grep` give what reference definitions say,
  for all bounded inputs; a copy that fails has done a prefix.
* `LinesRun`: the parser agrees with a declarative grammar on every line of up to
  five tokens; every program gets the files its line says and no others; the
  shell waits for foreground commands and for nothing that waits for it.
* `ImageSound`: blocks of the image are owned once, the bitmap marks the blocks
  handed out, and files hold what was appended.
* `ImplementsAtomicDisk`, `Durability`: a crash restores a moment between
  operations; with nothing in progress it loses nothing.
* `NoPanic`, `RoomReserved`, `SleeperHasWaker`: reservations suffice, and nobody
  sleeps in `begin_op()` without a waker.
* `RunsOnOneCPU`, `OneCPUDrawSucceeds`, `TwoCPUsProgress`, `NoStarvation`: the
  scheduler runs a process on one CPU only; one CPU idles only if nothing is
  RUNNABLE; two CPUs make progress although a draw may be overtaken; with settled
  tickets every RUNNABLE process runs in the end.
* `SchedSafe`, `FamilySound`, `NoLostWakeup`, `DeathCompletes`: `sched()` is
  entered with the right locks; a slot is reused only when clean and a live
  process has a live parent; no parent sleeps beside a zombie; zombies are
  reaped, and killed processes die.
* `LocksBalanced`, `NoSpinCycle`: `noff` counts the locks a CPU holds and
  interrupts come back as they were, through interrupts and migration; no CPU
  spins for itself or in a circle.
* `ConsoleRing`, `NoByteLost`: unread input is not overwritten and a full ring can
  be read; no byte meets a full FIFO and `tx_busy` is cleared in the end.
* `OneOwner`, `ImplementsAllocator`, `PagesOwnedOnce`, `MappingsStable`: a page
  has one owner, wherever memory runs out, and a failed call does not move or
  drop pages of the process.
* `FileRefsExact`, `PipeFifo`, `BlocksOwnedOnce`, `ImplementsByteFiles`:
  reference counts are exact; pipes deliver each byte once and in order; the
  bitmap marks exactly the blocks in use; chunks of `write()` are atomic.
* `DiskResourcesExact`, `ImplementsBlockStore`, `ImplementsDisk`: buffers and
  descriptors are accounted for, and processes that hold one buffer and ask for a
  second never wait in a circle; a block is one cell with a lock, in which only a
  change that was neither logged nor written may be undone; a request is carried
  out once, for its own block.
* `InodesCached`, `DiskInodesConsistent`: the inode table agrees with the disk,
  `iput()` never blocks under a spin lock, and `iget()` runs out of slots only when
  as many different inodes are in use; after a crash and `ireclaim()` no inode
  without links is left.
* `NamesLead`, `NoWaitCycle`: no name leads to a freed inode, directories form a
  tree, and no processes wait for each other's inodes in a circle.
* `HeapTiled`, `CallsReturn`: every unit of the heap is in one block; calls on a
  half-closed pipe, disk requests, `malloc()` and `free()` return.

Bounds. Two actors show every pairwise race and a third is there where it can
matter (a third waiter for buffers and descriptors, a grandparent in `Proc`).
Every ring wraps within a run, every pool runs out, and counters are kept modulo
a small number: twice the ring for pipes and the console, whose counters the code
subtracts or adds to, and the ring itself for the disk's indices. `MaxPid`
bounds the forks of a run of `Proc`, `MaxLinks` the links of `Inode`, `MaxLines`
and `NPROC` the lines and processes of `Shell`, `MaxOther` the pages in the
hands of pipes. Symmetry is used over processes and blocks where the code does
not order them, and never in a run with a liveness property. Deadlock is checked
everywhere but in `dir`, where the panic of `ilock()` stops the system.

Fairness. A process in the kernel goes on, and a spin lock that is free again
and again is acquired in the end (`SF` on the kernel steps): the hardware's
`amoswap` gives each waiting CPU chances without end. A RUNNABLE process is
dispatched in the end (`SF` on `Dispatch`), which `NoStarvation` shows for the
lottery with settled tickets. Timer interrupts make a running process yield
(`WF`). init calls `wait()` for ever, and a killed process traps sooner or
later. The disk finishes what it was given and its interrupt is delivered.
Nothing is assumed of programs: nobody has to read, write or close.

## What is proved

TLAPS checks the proofs of these modules; none of them rests on anything
unproved but the named assumptions on the constants.

* `SharedBufProofs`, for every `BUFFER_SIZE` and any number of processes, given
  that the totals are wider than the buffer: `RingCorrect`, `TotalsCorrect` (the
  totals differ by `count`, in every snapshot of `buffer_status()` too) and
  `Refinement` (`BoundedQueue`). The inductive invariant is the type invariant
  with `RingInv`, `TotalsAgree`, and that a process holds an item exactly
  between taking and copying it.
* `LotteryProofs`, for any number of CPUs, slots and tickets and any draw:
  `OneCPUHolds`. `RunsOnOneCPU` is inductive with the types of the table, because
  the dispatch looks at the state again under `p->lock`. `OneCPUDraws`: a single
  CPU idles only when nothing is RUNNABLE, given that the tickets of all slots fit
  into an int. Its invariant has the partial sums of the tickets: both loops over
  the table go through the same sums, and the winner lies below the last one.
* `ProcProofs`, for any number of slots, CPUs and pids: `SchedNeverPanics`,
  `NoWakeupLost` and `FamiliesSound`. The inductive invariant says which code holds
  `wait_lock` and which `p->lock`, that `p->state` agrees with where the process
  is, that only a slot under construction has no parent and every other one a
  living parent, which children `reparent()` and which sleepers `wakeup()` have
  still to come to, and what a scan of `wait()` has seen. `FamiliesSound` assumes
  that nobody calls `kill(0)`, which marks a free slot.
* `SpinlockProofs`, for any number of CPUs and processes, which are numbered
  apart: `LocksStayBalanced`, `SpinsEnd` and `TicksReachSleepers`. The inductive invariant gives the shape of every stack
  (the code of a process or of `scheduler()`, perhaps under a trap handler that
  found no lock held, perhaps under one `acquire()` or `release()`), the locks
  that the code at each label holds, the `noff`, interrupt flag and `intena` that
  a stack needs on whichever CPU it runs, where a process that no CPU runs waits
  and in which CPU's `swtch()`, that the lock words say what the stacks say, and
  that a process about to sleep in `pause()` has seen all ticks but the one whose
  `wakeup()` is still to come to it. The proof takes `swtch()`, interrupts, the
  steps of `acquire()` and `release()` and the code between the calls in turn,
  shows apart from them what every step does to the part about ticks, and puts
  the steps together (`Invariance`). Of the
  conclusions, counting locks needs facts about finite sets, and the absence of
  circles that `tickslock` is taken before the lock of a process.
* `KallocProofs`, for any number of pages and threads: `ListCorrect`,
  `OneOwnerHolds`, `Refinement` (`Allocator`). The invariant adds to the shape of
  the list who has a page that is on its way to or from it.
* The log, for any finite set of processes, any blocks, contents and log size:
  `LogProofs` states the inductive invariant and shows that operations, commit,
  crash and recovery preserve it (`Invariance`, `TypeCorrect`).
  The invariant says who holds which buffer, that commit and operations exclude
  each other, that the header on disk names a transaction only from the commit
  point until it is erased, where cache and disk may differ, what the log blocks
  hold at each stage, and that a torn block is never one recovery uses.
  `DurabilityHolds`, `SleepersWoken` and `AtomicityHolds` (the log implements
  `AtomicDisk`) follow. `NoPanicHolds` needs a second invariant that counts the
  blocks running operations may still append, and the assumption that an
  operation logs fewer than `MAXOPBLOCKS` distinct blocks.
* `InodeProofs` and `InodeTheorems`, for any number of inodes, slots and links and
  any finite set of processes: `CacheSound` (`InodesCached`: exact reference
  counts, one slot and one lock for an inode, a cached copy that agrees with the
  disk, open files that keep their inodes, an `iput()` that never sleeps under
  `itable.lock`, no panic in `ilock()` and `sys_unlink()`, and one in `iget()` only
  when `NINODE` different inodes are in use) and `DiskSound` (`DiskInodesConsistent`: what is durable is
  always consistent, the end of an `iput()` is the only step that forgets an inode,
  `ireclaim()` frees all of them). The inductive invariant says who holds a slot,
  its lock and the directory at each program counter; that a new inode is nobody
  else's and one being freed has no other user; that while a freed inode is still
  marked valid in its slot, all others there wait for the lock; and that a link
  count is ahead of the entries by the calls between `iupdate()` and the entry.
  Steps are first reduced to what they do to one slot, one inode and one process
  (`StepKinds`), then each conjunct is shown for these: `InodeProofs` has those
  about the table, `InodeTheorems` those about cached copies, link counts and what
  is durable, crashes and reboots, and the conclusions. Nothing relates the slots
  to the inodes: the kernel has 50 for 200, and "iget: no inodes" is reached when
  50 are in use. That it is not reached before rests on full slots having
  different inodes, each of them in use (`SlotsFull`).

`OneCPUDraws` is what the run checks as `OneCPUDrawSucceeds`, `NoPanicHolds` as
`RoomReserved` for its tight log, and `TicksReachSleepers` the part of the run's
`NoLostWakeup` that is about spin locks: these runs check the properties of an
instance of the module.

Only model-checked: every liveness property (fairness and ENABLED are beyond the
prover), what recursive definitions compute (`Strings`, `Grep`, the parser in
`Shell`, `UserCopy`: this needs induction over data), and all other modules: their
invariants are stated over several components at once or count over sequences, and
no proof of them was made.

## Where code and documents differ

These were met while modelling. The models follow the code, and the properties
state the exception where there is one.

* `sys_consume()` returns -3 when `copyout()` fails (`kernel/sysproc.c:320`), which
  the comment at line 290 does not list, and the item is lost.
* `begin_op()` admits an operation if `MAXOPBLOCKS` more blocks fit, and
  `log_write()` panics when the log *is* full (`kernel/log.c:221`): an operation
  that logs all of its `MAXOPBLOCKS` blocks into a log that they fill panics at
  the next `log_write()`, also of a block that is already logged.
* `random() % total_tickets` is assigned to an `int` (`kernel/proc.c:463`): a
  negative winner selects the first RUNNABLE process. Ticket sums beyond `INT_MAX`
  wrap, and no process is drawn while the sum is not positive. The runs keep the
  sums below that.
* `kill()` that comes between a process's look at `killed()` and its `sleep()` in
  `wait()` (`kernel/proc.c:417`) does not end the sleep: `DeathCompletes` excludes
  that window. `kill(0)` finds a free slot, whose pid is 0.
* The end of an `iput()` that has freed an inode drops its reference untested
  (`kernel/fs.c:361`). By then the number may belong to a new file, and if that one
  has lost its last name and other reference meanwhile, nobody frees it until the
  next boot's `ireclaim()`, although the comment at line 333 says `iput()` does.
* `either_copyin()` that fails half way leaves bytes in a buffer that is not logged
  (`kernel/fs.c:545`): readers may see them until the buffer is recycled
  (`Undo` in `BlockStore`).
  `BlocksOwnedOnce` shows that these are bytes of data and never a pointer.
* A file can be created in a directory that has been removed, and the `..` of such
  a directory may name a freed inode, on which `ilock()` panics. `NamesLead` shows
  that nothing else leads there.
* `mkfs` rounds the size of the root directory to one block more than it has when
  the entries fill their last block (`mkfs/mkfs.c:168`); `ImageSound` states it.

## Not modelled

* Assembly (`entry.S`, `kernelvec.S`, `swtch.S`, `trampoline.S`), `start.c`,
  `main.c`, `plic.c` and the registers set up by `virtio_disk_init()` and
  `uartinit()`: straight-line code over registers, run before there is a second
  thread or taken as one step of `Spinlock`.
* The hardware page-table walk, permissions, `kvmmake()`'s fixed map, and the
  layout of the argument stack in `kexec()`.
* Memory ordering: the models are sequentially consistent, which the fences in
  `acquire()`, `release()` and the disk driver are there to give.
* `printf()`'s directives, `nulterminate()`, `atoi()`, `stat()`, the table of
  system calls and argument registers.
* `copyinstr()` does not bring in lazily allocated pages as `copyin()` does; it is
  modelled so, and no document says which is meant.
* Limits that only the constants decide: `NINODE` against `NFILE`, overflow of
  the 16-bit `nlink`, a `malloc()` request too big for `sbrk()`'s `int`, an image
  bigger than `FSSIZE`.
* Small utilities (`cat`, `echo`, `ls`, `wc`, `ln`, `rm`, `mkdir`, `kill`,
  `zombie`) and the test programs, which are clients of the modelled calls.
* Interaction across more than two layers at a time: the layers meet through
  their promises, and no run composes the whole kernel.

## Running

    tlc -workers 2 -config MCLog.cfg MCLog      # one run; each takes at most a few minutes
    tlapm LogProofs.tla                         # one proof module
