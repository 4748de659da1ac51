------------------------------ MODULE MCMemory ------------------------------
(***************************************************************************)
(* Physical pages: the free list of kalloc.c, and the owners of pages in   *)
(* vm.c, exec.c and proc.c above it.  Vm sees the free list as the set     *)
(* that Kalloc is shown to implement, so one run checks them side by side: *)
(* `part' names the one that runs, and the other stays where it starts.    *)
(***************************************************************************)
EXTENDS Kalloc

VARIABLES part, free, other, state, sz, trapframe, tab, loc, panic

\* Two processes with up to five pages; segments and sbrk() end in the middle
\* of a page.  On fourteen pages fork() succeeds and both processes run; the
\* second instance has a page less and gives exec() an argument.
Mem == INSTANCE Vm WITH
  NPROC <- 2, NPAGES <- 14, MaxVa <- 5, LowVa <- 3, USERSTACK <- 1,
  Deltas <- {1, 3}, SegEnds <- {1, 3}, MaxArgs <- 0, MaxOther <- 2

Arg == INSTANCE Vm WITH
  NPROC <- 2, NPAGES <- 13, MaxVa <- 5, LowVa <- 3, USERSTACK <- 1,
  Deltas <- {1, 3}, SegEnds <- {1, 3}, MaxArgs <- 1, MaxOther <- 2

memory == <<free, other, state, sz, trapframe, tab, loc, panic>>

ASSUME MemorySizes == Mem!VmAssumption /\ Arg!VmAssumption

MCInit ==
  /\ Init
  /\ \/ part \in {"kalloc", "vm"} /\ Mem!Init
     \/ part = "arg" /\ Arg!Init

MCNext ==
  /\ UNCHANGED part
  /\ \/ part = "kalloc" /\ Next /\ UNCHANGED memory
     \/ part = "vm" /\ Mem!Next /\ UNCHANGED vars
     \/ part = "arg" /\ Arg!Next /\ UNCHANGED vars

MCSpec == MCInit /\ [][MCNext]_<<part, vars, memory>>

Vm(mem, arg) == (part = "vm" => mem) /\ (part = "arg" => arg)
-----------------------------------------------------------------------------
\* Every physical page is in exactly one place, however far fork(), exec(),
\* sbrk() or a page fault got before memory ran out: no page leaks, is freed
\* twice or is shared.  No panic() of vm.c is reached, and no process in user
\* space has a page beyond its size, which proc_freepagetable() would miss.
PagesOwnedOnce ==
  Vm(Mem!TypeOK /\ Mem!PagesOwnedOnce /\ Mem!NoPanic /\ Mem!MappedBelowSize,
     Arg!TypeOK /\ Arg!PagesOwnedOnce /\ Arg!NoPanic /\ Arg!MappedBelowSize)

\* As long as a process has the memory, a page of it stays where it is, also
\* when a call of fork(), sbrk(), exec() or a page fault fails half way.
MappingsStable == [][Vm(Mem!StableStep, Arg!StableStep)]_memory
=============================================================================
