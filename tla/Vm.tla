--------------------------------- MODULE Vm ---------------------------------
(***************************************************************************)
(* Who owns which physical page: user memory and page tables as fork,      *)
(* exec, sbrk, lazy allocation, exit and wait build and take them down     *)
(* (kernel/vm.c, kernel/exec.c and the memory side of kernel/proc.c), with *)
(* every call of kalloc() and kfree() a step of its own, because processes *)
(* compete for the free pages in between and any kalloc() may return 0.    *)
(*                                                                         *)
(* Sizes are in half pages, so that a size need not be page-aligned.  A    *)
(* page table has a root; for the two pages at the top (trampoline and     *)
(* trapframe) a level-1 and a level-0 page; and for user memory a level-1  *)
(* page and up to two level-0 pages, as Sv39 has below 4 MB.  Contents and *)
(* permissions are left out.  The free list is the set of the module       *)
(* Allocator, and some pages are in the hands of pipes.                    *)
(***************************************************************************)
EXTENDS Integers, FiniteSets, Sequences, SequencesExt

CONSTANTS NPROC,       \* process slots
          NPAGES,      \* physical pages
          MaxVa,       \* user pages below TRAPFRAME
          LowVa,       \* how many of them the first level-0 page table page maps
          USERSTACK,   \* stack pages of a new program
          Deltas,      \* amounts for sbrk(), in half pages
          SegEnds,     \* where a program's segments may end, in half pages
          MaxArgs,     \* arguments of exec()
          MaxOther     \* pages that pipes hold, if any

VmAssumption ==
  /\ {NPROC, NPAGES, MaxVa, LowVa, USERSTACK} \subseteq Nat \ {0}
  /\ Deltas \subseteq Nat \ {0} /\ SegEnds \subseteq Nat \ {0}
  /\ MaxArgs \in Nat /\ MaxOther \in Nat

Slots == 1 .. NPROC
Pages == 1 .. NPAGES
Va == 0 .. MaxVa - 1
None == 0
TRAPFRAME == 2 * MaxVa
Nodes == {"high1", "high0", "low1", "low0", "mid0"}
PgUp(s) == (s + 1) \div 2

VARIABLES free,        \* the free pages
          other,       \* the pages that pipes hold throughout
          state, sz, trapframe,   \* fields of struct proc
          tab,         \* tab[p]: p->pagetable; tab[NPROC + p]: the one exec() builds
          loc,         \* loc[p]: where p is in the kernel, and its local variables
          panic        \* some panic() was reached

vars == <<free, other, state, sz, trapframe, tab, loc, panic>>

NoTable == [root |-> None, node |-> [n \in Nodes |-> None], leaf |-> [a \in Va |-> None],
            top |-> {}]

\* pc; the call; the page being mapped (what), and where to (mem); the size to
\* reach (lim), and what follows (then); exec()'s size; the child; exec()'s
\* arguments; the pages still to be freed.
Idle == [pc |-> "user", op |-> "none", what |-> 0, mem |-> None, lim |-> 0, then |-> "user",
         nsz |-> 0, child |-> None, argv |-> <<>>, drop |-> <<>>]

\* After userinit(): init has a trapframe and an empty page table.
Init ==
  /\ other \in {{}, 5 .. 4 + MaxOther}
  /\ free = Pages \ (1 .. 4 \cup other)
  /\ state = [p \in Slots |-> IF p = 1 THEN "LIVE" ELSE "UNUSED"]
  /\ sz = [p \in Slots |-> 0]
  /\ trapframe = [p \in Slots |-> IF p = 1 THEN 1 ELSE None]
  /\ tab = [i \in 1 .. 2 * NPROC |->
              IF i = 1 THEN [NoTable EXCEPT !.root = 2, !.node["high1"] = 3,
                               !.node["high0"] = 4, !.top = {"trampoline", "trapframe"}]
              ELSE NoTable]
  /\ loc = [p \in Slots |-> Idle]
  /\ panic = FALSE

-----------------------------------------------------------------------------
(* kalloc() and the parts of page tables.                                  *)

At(p, l) == state[p] = "LIVE" /\ loc[p].pc = l
Goto(p, upd) ==
  loc' = [loc EXCEPT ![p] = [x \in DOMAIN Idle |-> IF x \in DOMAIN upd THEN upd[x] ELSE @[x]]]

\* kalloc() succeeds with page g: pages are alike, so the smallest stands for
\* the head of the list.
kalloc(g) == g \in free /\ (\A f \in free : g <= f) /\ free' = free \ {g}
kalloc_fails == free = {} /\ UNCHANGED free

Mapped(s) == SelectSeq(s, LAMBDA g : g # None)

\* The user pages of table t from page lo up to page hi, without hi.
Leaves(t, lo, hi) ==
  Mapped([i \in 1 .. (IF lo < hi THEN hi - lo ELSE 0) |-> t.leaf[lo + i - 1]])

uvmunmap(t, lo, hi) ==
  [t EXCEPT !.leaf = [a \in Va |-> IF a \in lo .. hi - 1 THEN None ELSE @[a]]]

\* What freewalk() frees, and whether it panics because of a leaf.
freewalk(t) ==
  Mapped(<<t.node["low0"], t.node["mid0"], t.node["low1"],
           t.node["high0"], t.node["high1"], t.root>>)
LeafLeft(t) == \E a \in Va : t.leaf[a] # None

\* proc_freepagetable(t, s): the pages it frees (t may be 0).
proc_freepagetable(t, s) == Leaves(t, 0, PgUp(s)) \o freewalk(t)
FreePanics(t, s) == LeafLeft(uvmunmap(t, 0, PgUp(s)))

\* The table p works on.
Target(p) ==
  CASE loc[p].op = "fork" -> loc[p].child
    [] loc[p].op = "exec" -> NPROC + p
    [] OTHER -> p

\* The page table pages that walk() needs and does not have, top down.
Missing(p) ==
  SelectSeq(CASE loc[p].what < 0 -> <<"high1", "high0">>
              [] loc[p].what \in 0 .. LowVa - 1 -> <<"low1", "low0">>
              [] OTHER -> <<"low1", "mid0">>,
            LAMBDA n : tab[Target(p)].node[n] = None)

-----------------------------------------------------------------------------
(* What happens when an allocation fails: p frees what it has, page by     *)
(* page (pc "kfree").                                                      *)

\* Mutant: the page that could not be mapped is not freed.
ForkFails_leaks_mem(p) ==
  LET q == loc[p].child
      t == uvmunmap(tab[q], 0, loc[p].what)
  IN  /\ loc[p].op = "fork"
      /\ Goto(p, [pc |-> "kfree", mem |-> None,
                  drop |-> Leaves(tab[q], 0, loc[p].what)
                           \o Mapped(<<trapframe[q]>>) \o proc_freepagetable(t, sz[q])])
      /\ panic' = (panic \/ FreePanics(t, sz[q]))
      /\ tab' = [tab EXCEPT ![q] = NoTable]
      /\ trapframe' = [trapframe EXCEPT ![q] = None]

\* uvmcopy() and kfork(), or allocproc(), give everything back to freeproc().
ForkFails(p) ==
  LET q == loc[p].child
      t == uvmunmap(tab[q], 0, loc[p].what)
  IN  /\ loc[p].op = "fork"
      /\ Goto(p, [pc |-> "kfree", mem |-> None,
                  drop |-> Mapped(<<loc[p].mem>>) \o Leaves(tab[q], 0, loc[p].what)
                           \o Mapped(<<trapframe[q]>>) \o proc_freepagetable(t, sz[q])])
      /\ panic' = (panic \/ FreePanics(t, sz[q]))
      /\ tab' = [tab EXCEPT ![q] = NoTable]
      /\ trapframe' = [trapframe EXCEPT ![q] = None]

\* uvmalloc() undoes the segment (uvmdealloc), "bad:" in kexec() the rest, and
\* sys_exec() frees the arguments.
ExecFails(p) ==
  LET n == NPROC + p
      lo == PgUp(loc[p].nsz)
      t == uvmunmap(tab[n], lo, loc[p].what)
  IN  /\ loc[p].op = "exec"
      /\ Goto(p, [pc |-> "kfree", mem |-> None, argv |-> <<>>,
                  drop |-> Mapped(<<loc[p].mem>>) \o Leaves(tab[n], lo, loc[p].what)
                           \o proc_freepagetable(t, loc[p].nsz) \o loc[p].argv])
      /\ panic' = (panic \/ FreePanics(t, loc[p].nsz))
      /\ tab' = [tab EXCEPT ![n] = NoTable]
      /\ UNCHANGED trapframe

\* Mutant: rounds the old size down when it undoes an allocation.
SbrkFails_rounds_down(p) ==
  LET lo == sz[p] \div 2 IN
  /\ loc[p].op = "sbrk"
  /\ Goto(p, [pc |-> "kfree", mem |-> None,
              drop |-> Mapped(<<loc[p].mem>>) \o Leaves(tab[p], lo, loc[p].what)])
  /\ tab' = [tab EXCEPT ![p] = uvmunmap(@, lo, loc[p].what)]
  /\ UNCHANGED <<trapframe, panic>>

\* uvmalloc() in growproc().
SbrkFails(p) ==
  LET lo == PgUp(sz[p]) IN
  /\ loc[p].op = "sbrk"
  /\ Goto(p, [pc |-> "kfree", mem |-> None,
              drop |-> Mapped(<<loc[p].mem>>) \o Leaves(tab[p], lo, loc[p].what)])
  /\ tab' = [tab EXCEPT ![p] = uvmunmap(@, lo, loc[p].what)]
  /\ UNCHANGED <<trapframe, panic>>

\* vmfault(): the fault, or the copyin() or copyout(), fails.
FaultFails(p) ==
  /\ loc[p].op = "fault"
  /\ Goto(p, [pc |-> "kfree", mem |-> None, drop |-> Mapped(<<loc[p].mem>>)])
  /\ UNCHANGED <<tab, trapframe, panic>>

kfree(p) ==
  /\ At(p, "kfree") /\ loc[p].drop # <<>>
  /\ free' = free \cup {Head(loc[p].drop)}
  /\ Goto(p, [drop |-> Tail(loc[p].drop)])
  /\ UNCHANGED <<other, state, sz, trapframe, tab, panic>>

\* Back to user space; freeproc() ends by marking its slot UNUSED.
kfree_done(p) ==
  LET q == loc[p].child IN
  /\ At(p, "kfree") /\ loc[p].drop = <<>>
  /\ loc' = [loc EXCEPT ![p] = Idle]
  /\ IF q = None THEN UNCHANGED <<state, sz>>
     ELSE state' = [state EXCEPT ![q] = "UNUSED"] /\ sz' = [sz EXCEPT ![q] = 0]
  /\ UNCHANGED <<other, free, trapframe, tab, panic>>

-----------------------------------------------------------------------------
(* Building page tables: proc_pagetable() and mappages().                  *)

\* uvmcreate().
uvmcreate(p) ==
  /\ At(p, "create")
  /\ \/ \E g \in Pages :
          /\ kalloc(g)
          /\ tab' = [tab EXCEPT ![Target(p)].root = g]
          /\ Goto(p, [pc |-> "map", what |-> -2])
          /\ UNCHANGED <<trapframe, panic>>
     \/ kalloc_fails /\ (ForkFails(p) \/ ExecFails(p))
  /\ UNCHANGED <<other, state, sz>>

\* walk(..., 1) adds a page table page, or cannot.
walk(p) ==
  /\ At(p, "map") /\ Missing(p) # <<>>
  /\ \/ \E g \in Pages :
          /\ kalloc(g)
          /\ tab' = [tab EXCEPT ![Target(p)].node[Head(Missing(p))] = g]
          /\ UNCHANGED <<loc, trapframe, panic>>
     \/ kalloc_fails /\ (ForkFails(p) \/ ExecFails(p) \/ SbrkFails(p) \/ FaultFails(p))
  /\ UNCHANGED <<other, state, sz>>

\* mappages() of the trampoline (what = -2) and the trapframe (what = -1).
map_top(p) ==
  LET w == loc[p].what IN
  /\ At(p, "map") /\ w < 0 /\ Missing(p) = <<>>
  /\ tab' = [tab EXCEPT ![Target(p)].top =
               @ \cup {IF w = -2 THEN "trampoline" ELSE "trapframe"}]
  /\ IF w = -2 THEN Goto(p, [what |-> -1])
     ELSE Goto(p, [pc |-> IF loc[p].op = "fork" THEN "copy" ELSE "segment", what |-> 0])
  /\ UNCHANGED <<other, free, state, sz, trapframe, panic>>

\* mappages() of user page what; it panics when the page is mapped already.
mappages(p) ==
  LET a == loc[p].what
      t == tab[Target(p)]
  IN  /\ At(p, "map") /\ a >= 0 /\ Missing(p) = <<>>
      /\ panic' = (panic \/ t.leaf[a] # None)
      /\ tab' = [tab EXCEPT ![Target(p)].leaf[a] = loc[p].mem]
      /\ CASE loc[p].op = "fork" -> Goto(p, [pc |-> "copy", what |-> a + 1, mem |-> None])
           [] loc[p].op \in {"sbrk", "exec"} ->
                Goto(p, [pc |-> "grow", what |-> a + 1, mem |-> None])
           [] OTHER -> loc' = [loc EXCEPT ![p] = Idle]
      /\ UNCHANGED <<other, free, state, sz, trapframe>>

\* A page to map at what, zeroed or a copy of the parent's.
AllocUser(p) ==
  /\ \E g \in Pages : kalloc(g) /\ Goto(p, [pc |-> "map", mem |-> g])
  /\ UNCHANGED <<tab, trapframe, panic>>

-----------------------------------------------------------------------------
(* sbrk() and page faults.                                                 *)

Running(p) == At(p, "user") /\ sz[p] > 0

sys_sbrk_grow(p, n) ==
  /\ Running(p) /\ sz[p] + n <= TRAPFRAME
  /\ Goto(p, [pc |-> "grow", op |-> "sbrk", what |-> PgUp(sz[p]), lim |-> sz[p] + n])
  /\ UNCHANGED <<other, free, state, sz, trapframe, tab, panic>>

\* growproc() with n < 0: uvmdealloc().  Below zero nothing happens.
sys_sbrk_shrink(p, n) ==
  /\ Running(p) /\ n <= sz[p]
  /\ Goto(p, [pc |-> "kfree", drop |-> Leaves(tab[p], PgUp(sz[p] - n), PgUp(sz[p]))])
  /\ tab' = [tab EXCEPT ![p] = uvmunmap(@, PgUp(sz[p] - n), PgUp(sz[p]))]
  /\ sz' = [sz EXCEPT ![p] = @ - n]
  /\ UNCHANGED <<other, free, state, trapframe, panic>>

sys_sbrk_lazy(p, n) ==
  /\ Running(p) /\ sz[p] + n <= TRAPFRAME
  /\ sz' = [sz EXCEPT ![p] = @ + n]
  /\ UNCHANGED <<other, free, state, trapframe, tab, loc, panic>>

\* vmfault() at user page a, from a trap, copyin() or copyout().
vmfault(p, a) ==
  /\ Running(p) /\ 2 * a < sz[p] /\ tab[p].leaf[a] = None
  /\ Goto(p, [pc |-> "fault", op |-> "fault", what |-> a])
  /\ UNCHANGED <<other, free, state, sz, trapframe, tab, panic>>

vmfault_alloc(p) ==
  /\ At(p, "fault")
  /\ AllocUser(p) \/ (kalloc_fails /\ FaultFails(p))
  /\ UNCHANGED <<other, state, sz>>

\* One turn of uvmalloc()'s loop, for sbrk() or exec(); at its end the caller
\* takes over the new size.
uvmalloc(p) ==
  /\ At(p, "grow") /\ 2 * loc[p].what < loc[p].lim
  /\ AllocUser(p) \/ (kalloc_fails /\ (SbrkFails(p) \/ ExecFails(p)))
  /\ UNCHANGED <<other, state, sz>>

uvmalloc_done(p) ==
  /\ At(p, "grow") /\ 2 * loc[p].what >= loc[p].lim
  /\ IF loc[p].op = "sbrk"
     THEN sz' = [sz EXCEPT ![p] = loc[p].lim] /\ loc' = [loc EXCEPT ![p] = Idle]
     ELSE /\ Goto(p, [pc |-> loc[p].then, nsz |-> loc[p].lim, what |-> 0, lim |-> 0])
          /\ UNCHANGED sz
  /\ UNCHANGED <<other, free, state, trapframe, tab, panic>>

-----------------------------------------------------------------------------
(* fork(), exit() and wait().                                              *)

\* allocproc() finds slot q.
kfork(p, q) ==
  /\ Running(p) /\ state[q] = "UNUSED"
  /\ state' = [state EXCEPT ![q] = "USED"]
  /\ Goto(p, [pc |-> "trapframe", op |-> "fork", child |-> q])
  /\ UNCHANGED <<other, free, sz, trapframe, tab, panic>>

allocproc_trapframe(p) ==
  /\ At(p, "trapframe")
  /\ \/ \E g \in Pages :
          /\ kalloc(g)
          /\ trapframe' = [trapframe EXCEPT ![loc[p].child] = g]
          /\ Goto(p, [pc |-> "create"])
          /\ UNCHANGED <<tab, panic>>
     \/ kalloc_fails /\ ForkFails(p)
  /\ UNCHANGED <<other, state, sz>>

\* One turn of uvmcopy()'s loop: skip a page that is not there, or copy it.
uvmcopy_skip(p) ==
  LET a == loc[p].what IN
  /\ At(p, "copy") /\ 2 * a < sz[p] /\ tab[p].leaf[a] = None
  /\ Goto(p, [what |-> a + 1])
  /\ UNCHANGED <<other, free, state, sz, trapframe, tab, panic>>

uvmcopy(p) ==
  LET a == loc[p].what IN
  /\ At(p, "copy") /\ 2 * a < sz[p] /\ tab[p].leaf[a] # None
  /\ AllocUser(p) \/ (kalloc_fails /\ ForkFails(p))
  /\ UNCHANGED <<other, state, sz>>

kfork_done(p) ==
  LET q == loc[p].child IN
  /\ At(p, "copy") /\ 2 * loc[p].what >= sz[p]
  /\ sz' = [sz EXCEPT ![q] = sz[p]]
  /\ state' = [state EXCEPT ![q] = "LIVE"]
  /\ loc' = [loc EXCEPT ![p] = Idle, ![q] = Idle]
  /\ UNCHANGED <<other, free, trapframe, tab, panic>>

kexit(p) ==
  /\ At(p, "user") /\ p # 1
  /\ state' = [state EXCEPT ![p] = "ZOMBIE"]
  /\ UNCHANGED <<other, free, sz, trapframe, tab, loc, panic>>

\* kwait() calls freeproc() for q.
kwait(p, q) ==
  /\ Running(p) /\ state[q] = "ZOMBIE"
  /\ Goto(p, [pc |-> "kfree", child |-> q,
              drop |-> <<trapframe[q]>> \o proc_freepagetable(tab[q], sz[q])])
  /\ panic' = (panic \/ FreePanics(tab[q], sz[q]))
  /\ state' = [state EXCEPT ![q] = "USED"]
  /\ tab' = [tab EXCEPT ![q] = NoTable]
  /\ trapframe' = [trapframe EXCEPT ![q] = None]
  /\ UNCHANGED <<other, free, sz>>

-----------------------------------------------------------------------------
(* exec().                                                                 *)

sys_exec(p) ==
  /\ At(p, "user")
  /\ Goto(p, [pc |-> "args", op |-> "exec"])
  /\ UNCHANGED <<other, free, state, sz, trapframe, tab, panic>>

\* sys_exec() copies an argument into a page of its own, ...
sys_exec_arg(p) ==
  /\ At(p, "args") /\ Len(loc[p].argv) < MaxArgs
  /\ \/ \E g \in Pages : kalloc(g) /\ Goto(p, [argv |-> Append(loc[p].argv, g)])
                         /\ UNCHANGED <<tab, trapframe, panic>>
     \/ kalloc_fails /\ ExecFails(p)
  /\ UNCHANGED <<other, state, sz>>

\* ... and calls kexec(), which starts with the file and its header.
kexec(p) ==
  /\ At(p, "args")
  /\ Goto(p, [pc |-> "create"])
  /\ UNCHANGED <<other, free, state, sz, trapframe, tab, panic>>

\* A bad argument, file, header, segment or stack.
kexec_bad(p) ==
  /\ At(p, "args") \/ At(p, "segment") \/ At(p, "commit")
  /\ ExecFails(p)
  /\ UNCHANGED <<other, free, state, sz>>

\* A segment that ends at s, which leaves room for the stack.  (One that ends
\* below the segments before it allocates nothing.)
kexec_segment(p, s) ==
  /\ At(p, "segment")
  /\ s >= loc[p].nsz /\ PgUp(s) + USERSTACK + 1 <= MaxVa
  /\ Goto(p, [pc |-> "grow", what |-> PgUp(loc[p].nsz), lim |-> s, then |-> "segment"])
  /\ UNCHANGED <<other, free, state, sz, trapframe, tab, panic>>

\* After the last segment: a guard page and the stack at the next page.
kexec_stack(p) ==
  LET n == PgUp(loc[p].nsz) IN
  /\ At(p, "segment") /\ loc[p].nsz > 0
  /\ Goto(p, [pc |-> "grow", what |-> n, nsz |-> 2 * n, lim |-> 2 * (n + USERSTACK + 1),
              then |-> "commit"])
  /\ UNCHANGED <<other, free, state, sz, trapframe, tab, panic>>

\* The new image replaces the old one, which is freed with its own size.
kexec_commit(p) ==
  LET n == NPROC + p IN
  /\ At(p, "commit")
  /\ tab' = [tab EXCEPT ![p] = tab[n], ![n] = NoTable]
  /\ sz' = [sz EXCEPT ![p] = loc[p].nsz]
  /\ Goto(p, [pc |-> "kfree", argv |-> <<>>,
              drop |-> proc_freepagetable(tab[p], sz[p]) \o loc[p].argv])
  /\ panic' = (panic \/ FreePanics(tab[p], sz[p]))
  /\ UNCHANGED <<other, free, state, trapframe>>

-----------------------------------------------------------------------------
Next ==
  \E p \in Slots :
    \/ kfree(p) \/ kfree_done(p)
    \/ uvmcreate(p) \/ walk(p) \/ map_top(p) \/ mappages(p)
    \/ \E n \in Deltas : sys_sbrk_grow(p, n) \/ sys_sbrk_shrink(p, n) \/ sys_sbrk_lazy(p, n)
    \/ \E a \in Va : vmfault(p, a)
    \/ vmfault_alloc(p) \/ uvmalloc(p) \/ uvmalloc_done(p)
    \/ \E q \in Slots : kfork(p, q) \/ kwait(p, q)
    \/ allocproc_trapframe(p) \/ uvmcopy_skip(p) \/ uvmcopy(p) \/ kfork_done(p) \/ kexit(p)
    \/ sys_exec(p) \/ sys_exec_arg(p) \/ kexec(p) \/ kexec_bad(p)
    \/ \E s \in SegEnds : kexec_segment(p, s)
    \/ kexec_stack(p) \/ kexec_commit(p)

Spec == Init /\ [][Next]_vars

-----------------------------------------------------------------------------
PageOrNone == Pages \cup {None}
Tables == [root : PageOrNone, node : [Nodes -> PageOrNone], leaf : [Va -> PageOrNone],
           top : SUBSET {"trampoline", "trapframe"}]

TypeOK ==
  /\ free \subseteq Pages /\ other \subseteq Pages
  /\ state \in [Slots -> {"UNUSED", "USED", "LIVE", "ZOMBIE"}]
  /\ sz \in [Slots -> 0 .. TRAPFRAME]
  /\ trapframe \in [Slots -> PageOrNone]
  /\ \A i \in 1 .. 2 * NPROC : tab[i] \in Tables
  /\ \A p \in Slots :
       /\ loc[p].mem \in PageOrNone /\ loc[p].child \in Slots \cup {None}
       /\ loc[p].what \in -2 .. MaxVa
       /\ {loc[p].lim, loc[p].nsz} \subseteq 0 .. TRAPFRAME
       /\ \A g \in Range(loc[p].argv) \cup Range(loc[p].drop) : g \in Pages
  /\ panic \in BOOLEAN

\* The pages in page tables, and those in the hands of kernel code.
Held ==
  FlattenSeq([i \in 1 .. 2 * NPROC |-> proc_freepagetable(tab[i], TRAPFRAME)])
  \o FlattenSeq([p \in Slots |-> Mapped(<<trapframe[p], loc[p].mem>>)
                                 \o loc[p].argv \o loc[p].drop])

\* Every physical page is in exactly one place, however far fork, exec or sbrk
\* got before memory ran out: no page leaks, is freed twice, or is shared.
PagesOwnedOnce ==
  /\ free \cup other \cup Range(Held) = Pages
  /\ Cardinality(free) + Cardinality(other) + Len(Held) = NPAGES

\* freewalk() never meets a mapping and mappages() never a mapped page.
NoPanic == ~panic

\* A process in user space has no page mapped beyond its size: proc_freepagetable()
\* would miss it.
MappedBelowSize ==
  \A p \in Slots : state[p] \in {"LIVE", "ZOMBIE"} /\ loc[p].pc = "user" =>
    \A a \in Va : tab[p].leaf[a] # None => 2 * a < sz[p]

\* As long as a process has the memory (its size covers the page and it has not
\* gone on to another program) a page of it stays where it is, also when a call
\* of fork, sbrk, exec or a page fault fails half way.
StableStep ==
  \A p \in Slots, a \in Va :
    /\ tab[p].leaf[a] # None /\ 2 * a < sz[p] /\ 2 * a < sz'[p]
    /\ tab'[p].root = tab[p].root
    => tab'[p].leaf[a] = tab[p].leaf[a]
=============================================================================
