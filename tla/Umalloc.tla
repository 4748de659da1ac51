------------------------------- MODULE Umalloc -------------------------------
(***************************************************************************)
(* The user programs' malloc() and free() (user/umalloc.c): a circular     *)
(* list of free blocks in the order of their addresses, starting at the    *)
(* static header base.                                                     *)
(*                                                                         *)
(* Addresses and sizes are in headers; a block is a header and the units   *)
(* it hands out.  base has address 0, and the heap starts above it.  One   *)
(* step is one iteration of a search.  Requests are small enough for       *)
(* sbrk()'s int argument.                                                  *)
(***************************************************************************)
EXTENDS Integers, FiniteSets

CONSTANTS Header,    \* sizeof(Header) in bytes
          NALLOC,    \* the least number of units to ask of sbrk()
          HeapEnd,   \* the heap may not grow beyond this address
          Requests,  \* sizes asked of malloc(), in bytes
          None       \* the null pointer

base == 0
Heap == 2 .. HeapEnd - 1     \* address 1 keeps base apart from the heap
Addr == {base} \cup Heap

UmallocAssumption ==
  /\ Header \in Nat \ {0} /\ NALLOC \in Nat \ {0} /\ HeapEnd \in Nat /\ Requests \subseteq Nat
  /\ None \notin Nat

VARIABLES ptr, size,  \* of each header
          freep,      \* the start of every search
          brk,        \* the end of the heap
          core,       \* the heap's addresses that came from morecore()
          used,       \* the blocks handed out, with the bytes asked for
          pc, bp, p, prevp, nunits, nbytes,  \* the call in progress
          then        \* where free() returns to

list == <<ptr, size, freep>>
call == <<pc, bp, p, prevp, nunits, nbytes, then>>
vars == <<ptr, size, freep, brk, core, used, pc, bp, p, prevp, nunits, nbytes, then>>

Units(n) == (n + Header - 1) \div Header + 1

TypeOK ==
  /\ ptr \in [Addr -> Addr \cup {None}]
  /\ size \in [Addr -> 0 .. HeapEnd]
  /\ freep \in Addr \cup {None}
  /\ brk \in 2 .. HeapEnd /\ core \subseteq Heap
  /\ used \subseteq Heap \X Requests
  /\ pc \in {"user", "search", "free"} /\ then \in {"user", "search"}
  /\ bp \in Addr \cup {None} /\ prevp \in Addr \cup {None}
  /\ p \in IF pc = "user" THEN {None} ELSE Addr
  /\ nunits \in Nat /\ nbytes \in Nat

Init ==
  /\ ptr = [a \in Addr |-> None] /\ size = [a \in Addr |-> 0]
  /\ freep = None
  /\ brk = 2 /\ core = {} /\ used = {}
  /\ pc = "user" /\ then = "user"
  /\ bp = None /\ p = None /\ prevp = None /\ nunits = 0 /\ nbytes = 0

\* Headers inside a bigger block are never read again: their contents, which
\* the program may overwrite, are forgotten.
Cleared(sz, pt, gone) ==
  [size |-> [a \in Addr |-> IF a \in gone THEN 0 ELSE sz[a]],
   ptr  |-> [a \in Addr |-> IF a \in gone THEN None ELSE pt[a]]]

Idle ==
  /\ pc' = "user" /\ then' = "user"
  /\ bp' = None /\ p' = None /\ prevp' = None /\ nunits' = 0 /\ nbytes' = 0
-----------------------------------------------------------------------------
(* malloc() and morecore().                                                *)

\* The first call makes the list of base alone.
malloc(n) ==
  /\ pc = "user"
  /\ IF freep = None
     THEN ptr' = [ptr EXCEPT ![base] = base] /\ freep' = base
     ELSE UNCHANGED <<ptr, freep>>
  /\ prevp' = freep' /\ p' = ptr'[freep']
  /\ nunits' = Units(n) /\ nbytes' = n
  /\ pc' = "search"
  /\ UNCHANGED <<size, brk, core, used, bp, then>>

\* Mutant: the address of the tail is taken before the size is reduced.
malloc_fit_beyond ==
  LET rest == size[p] - nunits
      q    == IF rest = 0 THEN p ELSE p + size[p]
  IN  /\ pc = "search" /\ size[p] >= nunits
      /\ IF rest = 0
         THEN ptr' = [ptr EXCEPT ![prevp] = ptr[p], ![p] = None] /\ UNCHANGED size
         ELSE size' = [size EXCEPT ![p] = rest, ![q] = nunits] /\ UNCHANGED ptr
      /\ freep' = prevp
      /\ used' = used \cup {<<q, nbytes>>}
      /\ Idle
      /\ UNCHANGED <<brk, core>>

\* Block p is big enough: it is unlinked, or its tail is cut off.
malloc_fit ==
  LET rest == size[p] - nunits
      q    == p + rest
  IN  /\ pc = "search" /\ size[p] >= nunits
      /\ IF rest = 0
         THEN ptr' = [ptr EXCEPT ![prevp] = ptr[p], ![p] = None] /\ UNCHANGED size
         ELSE size' = [size EXCEPT ![p] = rest, ![q] = nunits] /\ UNCHANGED ptr
      /\ freep' = prevp
      /\ used' = used \cup {<<q, nbytes>>}
      /\ Idle
      /\ UNCHANGED <<brk, core>>

malloc_next ==
  /\ pc = "search" /\ size[p] < nunits /\ p # freep
  /\ prevp' = p /\ p' = ptr[p]
  /\ UNCHANGED <<list, brk, core, used, pc, bp, nunits, nbytes, then>>

\* Once around the list: morecore() gets a block and frees it into the list.
morecore ==
  LET nu == IF nunits < NALLOC THEN NALLOC ELSE nunits
  IN  /\ pc = "search" /\ size[p] < nunits /\ p = freep
      /\ brk + nu <= HeapEnd
      /\ brk' = brk + nu
      /\ core' = core \cup (brk .. brk + nu - 1)
      /\ size' = [size EXCEPT ![brk] = nu]
      /\ bp' = brk /\ p' = freep
      /\ pc' = "free" /\ then' = "search"
      /\ UNCHANGED <<ptr, freep, used, prevp, nunits, nbytes>>

\* sbrk() fails, and malloc() returns 0.
morecore_fail ==
  /\ pc = "search" /\ size[p] < nunits /\ p = freep
  /\ Idle
  /\ UNCHANGED <<list, brk, core, used>>
-----------------------------------------------------------------------------
(* free().                                                                 *)

free(b) ==
  /\ pc = "user"
  /\ used' = used \ {b}
  /\ bp' = b[1] /\ p' = freep
  /\ pc' = "free"
  /\ UNCHANGED <<list, brk, core, prevp, nunits, nbytes, then>>

\* The block goes between p and its successor, or to one end of the list.
Here ==
  \/ bp > p /\ bp < ptr[p]
  \/ p >= ptr[p] /\ (bp > p \/ bp < ptr[p])

free_next ==
  /\ pc = "free" /\ ~Here
  /\ p' = ptr[p]
  /\ UNCHANGED <<list, brk, core, used, pc, bp, prevp, nunits, nbytes, then>>

\* The list after bp is joined with its upper and then with its lower neighbour.
Joined ==
  LET up == bp + size[bp] = ptr[p]
      dn == p + size[p] = bp
      n  == size[bp] + (IF up THEN size[ptr[p]] ELSE 0)
      x  == IF up THEN ptr[ptr[p]] ELSE ptr[p]
      gone == (IF up THEN {ptr[p]} ELSE {}) \cup (IF dn THEN {bp} ELSE {})
  IN  Cleared(IF dn THEN [size EXCEPT ![p] = @ + n] ELSE [size EXCEPT ![bp] = n],
              IF dn THEN [ptr EXCEPT ![p] = x] ELSE [ptr EXCEPT ![bp] = x, ![p] = bp],
              gone)

\* free() returns to the program, or to malloc(), whose loop moves on.
free_link ==
  /\ pc = "free" /\ Here
  /\ size' = Joined.size /\ ptr' = Joined.ptr
  /\ freep' = p
  /\ IF then = "user" THEN Idle
     ELSE /\ pc' = "search" /\ then' = "user" /\ bp' = None
          /\ prevp' = p /\ p' = ptr'[p]
          /\ UNCHANGED <<nunits, nbytes>>
  /\ UNCHANGED <<brk, core, used>>

\* The program calls sbrk() itself: the heap is not all malloc()'s.
sbrk ==
  /\ pc = "user" /\ brk < HeapEnd
  /\ brk' = brk + 1
  /\ UNCHANGED <<list, core, used, call>>

Step == malloc_fit \/ malloc_next \/ morecore \/ morecore_fail \/ free_next \/ free_link

Next == (\E n \in Requests : malloc(n)) \/ (\E b \in used : free(b)) \/ sbrk \/ Step

Spec == Init /\ [][Next]_vars
-----------------------------------------------------------------------------
\* The blocks of the list.
RECURSIVE From(_, _)
From(a, seen) == IF a \in seen THEN seen ELSE From(ptr[a], seen \cup {a})

Free == IF freep = None THEN {} ELSE From(freep, {})

Span(a) == a .. a + size[a] - 1

InHand == IF pc = "free" THEN {bp} ELSE {}

\* Every unit that sbrk() gave to malloc() is in exactly one block, free, handed
\* out or on its way into the list; no block reaches outside; and a block holds
\* the bytes that were asked for.
Tiled ==
  LET blocks == (Free \ {base}) \cup {b[1] : b \in used} \cup InHand
  IN  /\ core = UNION {Span(a) : a \in blocks}
      /\ \A a, c \in blocks : a # c => Span(a) \cap Span(c) = {}
      /\ Cardinality({b[1] : b \in used}) = Cardinality(used)
      /\ \A b \in used : (size[b[1]] - 1) * Header >= b[2]

\* The list is circular and in the order of addresses, and free neighbours have
\* been joined, whichever of the two was freed first.
Sorted ==
  freep # None =>
    \A a \in Free :
      /\ base \in Free
      /\ IF \E c \in Free : c > a
         THEN ptr[a] > a /\ ~\E c \in Free : a < c /\ c < ptr[a]
         ELSE ptr[a] = base
      /\ a # base => a + size[a] # ptr[a]
=============================================================================
