------------------------------- MODULE Kalloc -------------------------------
(***************************************************************************)
(* The physical page allocator of kernel/kalloc.c, with the counters for   *)
(* freemem() and memstat().  The free pages form a list threaded through   *)
(* the pages themselves: next[p] is the first word of page p, which is a   *)
(* list pointer while p is free and whatever the owner writes otherwise.   *)
(*                                                                         *)
(* kmem.lock makes the list operations atomic; filling a page with junk    *)
(* happens outside the lock and is a step of its own.  Pages are numbered  *)
(* 1 .. N, from the first page after the kernel to PHYSTOP.                *)
(***************************************************************************)
EXTENDS Integers, FiniteSets

CONSTANTS Threads,     \* whoever calls kalloc() and kfree() at the same time
          N,           \* pages
          CountMod     \* 2^64: nalloc is a uint64

ASSUME KallocAssumption == N \in Nat \ {0} /\ CountMod \in Nat \ {0}

Pages == 1 .. N
None == 0
Junk == -1            \* what memset() leaves in the first word

VARIABLES freelist, nfree, nalloc,   \* kmem
          next,    \* next[p]: the first word of page p
          used,    \* pages whose owner may write to them
          boot,    \* the next page that kinit() frees
          pc, r,   \* where each thread is, and its page there
          ret      \* ret[t]: what t's last kalloc() returned

vars == <<freelist, nfree, nalloc, next, used, boot, pc, r, ret>>

\* kinit(): nothing is free yet.
Init ==
  /\ freelist = None /\ nfree = 0 /\ nalloc = 0
  /\ next \in [Pages -> {Junk}]
  /\ used = {} /\ boot = 1
  /\ pc = [t \in Threads |-> "idle"]
  /\ r = [t \in Threads |-> None]
  /\ ret = [t \in Threads |-> None]

\* kfree() up to acquire(&kmem.lock): fill the page with junk.
kfree(t, p) ==
  /\ pc[t] = "idle"
  /\ next' = [next EXCEPT ![p] = Junk]
  /\ r' = [r EXCEPT ![t] = p]
  /\ pc' = [pc EXCEPT ![t] = "link"]
  /\ UNCHANGED <<freelist, nfree, nalloc, ret>>

\* kinit() calls kfree() for one page after the other, alone.
freerange(t) ==
  /\ boot <= N /\ \A u \in Threads : pc[u] = "idle"
  /\ kfree(t, boot)
  /\ boot' = boot + 1
  /\ UNCHANGED used

\* Mutant: a page that is still mapped somewhere is freed.
FreePage_still_used(t, p) ==
  /\ boot > N /\ p \in used
  /\ kfree(t, p)
  /\ UNCHANGED <<used, boot>>

\* An owner gives page p back.
FreePage(t, p) ==
  /\ boot > N /\ p \in used
  /\ kfree(t, p)
  /\ used' = used \ {p}
  /\ UNCHANGED boot

\* The part of kfree() under kmem.lock.
kfree_link(t) ==
  /\ pc[t] = "link"
  /\ next' = [next EXCEPT ![r[t]] = freelist]
  /\ freelist' = r[t]
  /\ nfree' = nfree + 1
  /\ pc' = [pc EXCEPT ![t] = "idle"]
  /\ r' = [r EXCEPT ![t] = None]
  /\ UNCHANGED <<nalloc, used, boot, ret>>

\* The part of kalloc() under kmem.lock, with a page on the list, ...
kalloc(t) ==
  /\ pc[t] = "idle" /\ boot > N
  /\ freelist # None
  /\ r' = [r EXCEPT ![t] = freelist] /\ ret' = [ret EXCEPT ![t] = freelist]
  /\ freelist' = next[freelist]
  /\ nfree' = nfree - 1 /\ nalloc' = (nalloc + 1) % CountMod
  /\ pc' = [pc EXCEPT ![t] = "fill"]
  /\ UNCHANGED <<next, used, boot>>

\* Mutant: the last page is not given out.
kalloc_fail_on_last(t) ==
  /\ pc[t] = "idle" /\ boot > N
  /\ nfree <= 1
  /\ ret' = [ret EXCEPT ![t] = None]
  /\ UNCHANGED <<freelist, nfree, nalloc, next, used, boot, pc, r>>

\* ... and with none.
kalloc_fail(t) ==
  /\ pc[t] = "idle" /\ boot > N
  /\ freelist = None
  /\ ret' = [ret EXCEPT ![t] = None]
  /\ UNCHANGED <<freelist, nfree, nalloc, next, used, boot, pc, r>>

\* The memset() at the end of kalloc().
kalloc_fill(t) ==
  /\ pc[t] = "fill"
  /\ next' = [next EXCEPT ![r[t]] = Junk]
  /\ used' = used \cup {r[t]}
  /\ pc' = [pc EXCEPT ![t] = "idle"]
  /\ r' = [r EXCEPT ![t] = None]
  /\ UNCHANGED <<freelist, nfree, nalloc, boot, ret>>

\* An owner writes what it likes, also what looks like a page's address.
Write(p, v) ==
  /\ p \in used
  /\ next' = [next EXCEPT ![p] = v]
  /\ UNCHANGED <<freelist, nfree, nalloc, used, boot, pc, r, ret>>

Next ==
  \/ \E t \in Threads :
       \/ freerange(t) \/ kfree_link(t) \/ kalloc(t) \/ kalloc_fail(t) \/ kalloc_fill(t)
       \/ \E p \in Pages : FreePage(t, p)
  \/ \E p \in Pages, v \in Pages \cup {None} : Write(p, v)

Spec == Init /\ [][Next]_vars

-----------------------------------------------------------------------------
\* The pages that are nobody's: not in use, not on their way into or out of
\* the list, and not still waiting for kinit().
InTransit == {r[t] : t \in {u \in Threads : pc[u] # "idle"}}
FreePages == {p \in Pages : p < boot /\ p \notin used /\ p \notin InTransit}

TypeOK ==
  /\ freelist \in Pages \cup {None}
  /\ nfree \in Nat /\ nalloc \in 0 .. CountMod - 1
  /\ next \in [Pages -> Pages \cup {None, Junk}]
  /\ used \subseteq Pages /\ boot \in 1 .. N + 1
  /\ pc \in [Threads -> {"idle", "link", "fill"}]
  /\ r \in [Threads -> Pages \cup {None}]
  /\ ret \in [Threads -> Pages \cup {None}]

\* s is the list that starts at freelist.
IsFreeList(s) ==
  /\ freelist = (IF nfree = 0 THEN None ELSE s[1])
  /\ \A i \in 1 .. nfree : next[s[i]] = (IF i < nfree THEN s[i + 1] ELSE None)

\* Following the pointers from kmem.freelist visits every free page exactly
\* once and no other page, in nfree steps, whatever the owners of the other
\* pages write: freemem() and memstat() report the length of the list.
ListOK ==
  \E s \in [1 .. nfree -> Pages] :
    /\ IsFreeList(s)
    /\ \A i, j \in 1 .. nfree : s[i] = s[j] => i = j
    /\ \A p \in Pages : p \in FreePages <=> \E i \in 1 .. nfree : s[i] = p

\* No page is in two hands: in use and on its way to or from the list, or
\* held there by two threads.
OneOwner ==
  /\ InTransit \cap used = {}
  /\ \A t, u \in Threads : t # u /\ pc[t] # "idle" /\ pc[u] # "idle" => r[t] # r[u]

A == INSTANCE Allocator WITH free <- FreePages

\* kalloc() and kfree() keep the promises of Allocator.
ImplementsAllocator == A!Spec
=============================================================================
