----------------------------- MODULE Allocator -----------------------------
(***************************************************************************)
(* What kernel/kalloc.c promises its callers: a page that kalloc() returns *)
(* was free and is nobody else's until it is given back, and kalloc()      *)
(* returns 0 only when no page is free.                                    *)
(***************************************************************************)
EXTENDS Integers

CONSTANTS Threads, Pages

None == 0

VARIABLES free,   \* the pages nobody owns
          ret     \* ret[t]: what t's last kalloc() returned

vars == <<free, ret>>

Init == free = {} /\ ret = [t \in Threads |-> None]

Alloc(t) ==
  \E p \in free :
    /\ free' = free \ {p}
    /\ ret' = [ret EXCEPT ![t] = p]

Fail(t) ==
  /\ free = {}
  /\ ret' = [ret EXCEPT ![t] = None]
  /\ UNCHANGED free

Free ==
  \E p \in Pages \ free :
    /\ free' = free \cup {p}
    /\ UNCHANGED ret

Next == Free \/ \E t \in Threads : Alloc(t) \/ Fail(t)

Spec == Init /\ [][Next]_vars
=============================================================================
