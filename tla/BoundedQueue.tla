---------------------------- MODULE BoundedQueue ----------------------------
(***************************************************************************)
(* What the producer-consumer system calls promise to their callers: one   *)
(* bounded first-in first-out queue shared by all processes.  A process    *)
(* that takes an item holds it in `hand` until its system call ends; what  *)
(* it hands over to the user is exactly what it took.                      *)
(***************************************************************************)
EXTENDS Naturals, Sequences

CONSTANTS Procs,      \* the processes that make the calls
          Items,      \* the values they exchange
          Capacity,   \* how many items the queue holds
          NoItem      \* nothing in hand

VARIABLES q,          \* the queue, oldest item first
          hand        \* hand[p]: item p has taken and not yet handed over

vars == <<q, hand>>

Init ==
  /\ q = <<>>
  /\ hand = [p \in Procs |-> NoItem]

Put(i) ==
  /\ Len(q) < Capacity
  /\ q' = Append(q, i)
  /\ UNCHANGED hand

Take(p) ==
  /\ q # <<>>
  /\ hand[p] = NoItem
  /\ hand' = [hand EXCEPT ![p] = Head(q)]
  /\ q' = Tail(q)

\* The system call of p ends: its item went to the user, or was dropped.
HandOver(p) ==
  /\ hand[p] # NoItem
  /\ hand' = [hand EXCEPT ![p] = NoItem]
  /\ UNCHANGED q

\* The queue is initialised again: what was in it is gone.
Reset ==
  /\ q' = <<>>
  /\ UNCHANGED hand

Next ==
  \/ \E i \in Items : Put(i)
  \/ \E p \in Procs : Take(p) \/ HandOver(p)
  \/ Reset

Spec == Init /\ [][Next]_vars
=============================================================================
