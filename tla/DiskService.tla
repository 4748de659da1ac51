---------------------------- MODULE DiskService ----------------------------
(***************************************************************************)
(* What virtio_disk_rw() promises the buffer cache: a request is carried   *)
(* out exactly once, at one moment between call and return.                *)
(***************************************************************************)
CONSTANTS Procs, Blocks, Values, None

VARIABLES store,   \* the disk
          req,     \* req[p]: p's request, and whether it is done
          data     \* data[p]: the contents of p's buffer

vars == <<store, req, data>>

Idle == [block |-> None, write |-> FALSE, done |-> FALSE]

Init ==
  /\ store \in [Blocks -> Values]
  /\ req = [p \in Procs |-> Idle]
  /\ data \in [Procs -> Values]

\* The caller has the buffer of block k, with v in it.
Call(p, k, w, v) ==
  /\ req[p] = Idle
  /\ req' = [req EXCEPT ![p] = [block |-> k, write |-> w, done |-> FALSE]]
  /\ data' = [data EXCEPT ![p] = v]
  /\ UNCHANGED store

Do(p) ==
  LET k == req[p].block IN
  /\ k # None /\ ~req[p].done
  /\ req' = [req EXCEPT ![p].done = TRUE]
  /\ IF req[p].write
     THEN store' = [store EXCEPT ![k] = data[p]] /\ UNCHANGED data
     ELSE data' = [data EXCEPT ![p] = store[k]] /\ UNCHANGED store

Return(p) ==
  /\ req[p].done
  /\ req' = [req EXCEPT ![p] = Idle]
  /\ UNCHANGED <<store, data>>

Next ==
  \E p \in Procs :
    \/ \E k \in Blocks, w \in BOOLEAN, v \in Values : Call(p, k, w, v)
    \/ Do(p) \/ Return(p)

\* A step that shows nothing outside.
Same == UNCHANGED vars

Spec == Init /\ [][Next]_vars
=============================================================================
