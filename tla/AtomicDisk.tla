----------------------------- MODULE AtomicDisk -----------------------------
(***************************************************************************)
(* What the log promises to the file system: operations write blocks, and  *)
(* a crash brings back the blocks as they were at one moment at which no   *)
(* operation was in progress.  No operation is ever half visible after a   *)
(* crash, and no commit includes half an operation.                        *)
(***************************************************************************)
CONSTANTS Procs, Blocks, Values

VARIABLES mem,       \* the blocks as running operations see them
          durable,   \* the blocks as a crash would leave them
          active     \* the processes that have an operation in progress

vars == <<mem, durable, active>>

Init ==
  /\ mem \in [Blocks -> Values]
  /\ durable = mem
  /\ active = {}

Begin(p) ==
  /\ p \notin active
  /\ active' = active \cup {p}
  /\ UNCHANGED <<mem, durable>>

Write(p, b, v) ==
  /\ p \in active
  /\ mem' = [mem EXCEPT ![b] = v]
  /\ UNCHANGED <<durable, active>>

End(p) ==
  /\ p \in active
  /\ active' = active \ {p}
  /\ UNCHANGED <<mem, durable>>

Commit ==
  /\ active = {}
  /\ durable' = mem
  /\ UNCHANGED <<mem, active>>

Crash ==
  /\ mem' = durable
  /\ active' = {}
  /\ UNCHANGED durable

Next ==
  \/ \E p \in Procs : Begin(p) \/ End(p)
  \/ \E p \in Procs, b \in Blocks, v \in Values : Write(p, b, v)
  \/ Commit
  \/ Crash

Spec == Init /\ [][Next]_vars
=============================================================================
