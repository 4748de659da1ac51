----------------------------- MODULE BlockStore -----------------------------
(***************************************************************************)
(* What the buffer cache promises the file system: each disk block is one  *)
(* memory cell with a lock.  Whoever holds the lock sees what the last     *)
(* holder left in the block, and only the holder changes it.  A change     *)
(* lasts once it is kept, that is logged or written; before that it may be *)
(* undone while nobody holds the block.                                    *)
(***************************************************************************)
CONSTANTS Procs, Blocks, Values, None

VARIABLES content,   \* content[k]: what block k holds
          kept,      \* kept[k]: what it goes back to if its last change is undone
          holder     \* holder[k]: the process that has block k

vars == <<content, kept, holder>>

Init ==
  /\ content \in [Blocks -> Values]
  /\ kept = content
  /\ holder = [k \in Blocks |-> None]

Get(p, k) ==
  /\ holder[k] = None
  /\ holder' = [holder EXCEPT ![k] = p]
  /\ UNCHANGED <<content, kept>>

\* A change of a block that is in the log already is kept at once.
Change(p, k, v) ==
  /\ holder[k] = p
  /\ content' = [content EXCEPT ![k] = v]
  /\ kept' \in {kept, [kept EXCEPT ![k] = v]}
  /\ UNCHANGED holder

Keep(p, k) ==
  /\ holder[k] = p
  /\ kept' = [kept EXCEPT ![k] = content[k]]
  /\ UNCHANGED <<content, holder>>

Put(p, k) ==
  /\ holder[k] = p
  /\ holder' = [holder EXCEPT ![k] = None]
  /\ UNCHANGED <<content, kept>>

Undo(k) ==
  /\ holder[k] = None
  /\ content' = [content EXCEPT ![k] = kept[k]]
  /\ UNCHANGED <<kept, holder>>

Next ==
  \/ \E p \in Procs, k \in Blocks :
       Get(p, k) \/ Keep(p, k) \/ Put(p, k) \/ \E v \in Values : Change(p, k, v)
  \/ \E k \in Blocks : Undo(k)

\* A step that shows nothing outside.
Same == UNCHANGED vars

Spec == Init /\ [][Next]_vars
=============================================================================
