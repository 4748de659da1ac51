-------------------------------- MODULE MCLog --------------------------------
(***************************************************************************)
(* Two instances of the log over the same variables; `part' names the one  *)
(* that runs.                                                              *)
(*   wide   operations overlap and write all that they reserve             *)
(*   tight  the log has room for one operation, which may fill all of it   *)
(*          but for one block                                              *)
(* Processes, blocks and block contents are interchangeable: nothing       *)
(* orders them and Init leaves the disk open.                              *)
(***************************************************************************)
EXTENDS Log, TLC

VARIABLE part

Tight == INSTANCE Log WITH LOGBLOCKS <- 2, MAXOPBLOCKS <- 2, OpBlocks <- 1

MCInit ==
  \/ part = "wide" /\ Init
  \/ part = "tight" /\ Tight!Init

MCNext ==
  /\ UNCHANGED part
  /\ \/ part = "wide" /\ Next
     \/ part = "tight" /\ Tight!Next

MCSpec == MCInit /\ [][MCNext]_<<part, vars>>

LogSymmetry == Permutations(Procs) \cup Permutations(Blocks) \cup Permutations(Values)
-----------------------------------------------------------------------------
\* The space that begin_op() reserves is there when log_write() needs it, also
\* when operations with a block to spare are all that the log can hold.
RoomReserved == part = "tight" => Tight!NoPanic
=============================================================================
