------------------------------ MODULE MCInode ------------------------------
(***************************************************************************)
(* Three inodes and two slots for TLC; `part' names the workload.          *)
(*   calls  every system call, on two of the inodes: nobody asks for the   *)
(*          third, a file that mkfs made                                   *)
(*   files  three files that mkfs made are opened, unlinked and closed, so *)
(*          that iget() may run out of slots                               *)
(***************************************************************************)
EXTENDS Inode, TLC

VARIABLE part

Third == 3

MCInit ==
  /\ Init
  /\ \/ part = "calls" /\ \A i \in Inums : dinode[i] = NewFile <=> i = Third
     \/ part = "files" /\ \A i \in Inums : dinode[i] = NewFile

MCNext ==
  /\ UNCHANGED part
  /\ Next
  /\ part = "calls" => \A s \in Slots : itable'[s].inum # Third
  /\ part = "files" => \A p \in Procs : pc'[p] \notin {"create", "link"}

MCSpec == MCInit /\ [][MCNext]_<<part, vars>>

Symmetry == Permutations(Procs)
=============================================================================
