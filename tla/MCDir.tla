------------------------------- MODULE MCDir -------------------------------
(* Instances of Dir for TLC.                                               *)
EXTENDS Dir, TLC

Abs(e) == [abs |-> TRUE, elems |-> e]
Rel(e) == [abs |-> FALSE, elems |-> e]

\* One name: the root, two levels below it, a relative path and the way up.
DeepWalks == {Abs(<<>>), Abs(<<"a">>), Abs(<<"a", "a">>), Rel(<<"a">>), Rel(<<"..">>)}
DeepLinks == {Abs(<<"a">>), Abs(<<"a", "a">>)}

ProcSymmetry == Permutations(Procs)

\* No name and no ".." leads to a freed inode, directories stay a tree and the
\* conditions that dirlookup() and sys_unlink() panic on do not come up, whatever
\* other calls are in the middle of; ilock()'s panic needs the ".." of a directory
\* that was removed while somebody was in it.
NamesLead ==
  TypeOK /\ LinksSuffice /\ DirsInTree /\ AssertionsHold /\ PanicOnlyAboveRemoved
=============================================================================
