-------------------------------- MODULE Dir --------------------------------
(***************************************************************************)
(* Directories and paths: dirlookup(), dirlink() and namex() of            *)
(* kernel/fs.c, and the calls of kernel/sysfile.c that walk and change the *)
(* tree: link, unlink, create() under open, mkdir and mknod, and chdir.    *)
(*                                                                         *)
(* A step is what a process does between two of its ilock()s, or under the *)
(* lock of one inode.  An inode is referenced while some process has it as *)
(* its working directory, in an open file or in the middle of a call: the  *)
(* table of references itself is module Inode.  A path is the sequence of  *)
(* its elements, as skipelem() delivers them.                              *)
(***************************************************************************)
EXTENDS Integers, Sequences, FiniteSets, FiniteSetsExt

CONSTANTS Procs,
          ninodes,   \* inodes of the disk; number 1 is the root
          Names,     \* names of files, without "." and ".."
          Walks,     \* paths: [abs |-> from the root?, elems |-> names]
          LinkWalks  \* paths for the two arguments of link()

Inums == 1 .. ninodes
ROOT  == 1
None  == 0
Calls == {"open", "create", "mkdir", "mknod", "unlink", "chdir"}

ASSUME DirAssumption ==
  /\ ninodes \in Nat \ {0} /\ {".", ".."} \cap Names = {}
  /\ \A w \in Walks \cup LinkWalks : w.elems \in Seq(Names \cup {".", ".."})

VARIABLES type, nlink,    \* of each inode, on disk
          ents,           \* the entries of a directory: name -> inode number, or None
          dotdot,         \* its entry ".."
          lock,           \* the process that has the inode locked, or None
          cwd,            \* of each process
          pc, op,         \* its next step and its call
          walk, name,     \* elements still to walk, the final one
          ip, dp,         \* the inode at hand, and its directory, locked
          old, dest,      \* link(): the inode to link, the path of the new name
          stale,          \* someone has followed ".." of a directory without links
          panic

tree  == <<type, nlink, ents, dotdot>>
local == <<op, walk, name, old, dest>>
vars  == <<type, nlink, ents, dotdot, lock, cwd, pc, op, walk, name, ip, dp,
           old, dest, stale, panic>>

Empty == [n \in Names |-> None]

TypeOK ==
  /\ type \in [Inums -> {"free", "dir", "file"}]
  /\ nlink \in [Inums -> Nat]
  /\ ents \in [Inums -> [Names -> Inums \cup {None}]]
  /\ dotdot \in [Inums -> Inums \cup {None}]
  /\ lock \in [Inums -> Procs \cup {None}]
  /\ cwd \in [Procs -> Inums]
  /\ pc \in [Procs -> {"user", "namex", "create", "exist", "new", "unlink", "erase", "chdir",
                       "open", "opened", "link", "dirlink", "undo"}]
  /\ op \in [Procs -> Calls \cup {"link", "none"}]
  /\ ip \in [Procs -> Inums \cup {None}] /\ dp \in [Procs -> Inums \cup {None}]
  /\ old \in [Procs -> Inums \cup {None}]
  /\ stale \in BOOLEAN /\ panic \in BOOLEAN

Init ==
  /\ type = [i \in Inums |-> IF i = ROOT THEN "dir" ELSE "free"]
  /\ nlink = [i \in Inums |-> IF i = ROOT THEN 1 ELSE 0]
  /\ ents = [i \in Inums |-> Empty]
  /\ dotdot = [i \in Inums |-> IF i = ROOT THEN ROOT ELSE None]
  /\ lock = [i \in Inums |-> None]
  /\ cwd = [p \in Procs |-> ROOT]
  /\ pc = [p \in Procs |-> "user"] /\ op = [p \in Procs |-> "none"]
  /\ walk = [p \in Procs |-> <<>>] /\ name = [p \in Procs |-> ""]
  /\ ip = [p \in Procs |-> None] /\ dp = [p \in Procs |-> None]
  /\ old = [p \in Procs |-> None] /\ dest = [p \in Procs |-> <<>>]
  /\ stale = FALSE /\ panic = FALSE
-----------------------------------------------------------------------------
(* References and the steps every call is made of.                         *)

\* The inodes with a reference.
Held == ({cwd[p] : p \in Procs} \cup {ip[p] : p \in Procs} \cup {dp[p] : p \in Procs}
         \cup {old[p] : p \in Procs}) \ {None}

\* The tree after a step that leaves types t, links n, entries e and parents d:
\* iput() frees what has lost its last reference and has no links.
Tree(t, n, e, d) ==
  LET freed == {i \in Held \ Held' : n[i] = 0}
  IN  /\ nlink' = n
      /\ type'   = [i \in Inums |-> IF i \in freed THEN "free" ELSE t[i]]
      /\ ents'   = [i \in Inums |-> IF i \in freed THEN Empty ELSE e[i]]
      /\ dotdot' = [i \in Inums |-> IF i \in freed THEN None ELSE d[i]]

SameTree == Tree(type, nlink, ents, dotdot)

\* The end of p's call.
Return(p) ==
  /\ pc' = [pc EXCEPT ![p] = "user"] /\ op' = [op EXCEPT ![p] = "none"]
  /\ walk' = [walk EXCEPT ![p] = <<>>] /\ name' = [name EXCEPT ![p] = ""]
  /\ ip' = [ip EXCEPT ![p] = None] /\ dp' = [dp EXCEPT ![p] = None]
  /\ old' = [old EXCEPT ![p] = None] /\ dest' = [dest EXCEPT ![p] = <<>>]

\* A lookup failed: link() has to undo its nlink++ first.
Fail(p) ==
  IF old[p] = None THEN Return(p)
  ELSE /\ pc' = [pc EXCEPT ![p] = "undo"]
       /\ ip' = [ip EXCEPT ![p] = None]
       /\ UNCHANGED <<dp, local>>

\* ilock(ip) returns: nobody has it locked, and it is an allocated inode.  A
\* panic stops the system.
ilock(i) == lock[i] = None /\ type[i] # "free" /\ ~panic

\* ilock() of a free inode: panic("ilock: no type").
ilock_panic(p) ==
  /\ \/ pc[p] = "namex" /\ walk[p] # <<>>
     \/ pc[p] \in {"create", "exist", "unlink", "erase", "chdir", "open", "link", "dirlink"}
  /\ lock[ip[p]] = None /\ type[ip[p]] = "free" /\ ~panic
  /\ panic' = TRUE
  /\ UNCHANGED <<tree, lock, cwd, pc, ip, dp, local, stale>>

\* For the properties: a step up from a directory that has been removed.
Above(d, n) == n = ".." /\ nlink[d] = 0

\* dirlookup(): None, or the inode number found.
dirlookup(d, n) == CASE n = "." -> d [] n = ".." -> dotdot[d] [] OTHER -> ents[d][n]
-----------------------------------------------------------------------------
(* Paths.                                                                  *)

\* A call, up to the start of its walk.  A bound: once someone has gone up from
\* a removed directory, only the calls in progress go on.
Begin(p, c, w, d) ==
  /\ pc[p] = "user" /\ ~stale
  /\ pc' = [pc EXCEPT ![p] = "namex"]
  /\ op' = [op EXCEPT ![p] = c]
  /\ walk' = [walk EXCEPT ![p] = w.elems]
  /\ ip' = [ip EXCEPT ![p] = IF w.abs THEN ROOT ELSE cwd[p]]
  /\ dest' = [dest EXCEPT ![p] = d]
  /\ UNCHANGED <<tree, lock, cwd, name, dp, old, stale, panic>>

\* nameiparent() instead of namei().
Parent(p) == op[p] \in {"create", "mkdir", "mknod", "unlink"} \/ old[p] # None

\* Where a call goes on with the inode its walk has found.
Then(p) ==
  CASE op[p] \in {"create", "mkdir", "mknod"} -> "create"
    [] op[p] = "link" -> IF old[p] = None THEN "link" ELSE "dirlink"
    [] OTHER -> op[p]

\* One element of namex().
namex(p) ==
  LET i    == ip[p]
      n    == Head(walk[p])
      next == dirlookup(i, n)
  IN  /\ pc[p] = "namex" /\ walk[p] # <<>> /\ ilock(i)
      /\ \/ /\ type[i] = "dir" /\ Parent(p) /\ Len(walk[p]) = 1
            /\ name' = [name EXCEPT ![p] = n]
            /\ pc' = [pc EXCEPT ![p] = Then(p)]
            /\ walk' = [walk EXCEPT ![p] = <<>>]
            /\ UNCHANGED <<op, ip, dp, old, dest, stale>>
         \/ /\ type[i] = "dir" /\ ~(Parent(p) /\ Len(walk[p]) = 1) /\ next # None
            /\ ip' = [ip EXCEPT ![p] = next]
            /\ stale' = (stale \/ Above(i, n))
            /\ walk' = [walk EXCEPT ![p] = Tail(@)]
            /\ UNCHANGED <<pc, op, name, dp, old, dest>>
         \/ /\ type[i] = "file" \/ (~(Parent(p) /\ Len(walk[p]) = 1) /\ next = None)
            /\ Fail(p)
            /\ UNCHANGED stale
      /\ UNCHANGED <<lock, cwd, panic>>
      /\ SameTree

\* The path is used up: nameiparent() of a path without elements fails.
namex_end(p) ==
  /\ pc[p] = "namex" /\ walk[p] = <<>>
  /\ IF Parent(p) THEN Fail(p)
     ELSE pc' = [pc EXCEPT ![p] = Then(p)] /\ UNCHANGED <<ip, dp, local>>
  /\ UNCHANGED <<lock, cwd, stale, panic>>
  /\ SameTree
-----------------------------------------------------------------------------
(* create(), under open(O_CREATE), mkdir() and mknod().                    *)

\* The directory is locked: the name is there, or gets a new inode, or there
\* is no inode left.
create(p) ==
  LET d    == ip[p]
      i    == dirlookup(d, name[p])
      free == {j \in Inums : type[j] = "free"}
  IN  /\ pc[p] = "create" /\ ilock(d)
      /\ UNCHANGED <<cwd, panic>>
      /\ \/ /\ i # None
            /\ ip' = [ip EXCEPT ![p] = i]
            /\ stale' = (stale \/ Above(d, name[p]))
            /\ pc' = [pc EXCEPT ![p] = "exist"]
            /\ UNCHANGED <<lock, dp, op, walk, name, old, dest>>
            /\ SameTree
         \/ /\ i = None /\ free # {}
            /\ ip' = [ip EXCEPT ![p] = Min(free)]
            /\ dp' = [dp EXCEPT ![p] = d]
            /\ lock' = [lock EXCEPT ![d] = p]
            /\ pc' = [pc EXCEPT ![p] = "new"]
            /\ type' = [type EXCEPT ![Min(free)] = IF op[p] = "mkdir" THEN "dir" ELSE "file"]
            /\ UNCHANGED <<nlink, ents, dotdot, local, stale>>
         \/ /\ i = None /\ free = {}
            /\ Return(p)
            /\ UNCHANGED <<lock, stale>>
            /\ SameTree

\* The name exists: open() takes a file, mkdir() and mknod() fail.
create_exist(p) ==
  /\ pc[p] = "exist" /\ ilock(ip[p])
  /\ IF op[p] = "create" /\ type[ip[p]] = "file"
     THEN pc' = [pc EXCEPT ![p] = "opened"] /\ UNCHANGED <<ip, dp, local>>
     ELSE Return(p)
  /\ UNCHANGED <<lock, cwd, stale, panic>>
  /\ SameTree

\* The new inode is locked too, and gets its links.
create_new(p) ==
  LET d   == dp[p]
      i   == ip[p]
      dir == op[p] = "mkdir"
  IN  /\ pc[p] = "new" /\ ilock(i)
      /\ IF op[p] = "create"
         THEN /\ pc' = [pc EXCEPT ![p] = "opened"] /\ dp' = [dp EXCEPT ![p] = None]
              /\ UNCHANGED <<ip, local>>
         ELSE Return(p)
      /\ lock' = [lock EXCEPT ![d] = None]
      /\ UNCHANGED <<cwd, stale, panic>>
      /\ Tree(type,
              [nlink EXCEPT ![i] = 1, ![d] = IF dir THEN @ + 1 ELSE @],
              [ents EXCEPT ![d][name[p]] = i],
              IF dir THEN [dotdot EXCEPT ![i] = d] ELSE dotdot)

\* A dirlink() finds the disk full: the inode is given back.
create_fail(p) ==
  /\ pc[p] = "new" /\ ilock(ip[p])
  /\ Return(p)
  /\ lock' = [lock EXCEPT ![dp[p]] = None]
  /\ UNCHANGED <<cwd, stale, panic>>
  /\ SameTree

\* sys_open() without O_CREATE, which refuses to write a directory.
sys_open(p) ==
  /\ pc[p] = "open" /\ ilock(ip[p])
  /\ \/ pc' = [pc EXCEPT ![p] = "opened"] /\ UNCHANGED <<ip, dp, local>>
     \/ type[ip[p]] = "dir" /\ Return(p)
  /\ UNCHANGED <<lock, cwd, stale, panic>>
  /\ SameTree

fileclose(p) == pc[p] = "opened" /\ Return(p) /\ UNCHANGED <<lock, cwd, stale, panic>> /\ SameTree

\* chdir(): the old working directory is put.
sys_chdir(p) ==
  /\ pc[p] = "chdir" /\ ilock(ip[p])
  /\ cwd' = IF type[ip[p]] = "dir" THEN [cwd EXCEPT ![p] = ip[p]] ELSE cwd
  /\ Return(p)
  /\ UNCHANGED <<lock, stale, panic>>
  /\ SameTree
-----------------------------------------------------------------------------
(* unlink() and link().                                                    *)

\* Mutant: ".." can be unlinked.
sys_unlink_up(p) ==
  LET d == ip[p]
      i == dirlookup(d, name[p])
  IN  /\ pc[p] = "unlink" /\ ilock(d)
      /\ IF name[p] = "." \/ i = None
         THEN Return(p) /\ UNCHANGED lock
         ELSE /\ ip' = [ip EXCEPT ![p] = i]
              /\ dp' = [dp EXCEPT ![p] = d]
              /\ lock' = [lock EXCEPT ![d] = p]
              /\ pc' = [pc EXCEPT ![p] = "erase"]
              /\ UNCHANGED local
      /\ UNCHANGED <<cwd, stale, panic>>
      /\ SameTree

\* The directory is locked and stays so until the entry is erased.
sys_unlink(p) ==
  LET d == ip[p]
      i == dirlookup(d, name[p])
  IN  /\ pc[p] = "unlink" /\ ilock(d)
      /\ IF name[p] \in {".", ".."} \/ i = None
         THEN Return(p) /\ UNCHANGED lock
         ELSE /\ ip' = [ip EXCEPT ![p] = i]
              /\ dp' = [dp EXCEPT ![p] = d]
              /\ lock' = [lock EXCEPT ![d] = p]
              /\ pc' = [pc EXCEPT ![p] = "erase"]
              /\ UNCHANGED local
      /\ UNCHANGED <<cwd, stale, panic>>
      /\ SameTree

isdirempty(i) == ents[i] = Empty

\* Both are locked: the entry goes, and the links it stood for.
unlink_erase(p) ==
  LET d   == dp[p]
      i   == ip[p]
      dir == type[i] = "dir"
  IN  /\ pc[p] = "erase" /\ ilock(i)
      /\ Return(p)
      /\ lock' = [lock EXCEPT ![d] = None]
      /\ UNCHANGED <<cwd, stale, panic>>
      /\ IF dir /\ ~isdirempty(i) THEN SameTree
         ELSE Tree(type,
                   [nlink EXCEPT ![i] = @ - 1, ![d] = IF dir THEN @ - 1 ELSE @],
                   [ents EXCEPT ![d][name[p]] = None],
                   dotdot)

\* Mutant: the new link is not counted.
sys_link_uncounted(p) ==
  LET i == ip[p]
  IN  /\ pc[p] = "link" /\ ilock(i)
      /\ UNCHANGED <<lock, cwd, stale, panic>>
      /\ IF type[i] = "dir"
         THEN Return(p) /\ SameTree
         ELSE /\ nlink' = nlink
              /\ old' = [old EXCEPT ![p] = i]
              /\ walk' = [walk EXCEPT ![p] = dest[p].elems]
              /\ ip' = [ip EXCEPT ![p] = IF dest[p].abs THEN ROOT ELSE cwd[p]]
              /\ pc' = [pc EXCEPT ![p] = "namex"]
              /\ UNCHANGED <<type, ents, dotdot, dp, op, name, dest>>

\* The inode to link is counted before the new name is looked up.
sys_link(p) ==
  LET i == ip[p]
  IN  /\ pc[p] = "link" /\ ilock(i)
      /\ UNCHANGED <<lock, cwd, stale, panic>>
      /\ IF type[i] = "dir"
         THEN Return(p) /\ SameTree
         ELSE /\ nlink' = [nlink EXCEPT ![i] = @ + 1]
              /\ old' = [old EXCEPT ![p] = i]
              /\ walk' = [walk EXCEPT ![p] = dest[p].elems]
              /\ ip' = [ip EXCEPT ![p] = IF dest[p].abs THEN ROOT ELSE cwd[p]]
              /\ pc' = [pc EXCEPT ![p] = "namex"]
              /\ UNCHANGED <<type, ents, dotdot, dp, op, name, dest>>

\* dirlink() of the new name, which must not exist; the disk may be full.
link_dirlink(p) ==
  LET d == ip[p]
      i == dirlookup(d, name[p])
  IN  /\ pc[p] = "dirlink" /\ ilock(d)
      /\ UNCHANGED <<lock, cwd, stale, panic>>
      /\ \/ i = None /\ Return(p)
            /\ Tree(type, nlink, [ents EXCEPT ![d][name[p]] = old[p]], dotdot)
         \/ Fail(p) /\ SameTree

\* bad: in sys_link().
link_undo(p) ==
  LET i == old[p]
  IN  /\ pc[p] = "undo" /\ ilock(i)
      /\ Return(p)
      /\ UNCHANGED <<lock, cwd, stale, panic>>
      /\ Tree(type, [nlink EXCEPT ![i] = @ - 1], ents, dotdot)

Call(p) ==
  \/ \E c \in Calls, w \in Walks : Begin(p, c, w, <<>>)
  \/ \E w, d \in LinkWalks : Begin(p, "link", w, d)

Step(p) ==
  \/ namex(p) \/ namex_end(p)
  \/ create(p) \/ create_exist(p) \/ create_new(p) \/ create_fail(p)
  \/ sys_open(p) \/ fileclose(p) \/ sys_chdir(p)
  \/ sys_unlink(p) \/ unlink_erase(p)
  \/ sys_link(p) \/ link_dirlink(p) \/ link_undo(p)
  \/ ilock_panic(p)

Next == \E p \in Procs : Call(p) \/ Step(p)

Spec == Init /\ [][Next]_vars
-----------------------------------------------------------------------------
\* The entries that name inode i, and the directories that have a name and i
\* as their "..".
Entries(i) ==
  {e \in Inums \X Names : type[e[1]] = "dir" /\ ents[e[1]][e[2]] = i}
Children(i) ==
  {c \in Inums : type[c] = "dir" /\ dotdot[c] = i /\ Entries(c) # {}}
Links(i) == Cardinality(Entries(i)) + Cardinality(Children(i)) + (IF i = ROOT THEN 1 ELSE 0)

\* An inode is allocated, and counts at least its links, as long as an entry or
\* a ".." leads to it, whatever other calls are in the middle of: no name and
\* no parent dangles.
LinksSuffice ==
  ~stale => \A i \in Inums : Links(i) > 0 => type[i] # "free" /\ nlink[i] >= Links(i)

\* The directories form a tree: at most one entry leads to a directory, and it
\* is in the directory that its ".." leads back to.
DirsInTree ==
  ~stale => \A i \in Inums : type[i] = "dir" =>
    /\ Cardinality(Entries(i)) <= IF i = ROOT THEN 0 ELSE 1
    /\ \A e \in Entries(i) : dotdot[i] = e[1]

\* The conditions that dirlookup() and sys_unlink() turn into panics do not
\* come up: what nameiparent() has found is still a directory when it is locked
\* again, and an inode found under the directory's lock still has a link.
AssertionsHold ==
  ~stale => \A p \in Procs :
    /\ pc[p] \in {"create", "unlink", "dirlink"} => type[ip[p]] = "dir"
    /\ pc[p] = "erase" => nlink[ip[p]] >= 1

\* p sleeps in ilock() for an inode that q has locked.
WaitsFor(p, q) == ip[p] # None /\ pc[p] # "opened" /\ lock[ip[p]] = q

\* Whoever holds a directory locks a child of it next: no circle of processes
\* waits for each other's inodes, and none for its own.
NoWaitCycle ==
  \A S \in SUBSET Procs \ {{}} : \E p \in S : \A q \in S : ~WaitsFor(p, q)

\* That panic needs the ".." of a directory that has been removed while it was
\* in use: every other way to an inode keeps it allocated until it is locked.
PanicOnlyAboveRemoved == panic => stale
=============================================================================
