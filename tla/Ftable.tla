------------------------------- MODULE Ftable -------------------------------
(***************************************************************************)
(* The table of open files (kernel/file.c), the descriptors of the         *)
(* processes, and the calls that make, share and drop them: open(), pipe(),*)
(* dup() and close() of kernel/sysfile.c, and the loops over p->ofile in   *)
(* kfork() and kexit().  A struct file holds one end of a pipe or one      *)
(* reference to an inode, and gives it back when its last descriptor goes. *)
(*                                                                         *)
(* ftable.lock is held for at most one action, so it is not a variable;    *)
(* what fileclose() does after it has let the lock go is an action of its  *)
(* own.  Which inode a file holds does not matter here: inodeRefs counts   *)
(* the references that iget() gave and iput() has not taken back.          *)
(***************************************************************************)
EXTENDS Integers, Sequences, FiniteSets, FiniteSetsExt

CONSTANTS Procs,    \* the slots of the process table
          NOFILE,   \* descriptors of a process
          NFILE,    \* files of the table
          Pipes,    \* the pages kalloc() may give for a pipe
          init,     \* the process that is there at first
          None

Fds   == 1 .. NOFILE
Files == 1 .. NFILE
Ends  == {"r", "w"}

TableAssumption == NOFILE \in Nat \ {0} /\ NFILE \in Nat \ {0} /\ init \in Procs

VARIABLES ftable,     \* [ref, type, pipe, end] of each file
          ofile,      \* the descriptors of each process
          ends,       \* the ends of each pipe that pipeclose() has not closed
          inodeRefs,  \* references to inodes held by files and by open()
          pc,         \* of each process: its next step
          new,        \* files allocated and not yet in a descriptor
          todo,       \* files it has still to fileclose(), in order
          ff,         \* fileclose()'s copy of the file it has let go
          child,      \* the process kfork() is making
          exiting     \* the processes in kexit()

vars == <<ftable, ofile, ends, inodeRefs, pc, new, todo, ff, child, exiting>>

NoFile == [ref |-> 0, type |-> "FD_NONE", pipe |-> None, end |-> None]
NoFds  == [fd \in Fds |-> None]

TypeOK ==
  /\ ftable \in [Files -> [ref : 0 .. Cardinality(Procs) * NOFILE,
                           type : {"FD_NONE", "FD_PIPE", "FD_INODE"},
                           pipe : Pipes \cup {None}, end : Ends \cup {None}]]
  /\ ofile \in [Procs -> [Fds -> Files \cup {None}]]
  /\ ends \in [Pipes -> SUBSET Ends]
  /\ inodeRefs \in 0 .. NFILE + 2 * Cardinality(Procs)
  /\ pc \in [Procs -> {"unused", "making", "user", "open", "opened", "pipe2", "pipe3",
                       "pipe4", "dup", "fork", "exit", "close", "closing"}]
  /\ \A p \in Procs : new[p] \in Seq(Files) /\ todo[p] \in Seq(Files)
  /\ ff \in [Procs -> [ref : {0}, type : {"FD_NONE", "FD_PIPE", "FD_INODE"},
                       pipe : Pipes \cup {None}, end : Ends \cup {None}]]
  /\ child \in [Procs -> Procs \cup {None}]
  /\ exiting \subseteq Procs

Init ==
  /\ ftable = [f \in Files |-> NoFile]
  /\ ofile = [p \in Procs |-> NoFds]
  /\ ends = [i \in Pipes |-> {}]
  /\ inodeRefs = 0
  /\ pc = [p \in Procs |-> IF p = init THEN "user" ELSE "unused"]
  /\ new = [p \in Procs |-> <<>>]
  /\ todo = [p \in Procs |-> <<>>]
  /\ ff = [p \in Procs |-> NoFile]
  /\ child = [p \in Procs |-> None]
  /\ exiting = {}
-----------------------------------------------------------------------------
Goto(p, l) == pc' = [pc EXCEPT ![p] = l]

Unused    == {f \in Files : ftable[f].ref = 0}
FreeFds(p) == {fd \in Fds : ofile[p][fd] = None}

\* filealloc(): the first file without references, if any, joins new[p].
filealloc(p) ==
  /\ Unused # {}
  /\ ftable' = [ftable EXCEPT ![Min(Unused)].ref = 1]
  /\ new' = [new EXCEPT ![p] = Append(@, Min(Unused))]

filedup(f) == ftable' = [ftable EXCEPT ![f].ref = @ + 1]

\* Mutant: the type of a closed file is kept, and the file with it.
fileclose_keeps_type(p) ==
  LET f == Head(todo[p])
  IN  /\ pc[p] = "close" /\ todo[p] # <<>>
      /\ todo' = [todo EXCEPT ![p] = Tail(@)]
      /\ ftable' = [ftable EXCEPT ![f].ref = @ - 1]
      /\ IF ftable[f].ref > 1
         THEN UNCHANGED <<ff, pc>>
         ELSE /\ ff' = [ff EXCEPT ![p] = [ftable[f] EXCEPT !.ref = 0]]
              /\ Goto(p, "closing")
      /\ UNCHANGED <<ofile, ends, inodeRefs, new, child, exiting>>

\* fileclose() of the next file to close, up to the release of ftable.lock.
fileclose(p) ==
  LET f == Head(todo[p])
  IN  /\ pc[p] = "close" /\ todo[p] # <<>>
      /\ todo' = [todo EXCEPT ![p] = Tail(@)]
      /\ IF ftable[f].ref > 1
         THEN /\ ftable' = [ftable EXCEPT ![f].ref = @ - 1]
              /\ UNCHANGED <<ff, pc>>
         ELSE /\ ftable' = [ftable EXCEPT ![f].ref = 0, ![f].type = "FD_NONE"]
              /\ ff' = [ff EXCEPT ![p] = [ftable[f] EXCEPT !.ref = 0]]
              /\ Goto(p, "closing")
      /\ UNCHANGED <<ofile, ends, inodeRefs, new, child, exiting>>

\* The rest of fileclose(), with the copy: pipeclose(), or iput() in an
\* operation, or nothing for a file that was never given a type.
fileclose_end(p) ==
  /\ pc[p] = "closing"
  /\ ends' = IF ff[p].type = "FD_PIPE"
             THEN [ends EXCEPT ![ff[p].pipe] = @ \ {ff[p].end}]
             ELSE ends
  /\ inodeRefs' = IF ff[p].type = "FD_INODE" THEN inodeRefs - 1 ELSE inodeRefs
  /\ ff' = [ff EXCEPT ![p] = NoFile]
  /\ Goto(p, "close")
  /\ UNCHANGED <<ftable, ofile, new, todo, child, exiting>>

\* Nothing is left to close: the call returns, or kexit() goes on.
CloseDone(p) ==
  /\ pc[p] = "close" /\ todo[p] = <<>>
  /\ Goto(p, IF p \in exiting THEN "exit" ELSE "user")
  /\ UNCHANGED <<ftable, ofile, ends, inodeRefs, new, todo, ff, child, exiting>>
-----------------------------------------------------------------------------
(* open(): namei() or create() has a reference to the inode.               *)

sys_open(p) ==
  /\ pc[p] = "user"
  /\ inodeRefs' = inodeRefs + 1
  /\ Goto(p, "open")
  /\ UNCHANGED <<ftable, ofile, ends, new, todo, ff, child, exiting>>

OpenFilealloc(p) ==
  /\ pc[p] = "open"
  /\ \/ /\ filealloc(p)
        /\ Goto(p, "opened")
        /\ UNCHANGED inodeRefs
     \/ /\ Unused = {}
        /\ inodeRefs' = inodeRefs - 1
        /\ Goto(p, "user")
        /\ UNCHANGED <<ftable, new>>
  /\ UNCHANGED <<ofile, ends, todo, ff, child, exiting>>

\* fdalloc() and the file's fields; without a descriptor the file, which has
\* no type, is closed and the inode dropped.
OpenFdalloc(p) ==
  /\ pc[p] = "opened"
  /\ IF FreeFds(p) # {}
     THEN /\ ofile' = [ofile EXCEPT ![p][Min(FreeFds(p))] = new[p][1]]
          /\ ftable' = [ftable EXCEPT ![new[p][1]].type = "FD_INODE"]
          /\ new' = [new EXCEPT ![p] = <<>>]
          /\ Goto(p, "user")
          /\ UNCHANGED <<inodeRefs, todo>>
     ELSE /\ todo' = [todo EXCEPT ![p] = new[p]]
          /\ new' = [new EXCEPT ![p] = <<>>]
          /\ inodeRefs' = inodeRefs - 1
          /\ Goto(p, "close")
          /\ UNCHANGED <<ftable, ofile>>
  /\ UNCHANGED <<ends, ff, child, exiting>>
-----------------------------------------------------------------------------
(* pipe(): pipealloc(), then two descriptors, then two copyouts.           *)

\* pipealloc()'s first filealloc(), or its failure.
sys_pipe(p) ==
  /\ pc[p] = "user"
  /\ \/ filealloc(p) /\ Goto(p, "pipe2")
     \/ Unused = {} /\ UNCHANGED <<ftable, new, pc>>
  /\ UNCHANGED <<ofile, ends, inodeRefs, todo, ff, child, exiting>>

\* The second, or the first file is closed again.
pipealloc_second(p) ==
  /\ pc[p] = "pipe2"
  /\ \/ filealloc(p) /\ Goto(p, "pipe3") /\ UNCHANGED todo
     \/ /\ Unused = {}
        /\ todo' = [todo EXCEPT ![p] = new[p]]
        /\ new' = [new EXCEPT ![p] = <<>>]
        /\ Goto(p, "close")
        /\ UNCHANGED ftable
  /\ UNCHANGED <<ofile, ends, inodeRefs, ff, child, exiting>>

\* kalloc() of the pipe and the fields of both files; without memory the two
\* files are closed, neither with a type.
pipealloc(p) ==
  /\ pc[p] = "pipe3"
  /\ \/ \E i \in Pipes :
          /\ ends[i] = {}
          /\ ends' = [ends EXCEPT ![i] = Ends]
          /\ ftable' = [ftable EXCEPT
               ![new[p][1]] = [@ EXCEPT !.type = "FD_PIPE", !.pipe = i, !.end = "r"],
               ![new[p][2]] = [@ EXCEPT !.type = "FD_PIPE", !.pipe = i, !.end = "w"]]
          /\ Goto(p, "pipe4")
          /\ UNCHANGED <<new, todo>>
     \/ /\ todo' = [todo EXCEPT ![p] = new[p]]
        /\ new' = [new EXCEPT ![p] = <<>>]
        /\ Goto(p, "close")
        /\ UNCHANGED <<ends, ftable>>
  /\ UNCHANGED <<ofile, inodeRefs, ff, child, exiting>>

\* Two descriptors and two copyouts; when a descriptor is missing or a
\* copyout fails the descriptors are cleared and both files closed.
PipeFdalloc(p) ==
  /\ pc[p] = "pipe4"
  /\ \/ /\ Cardinality(FreeFds(p)) >= 2
        /\ LET fd0 == Min(FreeFds(p))
               fd1 == Min(FreeFds(p) \ {fd0})
           IN  ofile' = [ofile EXCEPT ![p][fd0] = new[p][1], ![p][fd1] = new[p][2]]
        /\ new' = [new EXCEPT ![p] = <<>>]
        /\ Goto(p, "user")
        /\ UNCHANGED todo
     \/ /\ todo' = [todo EXCEPT ![p] = new[p]]
        /\ new' = [new EXCEPT ![p] = <<>>]
        /\ Goto(p, "close")
        /\ UNCHANGED ofile
  /\ UNCHANGED <<ftable, ends, inodeRefs, ff, child, exiting>>
-----------------------------------------------------------------------------
(* dup(), close(), fork and exit.                                          *)

\* dup(): the descriptor first, the reference after it.
sys_dup(p) ==
  \/ /\ pc[p] = "user" /\ FreeFds(p) # {}
     /\ \E fd \in Fds \ FreeFds(p) :
          /\ ofile' = [ofile EXCEPT ![p][Min(FreeFds(p))] = ofile[p][fd]]
          /\ new' = [new EXCEPT ![p] = <<ofile[p][fd]>>]
     /\ Goto(p, "dup")
     /\ UNCHANGED <<ftable, ends, inodeRefs, todo, ff, child, exiting>>
  \/ /\ pc[p] = "dup"
     /\ filedup(new[p][1])
     /\ new' = [new EXCEPT ![p] = <<>>]
     /\ Goto(p, "user")
     /\ UNCHANGED <<ofile, ends, inodeRefs, todo, ff, child, exiting>>

\* close(): the descriptor is cleared before the file is closed.
sys_close(p) ==
  /\ pc[p] = "user"
  /\ \E fd \in Fds \ FreeFds(p) :
       /\ todo' = [todo EXCEPT ![p] = <<ofile[p][fd]>>]
       /\ ofile' = [ofile EXCEPT ![p][fd] = None]
  /\ Goto(p, "close")
  /\ UNCHANGED <<ftable, ends, inodeRefs, new, ff, child, exiting>>

\* kfork(): a slot for the child, one filedup() for each descriptor in turn,
\* and then the child runs.
kfork(p) ==
  /\ pc[p] = "user"
  /\ \E c \in Procs :
       /\ pc[c] = "unused"
       /\ child' = [child EXCEPT ![p] = c]
       /\ pc' = [pc EXCEPT ![p] = "fork", ![c] = "making"]
  /\ UNCHANGED <<ftable, ofile, ends, inodeRefs, new, todo, ff, exiting>>

ToDup(p) == {fd \in Fds : ofile[p][fd] # ofile[child[p]][fd]}

kfork_dup(p) ==
  /\ pc[p] = "fork" /\ ToDup(p) # {}
  /\ LET fd == Min(ToDup(p))
     IN  /\ filedup(ofile[p][fd])
         /\ ofile' = [ofile EXCEPT ![child[p]][fd] = ofile[p][fd]]
  /\ UNCHANGED <<ends, inodeRefs, pc, new, todo, ff, child, exiting>>

kfork_done(p) ==
  /\ pc[p] = "fork" /\ ToDup(p) = {}
  /\ pc' = [pc EXCEPT ![p] = "user", ![child[p]] = "user"]
  /\ child' = [child EXCEPT ![p] = None]
  /\ UNCHANGED <<ftable, ofile, ends, inodeRefs, new, todo, ff, exiting>>

\* kexit(): each descriptor is closed and cleared, in order; the slot is used
\* again once the parent has waited.  init does not exit.
kexit(p) ==
  /\ p # init
  /\ \/ /\ pc[p] = "user"
        /\ exiting' = exiting \cup {p}
        /\ Goto(p, "exit")
        /\ UNCHANGED <<ofile, todo>>
     \/ /\ pc[p] = "exit" /\ FreeFds(p) # Fds
        /\ LET fd == Min(Fds \ FreeFds(p))
           IN  /\ todo' = [todo EXCEPT ![p] = <<ofile[p][fd]>>]
               /\ ofile' = [ofile EXCEPT ![p][fd] = None]
        /\ Goto(p, "close")
        /\ UNCHANGED exiting
     \/ /\ pc[p] = "exit" /\ FreeFds(p) = Fds
        /\ exiting' = exiting \ {p}
        /\ Goto(p, "unused")
        /\ UNCHANGED <<ofile, todo>>
  /\ UNCHANGED <<ftable, ends, inodeRefs, new, ff, child>>

Next ==
  \E p \in Procs :
    \/ fileclose(p) \/ fileclose_end(p) \/ CloseDone(p)
    \/ sys_open(p) \/ OpenFilealloc(p) \/ OpenFdalloc(p)
    \/ sys_pipe(p) \/ pipealloc_second(p) \/ pipealloc(p) \/ PipeFdalloc(p)
    \/ sys_dup(p) \/ sys_close(p)
    \/ kfork(p) \/ kfork_dup(p) \/ kfork_done(p) \/ kexit(p)

Spec == Init /\ [][Next]_vars
-----------------------------------------------------------------------------
\* The places that own a reference to f: descriptors, files just allocated,
\* and files about to be closed.  dup() fills its descriptor before it counts.
Owners(f) ==
  Cardinality({x \in Procs \X Fds : ofile[x[1]][x[2]] = f})
  + Cardinality({p \in Procs : pc[p] # "dup" /\ \E i \in DOMAIN new[p] : new[p][i] = f})
  - Cardinality({p \in Procs : pc[p] = "dup" /\ new[p] = <<f>>})
  + Cardinality({p \in Procs : \E i \in DOMAIN todo[p] : todo[p][i] = f})

\* f->ref counts exactly the owners of the file, through every failure of
\* open() and pipe() and in the middle of fork and exit: no file is closed
\* while a descriptor shows it, none stays in the table without one, and the
\* panics of filedup() and fileclose() are out of reach.
RefExact == \A f \in Files : ftable[f].ref = Owners(f)

\* A descriptor a process can use shows a file with a type, so read() and
\* write() never reach their panics.
UsableFds ==
  \A p \in Procs : pc[p] = "user" =>
    \A fd \in Fds \ FreeFds(p) : ftable[ofile[p][fd]].type # "FD_NONE"

\* Each end of a pipe is open exactly as long as a file holds it or the last
\* fileclose() of it is on its way to pipeclose(), also when the table entry
\* has been taken for another file by then.
PipeEndsExact ==
  \A i \in Pipes, e \in Ends :
    e \in ends[i] <=>
      \/ \E f \in Files : ftable[f].type = "FD_PIPE" /\ ftable[f].pipe = i /\ ftable[f].end = e
      \/ \E p \in Procs : ff[p].type = "FD_PIPE" /\ ff[p].pipe = i /\ ff[p].end = e

\* iput() is called once for every reference to an inode that open() took.
InodeRefsExact ==
  inodeRefs = Cardinality({f \in Files : ftable[f].type = "FD_INODE"})
              + Cardinality({p \in Procs : ff[p].type = "FD_INODE"})
              + Cardinality({p \in Procs : pc[p] \in {"open", "opened"}})
=============================================================================
