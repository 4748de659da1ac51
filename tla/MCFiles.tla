------------------------------ MODULE MCFiles ------------------------------
(***************************************************************************)
(* The layers of an open file side by side: descriptors and the table of   *)
(* files (file.c, sysfile.c), pipes (pipe.c), and the blocks of a file     *)
(* (filewrite() and the block functions of fs.c).  `part' names the        *)
(* instance that runs; a variable it does not have is None.                *)
(*   table, narrow  Ftable: few files, and few descriptors                 *)
(*   pipe           Pipe                                                   *)
(*   own            File: two processes, each with its own file, and a     *)
(*                  disk that fills up                                     *)
(*   shared         File: two processes that share one file and its offset *)
(*   fault          File: a source of write() that becomes unreadable      *)
(***************************************************************************)
EXTENDS Integers

CONSTANTS p1, p2, w1, None

VARIABLES part, pc, lock,
          ftable, ofile, ends, inodeRefs, new, todo, ff, child, exiting,
          data, nread, nwrite, readopen, writeopen, freed, ref, fd, asleep, killed, i, n,
          unread,
          bitmap, addrs, size, blk, logged, off, cur, left, n1, tot, woff, touched, before

tables == <<ftable, ofile, ends, inodeRefs, new, todo, ff, child, exiting>>
pipes  == <<data, nread, nwrite, readopen, writeopen, freed, ref, fd, asleep, killed, i, n,
            unread>>
blocks == <<bitmap, addrs, size, blk, logged, off, cur, left, n1, tot, woff, touched, before>>

NoTables == /\ ftable = None /\ ofile = None /\ ends = None /\ inodeRefs = None
            /\ new = None /\ todo = None /\ ff = None /\ child = None /\ exiting = None
NoPipes  == /\ data = None /\ nread = None /\ nwrite = None /\ readopen = None
            /\ writeopen = None /\ freed = None /\ ref = None /\ fd = None /\ asleep = None
            /\ killed = None /\ i = None /\ n = None /\ unread = None
NoBlocks == /\ bitmap = None /\ addrs = None /\ size = None /\ blk = None /\ logged = None
            /\ off = None /\ cur = None /\ left = None /\ n1 = None /\ tot = None
            /\ woff = None /\ touched = None /\ before = None

\* A parent and a child; with one descriptor each, pipe() finds no second one
\* after it has both files.
Table == INSTANCE Ftable WITH
  Procs <- {p1, p2}, NOFILE <- 2, NFILE <- 2, Pipes <- {"pipe"}, init <- p1
Narrow == INSTANCE Ftable WITH
  Procs <- {p1, p2}, NOFILE <- 1, NFILE <- 3, Pipes <- {"pipe"}, init <- p1

\* A ring of two bytes with counters that wrap at four.
Pipes == INSTANCE Pipe WITH
  Readers <- {p1, p2}, Writers <- {w1}, Killable <- {p1, w1}, PIPESIZE <- 2, UintMod <- 4,
  Bytes <- {"a", "b"}, MaxN <- 2

\* One direct and two indirect blocks of two bytes each.
Own == INSTANCE File WITH
  Procs <- {p1, p2}, Mark <- [p \in {p1, p2} |-> 0], Files <- {1, 2}, NBLOCKS <- 3,
  NDIRECT <- 1, BSIZE <- 2, BPB <- 1, MAXOPBLOCKS <- 6, UintMod <- 16,
  Opened <- [p \in {p1, p2} |-> IF p = p1 THEN {1} ELSE {2}],
  ReadSizes <- {}, WriteSizes <- {3}, PartialCopyin <- FALSE
Shared == INSTANCE File WITH
  Procs <- {p1, p2}, Mark <- [p \in {p1, p2} |-> IF p = p1 THEN 1 ELSE 2], Files <- {1},
  NBLOCKS <- 3, NDIRECT <- 1, BSIZE <- 2, BPB <- 8, MAXOPBLOCKS <- 6, UintMod <- 16,
  Opened <- [p \in {p1, p2} |-> {1}],
  ReadSizes <- {1, 3, 15}, WriteSizes <- {0, 1, 3}, PartialCopyin <- FALSE
Fault == INSTANCE File WITH
  Procs <- {p1}, Mark <- [p \in {p1} |-> 1], Files <- {1}, NBLOCKS <- 4,
  NDIRECT <- 1, BSIZE <- 2, BPB <- 1, MAXOPBLOCKS <- 6, UintMod <- 16,
  Opened <- [p \in {p1} |-> {1}],
  ReadSizes <- {1}, WriteSizes <- {1, 4}, PartialCopyin <- TRUE

ASSUME FileSizes ==
  /\ Table!TableAssumption /\ Narrow!TableAssumption /\ Pipes!PipeAssumption
  /\ Own!BlockAssumption /\ Shared!BlockAssumption /\ Fault!BlockAssumption

MCInit ==
  \/ part = "table" /\ Table!Init /\ lock = None /\ NoPipes /\ NoBlocks
  \/ part = "narrow" /\ Narrow!Init /\ lock = None /\ NoPipes /\ NoBlocks
  \/ part = "pipe" /\ Pipes!Init /\ NoTables /\ NoBlocks
  \/ part = "own" /\ Own!Init /\ NoTables /\ NoPipes
  \/ part = "shared" /\ Shared!Init /\ NoTables /\ NoPipes
  \/ part = "fault" /\ Fault!Init /\ NoTables /\ NoPipes

\* All descriptors of the pipe are closed: nothing is left to do.
Closed == part = "pipe" /\ freed /\ UNCHANGED <<pc, lock, tables, pipes, blocks>>

MCNext ==
  /\ UNCHANGED part
  /\ \/ part = "table" /\ Table!Next /\ UNCHANGED <<lock, pipes, blocks>>
     \/ part = "narrow" /\ Narrow!Next /\ UNCHANGED <<lock, pipes, blocks>>
     \/ part = "pipe" /\ Pipes!Next /\ UNCHANGED <<tables, blocks>>
     \/ Closed
     \/ part = "own" /\ Own!Next /\ UNCHANGED <<tables, pipes>>
     \/ part = "shared" /\ Shared!Next /\ UNCHANGED <<tables, pipes>>
     \/ part = "fault" /\ Fault!Next /\ UNCHANGED <<tables, pipes>>

MCSpec == MCInit /\ [][MCNext]_<<part, pc, lock, tables, pipes, blocks>>
-----------------------------------------------------------------------------
\* f->ref counts exactly the descriptors and calls that own the file, through
\* every failure of open() and pipe() and in the middle of fork and exit; every
\* pipe end and inode is given back once, by the last fileclose(), also when
\* the table entry has been taken again by then; and no usable descriptor shows
\* a file without a type.
FileRefsExact ==
  /\ part = "table" => /\ Table!TypeOK /\ Table!RefExact /\ Table!UsableFds
                       /\ Table!PipeEndsExact /\ Table!InodeRefsExact
  /\ part = "narrow" => /\ Narrow!TypeOK /\ Narrow!RefExact /\ Narrow!UsableFds
                        /\ Narrow!PipeEndsExact /\ Narrow!InodeRefsExact

\* The pipe delivers every byte once and in order, also when nread and nwrite
\* wrap; nobody sleeps for something that is already there; and its page is
\* freed by the last pipeclose(), when nobody is in a call on it.
PipeFifo ==
  part = "pipe" => Pipes!TypeOK /\ Pipes!Fifo /\ Pipes!NoLostWakeup /\ Pipes!FreedLast

\* The bitmap marks exactly the blocks that pointers lead to, and no two lead to
\* one block, also when balloc() fails half way; every block below an unlocked
\* file's size is there; a chunk of filewrite() logs no more than MAXOPBLOCKS
\* blocks; and when either_copyin() fails, writei() leaves no changed pointer
\* unlogged.
BlocksOwnedOnce ==
  /\ part = "own" => Own!TypeOK /\ Own!BlocksOwnedOnce /\ Own!SizeMapped
  /\ part = "shared" => Shared!TypeOK /\ Shared!BlocksOwnedOnce /\ Shared!SizeMapped
  /\ part = "fault" => /\ Fault!TypeOK /\ Fault!BlocksOwnedOnce /\ Fault!SizeMapped
                       /\ Fault!WriteFitsOp /\ Fault!UnloggedIsData

\* Blocks, pointers and sizes amount to a file of bytes: a chunk of a write(), a
\* read() and a truncation each take effect in one step, at the offset that the
\* processes share, also when the disk fills up half way.
ImplementsByteFiles == [][part = "shared" => Shared!ByteStep]_<<pc, lock, blocks>>
=============================================================================
