-------------------------------- MODULE File --------------------------------
(***************************************************************************)
(* The contents of files: balloc() and bfree() on the bitmap, bmap() with  *)
(* its direct and indirect blocks, itrunc(), readi() and writei() of       *)
(* kernel/fs.c, under the loops of fileread() and filewrite() and the      *)
(* truncation of sys_open() (kernel/file.c, kernel/sysfile.c).             *)
(*                                                                         *)
(* Each file is open through one struct file, which the processes that     *)
(* have the file open share.                                               *)
(* A byte is the mark of the process that wrote it.  A step is one         *)
(* iteration of a loop, so that processes with different files take turns  *)
(* at the bitmap between any two blocks.                                   *)
(***************************************************************************)
EXTENDS Integers, Sequences, FiniteSets, FiniteSetsExt

CONSTANTS Procs,
          Mark,           \* the byte each process writes
          Files,          \* inodes
          NBLOCKS,        \* data blocks of the disk
          NDIRECT,        \* direct blocks of an inode
          BSIZE,          \* bytes in a block, and pointers in an indirect one
          BPB,            \* bits of the bitmap in a block
          MAXOPBLOCKS,    \* blocks an operation may log
          UintMod,        \* 2^32
          Opened,         \* the files each process has open
          ReadSizes,      \* sizes asked of read()
          WriteSizes,     \* sizes asked of write()
          PartialCopyin,  \* either_copyin() may fail after some bytes
          None

Blocks    == 1 .. NBLOCKS
NINDIRECT == BSIZE
MAXFILE   == NDIRECT + NINDIRECT
Cells     == 0 .. BSIZE - 1
MaxN      == Max(WriteSizes)
Bytes     == {Mark[p] : p \in Procs}
Zero      == [i \in Cells |-> 0]

BlockAssumption ==
  /\ BSIZE \in Nat \ {0} /\ BPB \in Nat \ {0} /\ NDIRECT \in Nat /\ NBLOCKS \in Nat
  /\ Mark \in [Procs -> Nat] /\ MAXOPBLOCKS >= 6 /\ UintMod > MAXFILE * BSIZE

VARIABLES bitmap,    \* the blocks in use
          addrs,     \* ip->addrs: index NDIRECT is the indirect block
          size,      \* ip->size
          blk,       \* the blocks as the cache shows them
          logged,    \* the blocks as the last log_write() left them
          lock,      \* who has each inode locked
          off,       \* f->off
          pc, cur,   \* of each process: its next step and its file
          left, n1,  \* bytes filewrite() has still to write, and of this chunk
          tot, woff, \* writei()'s tot and off
          touched,   \* the blocks this operation has logged
          before     \* the file as it was when the chunk began

inode == <<addrs, size>>
disk  == <<bitmap, blk, logged>>
call  == <<left, n1, tot, woff, touched, before>>
vars  == <<bitmap, addrs, size, blk, logged, lock, off, pc, cur, left, n1,
           tot, woff, touched, before>>

\* The block that holds block bn of file f, 0 if there is none.
Lookup(f, bn) ==
  IF bn < NDIRECT THEN addrs[f][bn]
  ELSE IF addrs[f][NDIRECT] = 0 THEN 0 ELSE blk[addrs[f][NDIRECT]][bn - NDIRECT]

Byte(f, o) == LET b == Lookup(f, o \div BSIZE) IN IF b = 0 THEN 0 ELSE blk[b][o % BSIZE]

\* The bytes of the file below its size.
Contents(f) == [i \in 1 .. size[f] |-> Byte(f, i - 1)]

TypeOK ==
  /\ bitmap \subseteq Blocks
  /\ addrs \in [Files -> [0 .. NDIRECT -> 0 .. NBLOCKS]]
  /\ size \in [Files -> 0 .. MAXFILE * BSIZE]
  /\ blk \in [Blocks -> [Cells -> 0 .. NBLOCKS \cup Bytes]]
  /\ logged \in [Blocks -> [Cells -> 0 .. NBLOCKS \cup Bytes]]
  /\ lock \in [Files -> Procs \cup {None}]
  /\ off \in [Files -> 0 .. MAXFILE * BSIZE]
  /\ pc \in [Procs -> {"user", "chunk", "ilock_w", "writei", "written", "trunc", "indirect",
                       "truncated"}]
  /\ cur \in [Procs -> Files \cup {None}]
  /\ left \in [Procs -> 0 .. MaxN] /\ n1 \in [Procs -> 0 .. MaxN] /\ tot \in [Procs -> 0 .. MaxN]
  /\ woff \in [Procs -> 0 .. MAXFILE * BSIZE]

Init ==
  /\ bitmap = {}
  /\ addrs = [f \in Files |-> [i \in 0 .. NDIRECT |-> 0]]
  /\ size = [f \in Files |-> 0]
  /\ blk = [b \in Blocks |-> Zero]
  /\ logged = blk
  /\ lock = [f \in Files |-> None]
  /\ off = [f \in Files |-> 0]
  /\ pc = [p \in Procs |-> "user"]
  /\ cur = [p \in Procs |-> None]
  /\ left = [p \in Procs |-> 0] /\ n1 = [p \in Procs |-> 0] /\ tot = [p \in Procs |-> 0]
  /\ woff = [p \in Procs |-> 0]
  /\ touched = [p \in Procs |-> {}]
  /\ before = [p \in Procs |-> <<>>]
-----------------------------------------------------------------------------
(* bmap() as a function: the address, and what it leaves of the inode, the *)
(* bitmap and the blocks.                                                  *)

\* balloc(): the first free block, or 0.
balloc(used) == IF used = Blocks THEN 0 ELSE Min(Blocks \ used)

\* bfree() of block b; itrunc() skips the pointers that are 0.
bfree(b) == bitmap \ {b}

\* A direct block, allocated and zeroed if it is not there.
BmapDirect(f, bn) ==
  LET b == balloc(bitmap)
  IN  IF addrs[f][bn] # 0 \/ b = 0
      THEN [addr |-> addrs[f][bn], map |-> addrs[f], used |-> bitmap, blk |-> blk]
      ELSE [addr |-> b, map |-> [addrs[f] EXCEPT ![bn] = b],
            used |-> bitmap \cup {b}, blk |-> [blk EXCEPT ![b] = Zero]]

\* Mutant: a fresh indirect block is not entered in the inode when the data
\* block cannot be allocated.
BmapIndirect_forgets(f, j) ==
  LET old  == addrs[f][NDIRECT]
      ind  == IF old # 0 THEN old ELSE balloc(bitmap)
      used == bitmap \cup {ind}
      blks == IF old # 0 THEN blk ELSE [blk EXCEPT ![ind] = Zero]
      map  == [addrs[f] EXCEPT ![NDIRECT] = ind]
      b    == balloc(used)
  IN  IF ind = 0
      THEN [addr |-> 0, map |-> addrs[f], used |-> bitmap, blk |-> blk]
      ELSE IF blks[ind][j] # 0 \/ b = 0
      THEN [addr |-> blks[ind][j], map |-> IF blks[ind][j] # 0 THEN map ELSE addrs[f],
            used |-> used, blk |-> blks]
      ELSE [addr |-> b, map |-> map, used |-> used \cup {b},
            blk |-> [blks EXCEPT ![b] = Zero, ![ind][j] = b]]

\* Entry j of the indirect block; both may have to be allocated, and the
\* second allocation may fail after the first.
BmapIndirect(f, j) ==
  LET old  == addrs[f][NDIRECT]
      ind  == IF old # 0 THEN old ELSE balloc(bitmap)
      used == bitmap \cup {ind}
      blks == IF old # 0 THEN blk ELSE [blk EXCEPT ![ind] = Zero]
      map  == [addrs[f] EXCEPT ![NDIRECT] = ind]
      b    == balloc(used)
  IN  IF ind = 0
      THEN [addr |-> 0, map |-> addrs[f], used |-> bitmap, blk |-> blk]
      ELSE IF blks[ind][j] # 0 \/ b = 0
      THEN [addr |-> blks[ind][j], map |-> map, used |-> used, blk |-> blks]
      ELSE [addr |-> b, map |-> map, used |-> used \cup {b},
            blk |-> [blks EXCEPT ![b] = Zero, ![ind][j] = b]]

bmap(f, bn) == IF bn < NDIRECT THEN BmapDirect(f, bn) ELSE BmapIndirect(f, bn - NDIRECT)

\* The blocks bmap() and its ballocs log when they leave r.
BmapLogs(f, r) ==
  LET fresh == r.used \ bitmap
      ind   == r.map[NDIRECT]
  IN  {<<"bitmap", b \div BPB>> : b \in fresh}
      \cup {<<"block", b>> : b \in fresh}
      \cup {<<"block", b>> : b \in {ind} \cap {b \in Blocks : b \in bitmap /\ r.blk[b] # blk[b]}}

\* logged, after log_write() of the blocks in s.
LogWrite(s, b) == [c \in Blocks |-> IF <<"block", c>> \in s THEN b[c] ELSE logged[c]]
-----------------------------------------------------------------------------
(* filewrite() and writei().                                               *)

Goto(p, l) == pc' = [pc EXCEPT ![p] = l]

\* The bytes filewrite() writes in one operation.
MaxChunk == ((MAXOPBLOCKS - 1 - 1 - 2) \div 2) * BSIZE

filewrite(p, f, n) ==
  /\ pc[p] = "user"
  /\ cur' = [cur EXCEPT ![p] = f]
  /\ left' = [left EXCEPT ![p] = n]
  /\ Goto(p, "chunk")
  /\ UNCHANGED <<inode, disk, lock, off, n1, tot, woff, touched, before>>

\* The next chunk's begin_op(), or the end of the loop.
filewrite_chunk(p) ==
  /\ pc[p] = "chunk"
  /\ IF left[p] > 0
     THEN /\ n1' = [n1 EXCEPT ![p] = Min({left[p], MaxChunk})]
          /\ touched' = [touched EXCEPT ![p] = {}]
          /\ Goto(p, "ilock_w")
          /\ UNCHANGED <<cur, tot, woff>>
     ELSE /\ Goto(p, "user")
          /\ cur' = [cur EXCEPT ![p] = None]
          /\ n1' = [n1 EXCEPT ![p] = 0] /\ tot' = [tot EXCEPT ![p] = 0]
          /\ woff' = [woff EXCEPT ![p] = 0] /\ touched' = [touched EXCEPT ![p] = {}]
  /\ UNCHANGED <<inode, disk, lock, off, left, before>>

\* ilock() and the tests at the head of writei(); a chunk they refuse ends the
\* write.
writei(p) ==
  LET f == cur[p]
  IN  /\ pc[p] = "ilock_w" /\ lock[f] = None
      /\ IF off[f] > size[f] \/ off[f] + n1[p] > MAXFILE * BSIZE
         THEN /\ left' = [left EXCEPT ![p] = 0]
              /\ Goto(p, "chunk")
              /\ UNCHANGED <<lock, tot, woff, before>>
         ELSE /\ lock' = [lock EXCEPT ![f] = p]
              /\ tot' = [tot EXCEPT ![p] = 0]
              /\ woff' = [woff EXCEPT ![p] = off[f]]
              /\ before' = [before EXCEPT ![p] = Contents(f)]
              /\ Goto(p, "writei")
              /\ UNCHANGED left
      /\ UNCHANGED <<inode, disk, off, cur, n1, touched>>

\* The bytes of block b from offset o on, k of them written by p.
Patch(b, o, k, p) == [i \in Cells |-> IF i \in o .. o + k - 1 THEN Mark[p] ELSE b[i]]

\* How much of the chunk goes into the block at woff.
WriteLen(p) == Min({n1[p] - tot[p], BSIZE - (woff[p] % BSIZE)})

\* One iteration: bmap(), bread(), either_copyin() and log_write().  The disk
\* may be full, and the source may be unreadable, at once or after some bytes:
\* these are in the buffer, which is released without log_write().
writei_block(p) ==
  LET f == cur[p]
      r == bmap(f, woff[p] \div BSIZE)
      o == woff[p] % BSIZE
      m == WriteLen(p)
      logs == BmapLogs(f, r)
  IN  /\ pc[p] = "writei" /\ tot[p] < n1[p]
      /\ bitmap' = r.used
      /\ addrs' = [addrs EXCEPT ![f] = r.map]
      /\ \/ /\ r.addr # 0
            /\ blk' = [r.blk EXCEPT ![r.addr] = Patch(@, o, m, p)]
            /\ logged' = LogWrite(logs \cup {<<"block", r.addr>>}, blk')
            /\ touched' = [touched EXCEPT ![p] = @ \cup logs \cup {<<"block", r.addr>>}]
            /\ tot' = [tot EXCEPT ![p] = @ + m]
            /\ woff' = [woff EXCEPT ![p] = @ + m]
            /\ UNCHANGED pc
         \/ /\ r.addr # 0
            /\ \E k \in IF PartialCopyin THEN 0 .. m - 1 ELSE {0} :
                 blk' = [r.blk EXCEPT ![r.addr] = Patch(@, o, k, p)]
            /\ logged' = LogWrite(logs, r.blk)
            /\ touched' = [touched EXCEPT ![p] = @ \cup logs]
            /\ Goto(p, "written")
            /\ UNCHANGED <<tot, woff>>
         \/ /\ r.addr = 0
            /\ blk' = r.blk
            /\ logged' = LogWrite(logs, r.blk)
            /\ touched' = [touched EXCEPT ![p] = @ \cup logs]
            /\ Goto(p, "written")
            /\ UNCHANGED <<tot, woff>>
      /\ UNCHANGED <<size, lock, off, cur, left, n1, before>>

\* Mutant: a short write moves the offset as if it were whole.
writei_done_whole(p) ==
  LET f == cur[p]
  IN  /\ pc[p] = "written" \/ (pc[p] = "writei" /\ tot[p] = n1[p])
      /\ size' = [size EXCEPT ![f] = Max({@, woff[p]})]
      /\ off' = [off EXCEPT ![f] = @ + n1[p]]
      /\ lock' = [lock EXCEPT ![f] = None]
      /\ touched' = [touched EXCEPT ![p] = @ \cup {<<"inode", f>>}]
      /\ left' = [left EXCEPT ![p] = IF tot[p] = n1[p] THEN @ - n1[p] ELSE 0]
      /\ before' = [before EXCEPT ![p] = <<>>]
      /\ Goto(p, "chunk")
      /\ UNCHANGED <<addrs, disk, cur, n1, tot, woff>>

\* The end of writei(), iupdate() included, and filewrite()'s f->off += r,
\* iunlock() and end_op(); a short chunk ends the loop.
writei_done(p) ==
  LET f == cur[p]
  IN  /\ pc[p] = "written" \/ (pc[p] = "writei" /\ tot[p] = n1[p])
      /\ size' = [size EXCEPT ![f] = Max({@, woff[p]})]
      /\ off' = [off EXCEPT ![f] = @ + tot[p]]
      /\ lock' = [lock EXCEPT ![f] = None]
      /\ touched' = [touched EXCEPT ![p] = @ \cup {<<"inode", f>>}]
      /\ left' = [left EXCEPT ![p] = IF tot[p] = n1[p] THEN @ - n1[p] ELSE 0]
      /\ before' = [before EXCEPT ![p] = <<>>]
      /\ Goto(p, "chunk")
      /\ UNCHANGED <<addrs, disk, cur, n1, tot, woff>>
-----------------------------------------------------------------------------
(* fileread() and readi().  The inode is locked throughout, and nobody     *)
(* else changes its blocks, so one step does.  A copyout() that fails only *)
(* keeps the offset where it is, like a read of nothing.                   *)

\* The bytes readi() will return: n is a uint, and off + n may wrap.
ReadLen(f, n) ==
  IF off[f] > size[f] \/ (off[f] + n) % UintMod < off[f] THEN 0
  ELSE Min({n, size[f] - off[f]})

fileread(p, f, n) ==
  /\ pc[p] = "user" /\ lock[f] = None
  /\ off' = [off EXCEPT ![f] = @ + ReadLen(f, n)]
  /\ UNCHANGED <<inode, disk, lock, pc, cur, call>>
-----------------------------------------------------------------------------
(* open() with O_TRUNC, and itrunc().                                      *)

sys_open_trunc(p, f) ==
  /\ pc[p] = "user" /\ lock[f] = None
  /\ lock' = [lock EXCEPT ![f] = p]
  /\ cur' = [cur EXCEPT ![p] = f]
  /\ tot' = [tot EXCEPT ![p] = 0]
  /\ before' = [before EXCEPT ![p] = Contents(f)]
  /\ Goto(p, "trunc")
  /\ UNCHANGED <<inode, disk, off, left, n1, woff, touched>>

\* bfree() of direct block tot, then the next.
itrunc_direct(p) ==
  LET f == cur[p]
  IN  /\ pc[p] = "trunc"
      /\ IF tot[p] < NDIRECT
         THEN /\ bitmap' = bfree(addrs[f][tot[p]])
              /\ addrs' = [addrs EXCEPT ![f][tot[p]] = 0]
              /\ tot' = [tot EXCEPT ![p] = @ + 1]
              /\ UNCHANGED pc
         ELSE /\ tot' = [tot EXCEPT ![p] = 0]
              /\ Goto(p, IF addrs[f][NDIRECT] = 0 THEN "truncated" ELSE "indirect")
              /\ UNCHANGED <<bitmap, addrs>>
      /\ UNCHANGED <<size, blk, logged, lock, off, cur, left, n1, woff, touched, before>>

\* bfree() of entry tot of the indirect block, and at last of the block.
itrunc_indirect(p) ==
  LET f == cur[p]
      a == addrs[f][NDIRECT]
  IN  /\ pc[p] = "indirect"
      /\ IF tot[p] < NINDIRECT
         THEN /\ bitmap' = bfree(blk[a][tot[p]])
              /\ tot' = [tot EXCEPT ![p] = @ + 1]
              /\ UNCHANGED <<addrs, pc>>
         ELSE /\ bitmap' = bfree(a)
              /\ addrs' = [addrs EXCEPT ![f][NDIRECT] = 0]
              /\ tot' = [tot EXCEPT ![p] = 0]
              /\ Goto(p, "truncated")
      /\ UNCHANGED <<size, blk, logged, lock, off, cur, left, n1, woff, touched, before>>

\* ip->size = 0, iupdate() and iunlock(); the offset of the struct file that
\* was open before stays.
itrunc_done(p) ==
  LET f == cur[p]
  IN  /\ pc[p] = "truncated"
      /\ size' = [size EXCEPT ![f] = 0]
      /\ lock' = [lock EXCEPT ![f] = None]
      /\ cur' = [cur EXCEPT ![p] = None]
      /\ before' = [before EXCEPT ![p] = <<>>]
      /\ Goto(p, "user")
      /\ UNCHANGED <<addrs, disk, off, left, n1, tot, woff, touched>>

\* The file is closed, opened again and shared again: open() makes a struct
\* file whose offset is 0, and no call on the old one is in progress.
sys_open(p, f) ==
  /\ pc[p] = "user" /\ \A q \in Procs : cur[q] # f
  /\ off' = [off EXCEPT ![f] = 0]
  /\ UNCHANGED <<inode, disk, lock, pc, cur, call>>

\* A released buffer that was changed and not logged: bget() recycles it and
\* the change is gone, or a transaction that has the block writes it too.
Recycle(b) ==
  /\ blk[b] # logged[b]
  /\ \/ blk' = [blk EXCEPT ![b] = logged[b]] /\ UNCHANGED logged
     \/ logged' = [logged EXCEPT ![b] = blk[b]] /\ UNCHANGED blk
  /\ UNCHANGED <<bitmap, inode, lock, off, pc, cur, call>>

Step(p) ==
  \/ \E f \in Opened[p] : \/ \E n \in WriteSizes : filewrite(p, f, n)
                          \/ \E n \in ReadSizes : fileread(p, f, n)
                          \/ sys_open(p, f) \/ sys_open_trunc(p, f)
  \/ filewrite_chunk(p) \/ writei(p) \/ writei_block(p) \/ writei_done(p)
  \/ itrunc_direct(p) \/ itrunc_indirect(p) \/ itrunc_done(p)

Next == (\E p \in Procs : Step(p)) \/ (\E b \in Blocks : Recycle(b))

Spec == Init /\ [][Next]_vars
-----------------------------------------------------------------------------
\* The pointers of the file system: <<f, i>> for the ith of ip->addrs, and
\* <<f, NDIRECT + 1 + j>> for the jth of the indirect block, without those
\* that itrunc() has just freed.
Pointers == Files \X (0 .. NDIRECT + NINDIRECT)

Freed(f, j) == \E p \in Procs : cur[p] = f /\ pc[p] = "indirect" /\ j < tot[p]

Target(x) ==
  LET f == x[1]
      j == x[2] - NDIRECT - 1
  IN  IF j < 0 THEN addrs[f][x[2]]
      ELSE IF addrs[f][NDIRECT] = 0 \/ Freed(f, j) THEN 0
      ELSE blk[addrs[f][NDIRECT]][j]

\* The bitmap marks exactly the blocks that pointers lead to, and no two
\* pointers lead to one block: nothing is leaked when the disk fills up in
\* the middle of a write, nothing is shared, and bfree() never meets its
\* panic("freeing free block").
BlocksOwnedOnce ==
  LET used == {x \in Pointers : Target(x) # 0}
  IN  /\ bitmap = {Target(x) : x \in used}
      /\ Cardinality(bitmap) = Cardinality(used)

\* Every block below the size of an unlocked file is there: readi() never
\* makes bmap() allocate, which it must not outside an operation.
SizeMapped ==
  \A f \in Files : lock[f] = None =>
    \A o \in 0 .. size[f] - 1 : Lookup(f, o \div BSIZE) # 0

\* "write a few blocks at a time to avoid exceeding the maximum log transaction
\* size": no chunk logs more than MAXOPBLOCKS blocks, inode, indirect block
\* and bitmap included.
WriteFitsOp == \A p \in Procs : Cardinality(touched[p]) <= MAXOPBLOCKS

\* A write whose source becomes unreadable leaves unlogged bytes in data blocks
\* only, never in a block of pointers: recycling the buffer cannot undo an
\* allocation.
UnloggedIsData ==
  \A f \in Files : addrs[f][NDIRECT] # 0 =>
    blk[addrs[f][NDIRECT]] = logged[addrs[f][NDIRECT]]

\* A file between two steps of a chunk or a truncation is as it was before.
Shown(f) == IF lock[f] = None THEN Contents(f) ELSE before[lock[f]]

\* The blocks, pointers and sizes amount to files of bytes: a chunk of a
\* write(), a read() and a truncation each take effect in one step, at the
\* offset that the processes share, also when the disk fills up half way.
ByteFile == INSTANCE ByteFiles WITH MaxLen <- MAXFILE * BSIZE,
                                    contents <- [f \in Files |-> Shown(f)]

ByteStep == ByteFile!Next \/ ByteFile!Same
=============================================================================
