-------------------------------- MODULE Mkfs --------------------------------
(***************************************************************************)
(* mkfs/mkfs.c, which builds the file system image that the kernel boots   *)
(* from: inodes and blocks are handed out in order, iappend() adds to the  *)
(* end of a file through direct and indirect addresses, and the bitmap is  *)
(* written last.                                                           *)
(*                                                                         *)
(* A directory entry and a byte have the same size here.  What is written  *)
(* is known by where it belongs: Byte(inum, offset).  The conversions to   *)
(* the byte order of the machine are left out, and so is the order in      *)
(* which blocks go to the image, which nobody reads before mkfs is done.   *)
(***************************************************************************)
EXTENDS Integers, Sequences, FiniteSets

CONSTANTS BSIZE, NDIRECT, NINDIRECT,
          nmeta,      \* blocks before the first data block
          BPB,        \* bits in a bitmap block
          NFILES,     \* files on the command line
          MaxSize,    \* bound: bytes of one file
          MaxBlock    \* bound: no file goes on behind this block

MAXFILE == NDIRECT + NINDIRECT
root == 1
Inums == 1 .. NFILES + 1

VARIABLES din,        \* the inodes: size and addresses, 0 for none
          sect,       \* the contents of the data blocks
          freeinode, freeblock,
          inum,       \* the file that is written
          left,       \* how much of it is still to be read
          bitmap,     \* the blocks marked in use
          entries,    \* bytes of entries in the root, before its size is fixed
          pc

vars == <<din, sect, freeinode, freeblock, inum, left, bitmap, entries, pc>>

Byte(i, off) == i * (MAXFILE + 1) * BSIZE + off
NoInode == [size |-> 0, addrs |-> [i \in 0 .. NDIRECT |-> 0]]

Init ==
  /\ din = [i \in Inums |-> NoInode]
  /\ sect = <<>>
  /\ freeinode = 1 /\ freeblock = nmeta
  /\ inum = 0 /\ left = 0
  /\ bitmap = {} /\ entries = 0
  /\ pc = "root"

\* A block that mkfs has not written holds zeroes.
Sector(s, b) == IF b \in DOMAIN s THEN s[b] ELSE [i \in 0 .. BSIZE - 1 |-> 0]
Write(s, b, content) == [x \in DOMAIN s \cup {b} |-> IF x = b THEN content ELSE s[x]]
-----------------------------------------------------------------------------
\* An image: the inode that iappend() has read, the blocks, and freeblock.
\* The address of file block fbn, allocated when there is none.
Direct(im, fbn) ==
  IF im.din.addrs[fbn] # 0 THEN im
  ELSE [im EXCEPT !.din.addrs[fbn] = im.free, !.free = @ + 1]

\* Mutant: the indirect block is not written back.
Indirect_unwritten(im, fbn) ==
  LET i == Direct(im, NDIRECT)
      block == Sector(i.sect, i.din.addrs[NDIRECT])
  IN  IF block[fbn - NDIRECT] # 0 THEN i ELSE [i EXCEPT !.free = @ + 1]

Indirect(im, fbn) ==
  LET i == Direct(im, NDIRECT)
      b == i.din.addrs[NDIRECT]
      block == Sector(i.sect, b)
  IN  IF block[fbn - NDIRECT] # 0 THEN i
      ELSE [i EXCEPT !.sect = Write(@, b, [block EXCEPT ![fbn - NDIRECT] = i.free]),
                     !.free = @ + 1]

Mapped(im, fbn) == IF fbn < NDIRECT THEN Direct(im, fbn) ELSE Indirect(im, fbn)
BlockAt(im, fbn) ==
  IF fbn < NDIRECT THEN im.din.addrs[fbn]
  ELSE Sector(im.sect, im.din.addrs[NDIRECT])[fbn - NDIRECT]

\* The loop of iappend() over n bytes from offset off; a failed assert() ends it.
RECURSIVE Append_(_, _, _, _)
Append_(im, i, off, n) ==
  LET fbn == off \div BSIZE
      to == Mapped(im, fbn)
      x == BlockAt(to, fbn)
      n1 == IF n < (fbn + 1) * BSIZE - off THEN n ELSE (fbn + 1) * BSIZE - off
      at == off - fbn * BSIZE
      content == [k \in 0 .. BSIZE - 1 |->
                    IF k \in at .. at + n1 - 1 THEN Byte(i, fbn * BSIZE + k) ELSE Sector(to.sect, x)[k]]
  IN  IF n = 0 THEN [im EXCEPT !.din.size = off]
      ELSE IF fbn >= MAXFILE THEN [im EXCEPT !.ok = FALSE]
      ELSE Append_([to EXCEPT !.sect = Write(@, x, content)], i, off + n1, n - n1)

\* iappend() with rinode() before and winode() after the loop; then on to l.
iappend(i, n, l) ==
  LET im == Append_([din |-> din[i], sect |-> sect, free |-> freeblock, ok |-> TRUE],
                    i, din[i].size, n)
  IN  \/ /\ im.ok
         /\ din' = [din EXCEPT ![i] = im.din]
         /\ sect' = im.sect
         /\ freeblock' = im.free
         /\ pc' = l
      \/ ~im.ok /\ pc' = "assert" /\ UNCHANGED <<din, sect, freeblock>>

\* The root and its two entries.
main_root ==
  /\ pc = "root"
  /\ freeinode' = freeinode + 1
  /\ iappend(root, 2, "file")
  /\ entries' = 2
  /\ UNCHANGED <<inum, left, bitmap>>

\* The next file: an inode and an entry in the root.
main_file ==
  /\ pc = "file" /\ freeinode <= NFILES + 1
  /\ inum' = freeinode
  /\ freeinode' = freeinode + 1
  /\ iappend(root, 1, "copy")
  /\ entries' = entries + 1
  /\ left' \in {n \in 0 .. MaxSize : freeblock + n \div BSIZE <= MaxBlock}
  /\ UNCHANGED bitmap

\* A read() of at most a block, and iappend() of what it gave.
main_copy ==
  /\ pc = "copy" /\ left > 0
  /\ \E cc \in 1 .. BSIZE :
       /\ cc <= left
       /\ left' = left - cc
       /\ iappend(inum, cc, "copy")
  /\ UNCHANGED <<freeinode, inum, bitmap, entries>>

main_close ==
  /\ pc = "copy" /\ left = 0
  /\ pc' = "file"
  /\ UNCHANGED <<din, sect, freeinode, freeblock, inum, left, bitmap, entries>>

balloc(used) ==
  \/ used < BPB /\ bitmap' = 0 .. used - 1 /\ pc' = "done"
  \/ used >= BPB /\ pc' = "assert" /\ UNCHANGED bitmap

\* "fix size of root inode dir", and the bitmap.
main_finish ==
  /\ pc = "file"
  /\ din' = [din EXCEPT ![root].size = ((@ \div BSIZE) + 1) * BSIZE]
  /\ balloc(freeblock)
  /\ UNCHANGED <<sect, freeinode, freeblock, inum, left, entries>>

Next == main_root \/ main_file \/ main_copy \/ main_close \/ main_finish
-----------------------------------------------------------------------------
\* The blocks of an inode, with the indirect one.
Addresses(i) ==
  [f \in 0 .. MAXFILE |->
     IF f <= NDIRECT THEN din[i].addrs[f]
     ELSE IF din[i].addrs[NDIRECT] = 0 THEN 0
     ELSE Sector(sect, din[i].addrs[NDIRECT])[f - NDIRECT - 1]]
FileBlock(i, fbn) == Addresses(i)[IF fbn < NDIRECT THEN fbn ELSE fbn + 1]
Owners(b) == {<<i, f>> \in Inums \X (0 .. MAXFILE) : Addresses(i)[f] = b}

\* No block of the image belongs to two files or to two places of one, every
\* block that was handed out belongs to one, and each file holds what was
\* appended to it, wherever read() cut it.
ImageBuilt ==
  pc # "assert" =>
    /\ \A b \in nmeta .. freeblock - 1 : Cardinality(Owners(b)) = 1
    /\ \A i \in Inums, f \in 0 .. MAXFILE : Addresses(i)[f] < freeblock
    /\ \A i \in Inums : \A off \in 0 .. (IF i = root THEN entries ELSE din[i].size) - 1 :
         Sector(sect, FileBlock(i, off \div BSIZE))[off % BSIZE] = Byte(i, off)

\* In the finished image the bitmap marks the blocks in use and no other, and
\* every block below a file's size is there, but for the last of a root whose
\* entries end at the end of a block: its size then covers a block more.
ImageFinished ==
  pc = "done" =>
    /\ bitmap = (0 .. nmeta - 1) \cup (UNION {{Addresses(i)[f] : f \in 0 .. MAXFILE} : i \in Inums} \ {0})
    /\ \A i \in Inums : \A fbn \in 0 .. MAXFILE - 1 :
         fbn * BSIZE < din[i].size =>
           \/ FileBlock(i, fbn) # 0
           \/ i = root /\ entries % BSIZE = 0 /\ fbn = entries \div BSIZE
=============================================================================
