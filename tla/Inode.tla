------------------------------- MODULE Inode -------------------------------
(***************************************************************************)
(* The inode table of kernel/fs.c and the life of an inode: allocated by   *)
(* ialloc(), found or entered in the table by iget(), read and locked by   *)
(* ilock(), freed on the disk by the iput() that drops the last reference  *)
(* to an inode without links, and, when a crash comes before that iput(),  *)
(* by ireclaim() at boot.                                                  *)
(*                                                                         *)
(* The callers are the system calls of kernel/sysfile.c on the entries of  *)
(* one directory that is never removed (its lock is dirlock): open() with  *)
(* and without O_CREATE, mknod(), link(), unlink(), read() and close().    *)
(* An entry is counted, not named.  The log is taken as what Log.tla shows *)
(* it to be: the blocks become durable together when the last operation    *)
(* ends, and a crash brings back the durable ones.                         *)
(*                                                                         *)
(* itable.lock is held for the whole of one action of this module or not   *)
(* at all, so it is not a variable.                                        *)
(***************************************************************************)
EXTENDS Integers, FiniteSets, FiniteSetsExt

CONSTANTS Procs,      \* the processes
          ninodes,    \* the inodes of the file system are 1 .. ninodes
          NINODE,     \* the slots of the table
          MaxLinks,   \* bound: directory entries for one inode
          None        \* no slot, no holder

Inums == 1 .. ninodes
Slots == 1 .. NINODE

ASSUME SizesAssumption == ninodes \in Nat \ {0} /\ NINODE \in Nat \ {0} /\ MaxLinks \in Nat \ {0}
ASSUME ProcsAssumption == IsFiniteSet(Procs)
ASSUME NoneAssumption == None \notin Procs \cup Slots \cup (Slots \X Inums)

VARIABLES dinode,       \* the inodes as bread() shows them
          entries,      \* how many directory entries name each inode
          durable,      \* <<dinode, entries>> as a crash would leave them
          itable,       \* the table of in-memory inodes
          dirlock,      \* who has the directory locked
          outstanding,  \* the processes between begin_op() and end_op()
          file,         \* the open file of each process: <<slot, inum>>, or None
          pc, ip, inum, \* of each process: its next step, its slot, its new inode
          reclaimed     \* ireclaim() has looked at the inodes below this one

vars == <<dinode, entries, durable, itable, dirlock, outstanding, file, pc, ip,
          inum, reclaimed>>

FreeInode == [type |-> 0, nlink |-> 0]
NewFile   == [type |-> 1, nlink |-> 1]
EmptySlot == [inum |-> 0, ref |-> 0, valid |-> FALSE, type |-> 0, nlink |-> 0, lock |-> None]

Booting == reclaimed <= ninodes

TypeOK ==
  /\ dinode \in [Inums -> [type : {0, 1}, nlink : 0 .. MaxLinks]]
  /\ entries \in [Inums -> 0 .. MaxLinks]
  /\ itable \in [Slots -> [inum : 0 .. ninodes, ref : 0 .. 2 * Cardinality(Procs),
                           valid : BOOLEAN, type : {0, 1},
                           nlink : 0 .. MaxLinks,
                           lock : Procs \cup {None}]]
  /\ dirlock \in Procs \cup {None}
  /\ outstanding \subseteq Procs
  /\ file \in [Procs -> (Slots \X Inums) \cup {None}]
  /\ pc \in [Procs -> {"user", "open", "create", "link", "unlink", "close", "ilock_open",
                       "opened", "iget_new", "ilock_new", "created", "failed", "ilock_link",
                       "linked", "dirlink", "ilock_bad", "bad", "ilock_unlink", "unlinking",
                       "unlinked", "ilock_read", "reading", "iput", "ifree", "ifreed", "idrop",
                       "iput_fail", "ifree_fail", "ifreed_fail", "idrop_fail", "end"}]
  /\ ip \in [Procs -> Slots \cup {None}]
  /\ inum \in [Procs -> 0 .. ninodes]
  /\ reclaimed \in 1 .. ninodes + 1

\* mkfs gives every file it makes one entry.
Init ==
  /\ dinode \in [Inums -> {FreeInode, NewFile}]
  /\ entries = [i \in Inums |-> dinode[i].nlink]
  /\ durable = <<dinode, entries>>
  /\ itable = [s \in Slots |-> EmptySlot]
  /\ dirlock = None
  /\ outstanding = {}
  /\ file = [p \in Procs |-> None]
  /\ pc = [p \in Procs |-> "user"]
  /\ ip = [p \in Procs |-> None]
  /\ inum = [p \in Procs |-> 0]
  /\ reclaimed = 1
-----------------------------------------------------------------------------
Goto(p, l) == pc' = [pc EXCEPT ![p] = l]

SlotsOf(i) == {s \in Slots : itable[s].ref > 0 /\ itable[s].inum = i}
Unused     == {s \in Slots : itable[s].ref = 0}

\* iget(): another reference to the slot of the inode, or the first empty
\* slot.  With neither it panics (NoPanic): no step of this process then, and
\* what the others do until the crash they might have done before it.
iget(p, i) ==
  \/ \E s \in SlotsOf(i) :
       /\ itable' = [itable EXCEPT ![s].ref = @ + 1]
       /\ ip' = [ip EXCEPT ![p] = s]
  \/ /\ SlotsOf(i) = {} /\ Unused # {}
     /\ itable' = [itable EXCEPT ![Min(Unused)] =
                     [@ EXCEPT !.inum = i, !.ref = 1, !.valid = FALSE]]
     /\ ip' = [ip EXCEPT ![p] = Min(Unused)]

\* ilock(): the slot's sleep-lock, and the inode from the disk if need be.
ilock(p, s) ==
  /\ itable[s].lock = None
  /\ IF itable[s].valid
     THEN itable' = [itable EXCEPT ![s].lock = p]
     ELSE LET d == dinode[itable[s].inum]
          IN  itable' = [itable EXCEPT ![s] = [@ EXCEPT !.lock = p, !.valid = TRUE,
                                                        !.type = d.type, !.nlink = d.nlink]]

\* iupdate() of the inode of slot s with n links, and iunlock() if it follows.
iupdate(s, n, holder) ==
  /\ itable' = [itable EXCEPT ![s].nlink = n, ![s].lock = holder]
  /\ dinode' = [dinode EXCEPT ![itable[s].inum] = [type |-> itable[s].type, nlink |-> n]]

iunlock(s) == itable' = [itable EXCEPT ![s].lock = None]
-----------------------------------------------------------------------------
(* iput().  The calls that drop the inode in the middle of create() go on  *)
(* to unlock the directory, all others to end_op().                        *)

After(l) == IF l \in {"iput_fail", "ifree_fail", "ifreed_fail", "idrop_fail"}
            THEN [free |-> "ifree_fail", freed |-> "ifreed_fail", drop |-> "idrop_fail"]
            ELSE [free |-> "ifree", freed |-> "ifreed", drop |-> "idrop"]

Dropped(p) ==
  /\ itable' = [itable EXCEPT ![ip[p]].ref = @ - 1]
  /\ ip' = [ip EXCEPT ![p] = None]
  /\ IF pc[p] \in {"iput_fail", "idrop_fail"}
     THEN dirlock' = None
     ELSE UNCHANGED dirlock
  /\ Goto(p, "end")

\* No other reference, and no link.
LastOfUnlinked(s) == itable[s].ref = 1 /\ itable[s].valid /\ itable[s].nlink = 0

\* iput() up to release(&itable.lock) or to its end.  A held sleep-lock here
\* would put the process to sleep with itable.lock held (IputNeverBlocks).
iput(p) ==
  /\ pc[p] \in {"iput", "iput_fail"}
  /\ IF LastOfUnlinked(ip[p])
     THEN /\ itable[ip[p]].lock = None
          /\ itable' = [itable EXCEPT ![ip[p]].lock = p]
          /\ Goto(p, After(pc[p]).free)
          /\ UNCHANGED <<ip, dirlock>>
     ELSE Dropped(p)
  /\ UNCHANGED <<dinode, entries, durable, outstanding, file, inum, reclaimed>>

\* itrunc(), ip->type = 0 and iupdate(): from here ialloc() may take the inode.
iput_free(p) ==
  /\ pc[p] \in {"ifree", "ifree_fail"}
  /\ itable' = [itable EXCEPT ![ip[p]].type = 0]
  /\ dinode' = [dinode EXCEPT ![itable[ip[p]].inum].type = 0]
  /\ Goto(p, After(pc[p]).freed)
  /\ UNCHANGED <<entries, durable, dirlock, outstanding, file, ip, inum, reclaimed>>

\* Mutant: the slot of a freed inode stays valid.
iput_invalidate_not(p) ==
  /\ pc[p] \in {"ifreed", "ifreed_fail"}
  /\ iunlock(ip[p])
  /\ Goto(p, After(pc[p]).drop)
  /\ UNCHANGED <<dinode, entries, durable, dirlock, outstanding, file, ip, inum, reclaimed>>

\* ip->valid = 0 and releasesleep().
iput_invalidate(p) ==
  /\ pc[p] \in {"ifreed", "ifreed_fail"}
  /\ itable' = [itable EXCEPT ![ip[p]].valid = FALSE, ![ip[p]].lock = None]
  /\ Goto(p, After(pc[p]).drop)
  /\ UNCHANGED <<dinode, entries, durable, dirlock, outstanding, file, ip, inum, reclaimed>>

\* The reference, dropped under itable.lock taken a second time.
iput_drop(p) ==
  /\ pc[p] \in {"idrop", "idrop_fail"}
  /\ Dropped(p)
  /\ UNCHANGED <<dinode, entries, durable, outstanding, file, inum, reclaimed>>
-----------------------------------------------------------------------------
(* The system calls.                                                       *)

begin_op(p, call) ==
  /\ ~Booting /\ pc[p] = "user"
  /\ call \in {"open", "create"} => file[p] = None
  /\ call = "close" => file[p] # None
  /\ outstanding' = outstanding \cup {p}
  /\ IF call = "close"
     THEN /\ ip' = [ip EXCEPT ![p] = file[p][1]]
          /\ file' = [file EXCEPT ![p] = None]
          /\ Goto(p, "iput")
     ELSE Goto(p, call) /\ UNCHANGED <<ip, file>>
  /\ UNCHANGED <<dinode, entries, durable, itable, dirlock, inum, reclaimed>>

\* end_op(): the last one commits what all of them wrote.
end_op(p) ==
  /\ pc[p] = "end"
  /\ outstanding' = outstanding \ {p}
  /\ durable' = IF outstanding = {p} THEN <<dinode, entries>> ELSE durable
  /\ Goto(p, "user")
  /\ UNCHANGED <<dinode, entries, itable, dirlock, file, ip, inum, reclaimed>>

\* namei() of the name of some entry, or of no entry; create() of a name that
\* exists ends here too.
Lookup(p) ==
  /\ pc[p] \in {"open", "create", "link"} /\ dirlock = None
  /\ \/ \E i \in Inums :
          /\ entries[i] > 0
          /\ iget(p, i)
          /\ Goto(p, IF pc[p] = "link" THEN "ilock_link" ELSE "ilock_open")
     \/ /\ pc[p] \in {"open", "link"}
        /\ Goto(p, "end")
        /\ UNCHANGED <<itable, ip>>
  /\ UNCHANGED <<dinode, entries, durable, dirlock, outstanding, file, inum, reclaimed>>

\* The rest of open() and of mknod() for an inode that is there: locked, then
\* kept in a struct file, or given back for want of one or of a type.
OpenLock(p) ==
  /\ pc[p] = "ilock_open"
  /\ ilock(p, ip[p])
  /\ Goto(p, "opened")
  /\ UNCHANGED <<dinode, entries, durable, dirlock, outstanding, file, ip, inum, reclaimed>>

sys_open(p) ==
  /\ pc[p] = "opened"
  /\ iunlock(ip[p])
  /\ \/ /\ file' = [file EXCEPT ![p] = <<ip[p], itable[ip[p]].inum>>]
        /\ ip' = [ip EXCEPT ![p] = None]
        /\ Goto(p, "end")
     \/ Goto(p, "iput") /\ UNCHANGED <<file, ip>>
  /\ UNCHANGED <<dinode, entries, durable, dirlock, outstanding, inum, reclaimed>>

\* create() of a new name: the directory is locked and ialloc() takes the
\* first free inode of the disk, or there is none.
ialloc(p) ==
  /\ pc[p] = "create" /\ dirlock = None
  /\ LET free == {i \in Inums : dinode[i].type = 0}
     IN  \/ /\ free # {}
            /\ dinode' = [dinode EXCEPT ![Min(free)] = [type |-> 1, nlink |-> 0]]
            /\ inum' = [inum EXCEPT ![p] = Min(free)]
            /\ dirlock' = p
            /\ Goto(p, "iget_new")
         \/ /\ free = {}
            /\ Goto(p, "end")
            /\ UNCHANGED <<dinode, inum, dirlock>>
  /\ UNCHANGED <<entries, durable, itable, outstanding, file, ip, reclaimed>>

ialloc_iget(p) ==
  /\ pc[p] = "iget_new"
  /\ iget(p, inum[p])
  /\ inum' = [inum EXCEPT ![p] = 0]
  /\ Goto(p, "ilock_new")
  /\ UNCHANGED <<dinode, entries, durable, dirlock, outstanding, file, reclaimed>>

CreateLock(p) ==
  /\ pc[p] = "ilock_new"
  /\ ilock(p, ip[p])
  /\ Goto(p, "created")
  /\ UNCHANGED <<dinode, entries, durable, dirlock, outstanding, file, ip, inum, reclaimed>>

\* ip->nlink = 1, iupdate() and dirlink(), which may fail: then ip->nlink = 0
\* and iupdate() again, and the inode is dropped before the directory.
create(p) ==
  /\ pc[p] = "created"
  /\ \/ /\ iupdate(ip[p], 1, p)
        /\ entries' = [entries EXCEPT ![itable[ip[p]].inum] = @ + 1]
        /\ dirlock' = None
        /\ Goto(p, "opened")
     \/ /\ iupdate(ip[p], 0, None)
        /\ Goto(p, "iput_fail")
        /\ UNCHANGED <<entries, dirlock>>
  /\ UNCHANGED <<durable, outstanding, file, ip, inum, reclaimed>>

\* link(): ip->nlink++ before the new entry, ip->nlink-- if there will be none.
LinkLock(p) ==
  /\ pc[p] \in {"ilock_link", "ilock_bad"}
  /\ pc[p] = "ilock_link" => dinode[itable[ip[p]].inum].nlink < MaxLinks
  /\ ilock(p, ip[p])
  /\ Goto(p, IF pc[p] = "ilock_link" THEN "linked" ELSE "bad")
  /\ UNCHANGED <<dinode, entries, durable, dirlock, outstanding, file, ip, inum, reclaimed>>

LinkCount(p) ==
  /\ pc[p] \in {"linked", "bad"}
  /\ IF pc[p] = "linked"
     THEN iupdate(ip[p], itable[ip[p]].nlink + 1, None) /\ Goto(p, "dirlink")
     ELSE iupdate(ip[p], itable[ip[p]].nlink - 1, None) /\ Goto(p, "iput")
  /\ UNCHANGED <<entries, durable, dirlock, outstanding, file, ip, inum, reclaimed>>

\* Mutant: the link count is not taken back.
sys_link_no_undo(p) ==
  /\ pc[p] = "dirlink" /\ dirlock = None
  /\ \/ entries' = [entries EXCEPT ![itable[ip[p]].inum] = @ + 1]
     \/ UNCHANGED entries
  /\ Goto(p, "iput")
  /\ UNCHANGED <<dinode, durable, itable, dirlock, outstanding, file, ip, inum, reclaimed>>

sys_link(p) ==
  /\ pc[p] = "dirlink" /\ dirlock = None
  /\ \/ /\ entries' = [entries EXCEPT ![itable[ip[p]].inum] = @ + 1]
        /\ Goto(p, "iput")
     \/ Goto(p, "ilock_bad") /\ UNCHANGED entries
  /\ UNCHANGED <<dinode, durable, itable, dirlock, outstanding, file, ip, inum, reclaimed>>

\* unlink(): the directory stays locked until the entry is gone.
UnlinkLookup(p) ==
  /\ pc[p] = "unlink" /\ dirlock = None
  /\ \/ \E i \in Inums :
          /\ entries[i] > 0
          /\ iget(p, i)
          /\ dirlock' = p
          /\ Goto(p, "ilock_unlink")
     \/ Goto(p, "end") /\ UNCHANGED <<itable, ip, dirlock>>
  /\ UNCHANGED <<dinode, entries, durable, outstanding, file, inum, reclaimed>>

UnlinkLock(p) ==
  /\ pc[p] = "ilock_unlink"
  /\ ilock(p, ip[p])
  /\ Goto(p, "unlinking")
  /\ UNCHANGED <<dinode, entries, durable, dirlock, outstanding, file, ip, inum, reclaimed>>

UnlinkEntry(p) ==
  /\ pc[p] = "unlinking"
  /\ entries' = [entries EXCEPT ![itable[ip[p]].inum] = @ - 1]
  /\ dirlock' = None
  /\ Goto(p, "unlinked")
  /\ UNCHANGED <<dinode, durable, itable, outstanding, file, ip, inum, reclaimed>>

sys_unlink(p) ==
  /\ pc[p] = "unlinked"
  /\ iupdate(ip[p], itable[ip[p]].nlink - 1, None)
  /\ Goto(p, "iput")
  /\ UNCHANGED <<entries, durable, dirlock, outstanding, file, ip, inum, reclaimed>>

\* fileread() of an open file: the inode is locked outside any operation.
fileread(p) ==
  \/ /\ pc[p] = "user" /\ file[p] # None
     /\ ilock(p, file[p][1])
     /\ Goto(p, "reading")
     /\ UNCHANGED <<dinode, entries, durable, dirlock, outstanding, file, ip, inum, reclaimed>>
  \/ /\ pc[p] = "reading"
     /\ iunlock(file[p][1])
     /\ Goto(p, "user")
     /\ UNCHANGED <<dinode, entries, durable, dirlock, outstanding, file, ip, inum, reclaimed>>
-----------------------------------------------------------------------------
(* A crash, and the boot after it.                                         *)

Crash ==
  /\ dinode' = durable[1]
  /\ entries' = durable[2]
  /\ itable' = [s \in Slots |-> EmptySlot]
  /\ dirlock' = None
  /\ outstanding' = {}
  /\ file' = [p \in Procs |-> None]
  /\ pc' = [p \in Procs |-> "user"]
  /\ ip' = [p \in Procs |-> None]
  /\ inum' = [p \in Procs |-> 0]
  /\ reclaimed' = 1
  /\ UNCHANGED durable

\* One inode of ireclaim(): its begin_op() .. end_op() runs alone, so it is
\* durable at once or, after another crash, not at all.
ireclaim ==
  /\ Booting
  /\ LET d == [dinode EXCEPT ![reclaimed] =
                 IF @.type # 0 /\ @.nlink = 0 THEN FreeInode ELSE @]
     IN  dinode' = d /\ durable' = <<d, entries>>
  /\ reclaimed' = reclaimed + 1
  /\ UNCHANGED <<entries, itable, dirlock, outstanding, file, pc, ip, inum>>

Step(p) ==
  \/ \E call \in {"open", "create", "link", "unlink", "close"} : begin_op(p, call)
  \/ Lookup(p) \/ OpenLock(p) \/ sys_open(p)
  \/ ialloc(p) \/ ialloc_iget(p) \/ CreateLock(p) \/ create(p)
  \/ LinkLock(p) \/ LinkCount(p) \/ sys_link(p)
  \/ UnlinkLookup(p) \/ UnlinkLock(p) \/ UnlinkEntry(p) \/ sys_unlink(p)
  \/ fileread(p)
  \/ iput(p) \/ iput_free(p) \/ iput_invalidate(p) \/ iput_drop(p)
  \/ end_op(p)

Next ==
  \/ \E p \in Procs : Step(p)
  \/ ireclaim
  \/ Crash

Spec == Init /\ [][Next]_vars
-----------------------------------------------------------------------------
\* A slot's ref is the number of pointers to it: one for each process in the
\* middle of a call that holds the inode, one for each open file.
RefExact ==
  \A s \in Slots :
    itable[s].ref = Cardinality({p \in Procs : ip[p] = s})
                    + Cardinality({p \in Procs : file[p] # None /\ file[p][1] = s})

\* iget() never gives one inode two slots, which would have two locks.
OneSlot ==
  \A s, t \in Slots :
    itable[s].ref > 0 /\ itable[t].ref > 0 /\ itable[s].inum = itable[t].inum => s = t

\* A valid slot nobody has locked shows what is on the disk, also when the
\* inode was freed and allocated anew while iput() still held its reference.
CacheCoherent ==
  \A s \in Slots :
    itable[s].ref > 0 /\ itable[s].valid /\ itable[s].lock = None =>
      /\ itable[s].type = dinode[itable[s].inum].type
      /\ itable[s].nlink = dinode[itable[s].inum].nlink

\* An open file keeps its inode: its slot is not recycled and its inode not
\* freed, whoever unlinks it.
OpenFileLive ==
  \A p \in Procs :
    file[p] # None => /\ itable[file[p][1]].inum = file[p][2]
                      /\ dinode[file[p][2]].type # 0

\* The inodes that some call or open file refers to.
InUse == {i \in Inums : \E p \in Procs : \/ ip[p] # None /\ itable[ip[p]].inum = i
                                         \/ file[p] # None /\ file[p][2] = i}

\* iget() panics ("iget: no inodes") only when NINODE different inodes are in
\* use: no slot is leaked, or taken twice for one inode.  And "ilock: no type"
\* and "unlink: nlink < 1" are never reached.
NoPanic ==
  \A p \in Procs :
    /\ \A i \in Inums :
         (pc[p] \in {"open", "create", "link", "unlink"} /\ entries[i] > 0) \/ inum[p] = i
           => SlotsOf(i) # {} \/ Unused # {} \/ Cardinality(InUse) = NINODE
    /\ pc[p] \in {"ilock_open", "ilock_new", "ilock_link", "ilock_bad", "ilock_unlink"}
         => itable[ip[p]].valid \/ dinode[itable[ip[p]].inum].type # 0
    /\ pc[p] = "unlinking" => itable[ip[p]].nlink >= 1

\* "ip->ref == 1 means no other process can have ip locked, so this
\* acquiresleep() won't block (or deadlock)", as iput() says.
IputNeverBlocks ==
  \A p \in Procs :
    pc[p] \in {"iput", "iput_fail"} /\ LastOfUnlinked(ip[p]) => itable[ip[p]].lock = None

\* After any crash the file system on the disk is consistent: every inode has
\* as many entries as its link count says, and an inode with entries is
\* allocated.
DurableConsistent ==
  \A i \in Inums :
    /\ durable[1][i].nlink = durable[2][i]
    /\ durable[2][i] > 0 => durable[1][i].type # 0

\* An allocated inode without links that nobody holds, that ialloc() has not
\* just made, and that ireclaim() will not come to before the next boot.
Forgotten(i) ==
  /\ dinode[i].type # 0 /\ dinode[i].nlink = 0
  /\ SlotsOf(i) = {} /\ (\A p \in Procs : inum[p] # i) /\ reclaimed > i

\* The one way to forget an inode is the second half of an iput() that freed
\* an earlier file with the same number: it drops its reference untested.
ForgetStep ==
  \A i \in Inums : ~Forgotten(i) /\ Forgotten(i)' =>
    \E p \in Procs : pc[p] \in {"idrop", "idrop_fail"} /\ pc'[p] = "end"

\* When ireclaim() has finished at boot, the disk holds no inode that is
\* allocated and has no links, wherever the crash or a second one came.
ReclaimStep ==
  Booting /\ ~Booting' =>
    \A i \in Inums : durable'[1][i].type # 0 => durable'[1][i].nlink > 0

\* What iget(), ilock() and iput() promise each other: one slot and one lock for
\* an inode, as many references as pointers, a cache that agrees with the disk,
\* an inode that stays as long as a file is open on it, and none of the panics;
\* and iput(), which holds the table's spin lock, never sleeps for an inode.
InodesCached ==
  /\ TypeOK /\ RefExact /\ OneSlot /\ CacheCoherent /\ OpenFileLive
  /\ NoPanic /\ IputNeverBlocks

\* What a crash may find: link counts and entries on the disk always agree, an
\* inode without links is forgotten only in the window that iput() leaves open,
\* and a boot with ireclaim() frees all of those.
DiskInodesConsistent ==
  [][DurableConsistent' /\ ForgetStep /\ ReclaimStep]_vars
=============================================================================
