--------------------------------- MODULE Log ---------------------------------
(***************************************************************************)
(* The redo log of kernel/log.c over the buffer cache of kernel/bio.c:     *)
(* begin_op, log_write, end_op, commit, and recovery after a crash.        *)
(*                                                                         *)
(* On disk are the home blocks, the blocks of the log and its header.  In  *)
(* memory are the cached copies of home blocks, the header `lh` and the    *)
(* counters of struct log.  What runs under log.lock is one step; each     *)
(* block the committer or recovery writes to disk is one step, and a crash *)
(* may come between any two steps, or in the middle of a block (a block is *)
(* two sectors; the header's n and block[] lie in the first one, so the    *)
(* header is either the old or the new one).                               *)
(*                                                                         *)
(* Abstracted: a process holds one buffer at a time; LRU order (any buffer *)
(* nobody refers to may be recycled at any time); the copies of log blocks *)
(* in the cache, which never differ from the disk.                         *)
(***************************************************************************)
EXTENDS Integers, Sequences, FiniteSets

CONSTANTS Procs,         \* processes that run file system calls
          Blocks,        \* home blocks of the file system
          Values,        \* contents of a block
          LOGBLOCKS,     \* size of the log
          MAXOPBLOCKS,   \* log space begin_op() reserves for an operation
          OpBlocks,      \* distinct blocks an operation really writes at most
          Torn,          \* contents of a block half written when power failed
          Uncached,      \* not in the buffer cache
          NoProc, NoBlock

ASSUME SizeAssumption ==
  LOGBLOCKS \in Nat /\ MAXOPBLOCKS \in Nat /\ OpBlocks \in 1 .. MAXOPBLOCKS
ASSUME RoomAssumption == MAXOPBLOCKS <= LOGBLOCKS
ASSUME ContentsAssumption == Torn \notin Values /\ Uncached \notin Values \cup {Torn}
ASSUME NamesAssumption ==
  IsFiniteSet(Procs) /\ NoProc \notin Procs /\ NoBlock \notin Blocks

VARIABLES
  disk,         \* home blocks on disk
  dlog,         \* log blocks on disk
  dhead,        \* header on disk: the home block of each log block
  data,         \* cached contents of home blocks, or Uncached
  holder,       \* holder[b]: process that holds the sleep-lock of b's buffer
  pins,         \* pins[b]: references bpin() took on b's buffer
  lh,           \* log.lh: home blocks logged since the last commit
  outstanding,  \* log.outstanding
  committing,   \* log.committing
  stage, tail,  \* where initlog() or commit() is, and its loop variable
  pc, cur,      \* pc[p], and the block whose buffer p holds
  touched       \* touched[p]: blocks p's current operation has logged

onDisk == <<disk, dlog, dhead>>
cache == <<data, holder, pins>>
log == <<lh, outstanding, committing>>
vars == <<onDisk, cache, log, stage, tail, pc, cur, touched>>

InOp == {"op", "hold", "mod"}
OpsActive == {p \in Procs : pc[p] \in InOp}
BlocksIn(s) == {s[i] : i \in 1 .. Len(s)}

Init ==
  /\ disk \in [Blocks -> Values]
  /\ dlog \in [1 .. LOGBLOCKS -> Values]
  /\ dhead = <<>>
  /\ data = [b \in Blocks |-> Uncached]
  /\ holder = [b \in Blocks |-> NoProc]
  /\ pins = [b \in Blocks |-> 0]
  /\ lh = <<>> /\ outstanding = 0 /\ committing = FALSE
  /\ stage = "boot" /\ tail = 1
  /\ pc = [p \in Procs |-> "idle"]
  /\ cur = [p \in Procs |-> NoBlock]
  /\ touched = [p \in Procs |-> {}]

-----------------------------------------------------------------------------
(* bio.c: buffers of home blocks.                                          *)

\* What bread(b) finds: the cached copy, or the disk's.
Contents(b) == IF data[b] = Uncached THEN disk[b] ELSE data[b]

\* bread() by p, inside an operation or, for a read() or stat(), outside one.
bread(p, b) ==
  /\ stage \notin {"boot", "rinst", "rclear"}
  /\ pc[p] \in {"idle", "op"}
  /\ holder[b] = NoProc
  /\ holder' = [holder EXCEPT ![b] = p]
  /\ data' = [data EXCEPT ![b] = Contents(b)]
  /\ cur' = [cur EXCEPT ![p] = b]
  /\ pc' = [pc EXCEPT ![p] = IF pc[p] = "op" THEN "hold" ELSE "rhold"]
  /\ UNCHANGED <<onDisk, pins, log, stage, tail, touched>>

brelse(p) ==
  /\ pc[p] \in {"hold", "rhold"}
  /\ holder' = [holder EXCEPT ![cur[p]] = NoProc]
  /\ cur' = [cur EXCEPT ![p] = NoBlock]
  /\ pc' = [pc EXCEPT ![p] = IF pc[p] = "hold" THEN "op" ELSE "idle"]
  /\ UNCHANGED <<onDisk, data, pins, log, stage, tail, touched>>

\* The caller changes b->data of the buffer it holds.
Modify(p, v) ==
  /\ pc[p] = "hold"
  /\ cur[p] \in touched[p] \/ Cardinality(touched[p]) < OpBlocks
  /\ data' = [data EXCEPT ![cur[p]] = v]
  /\ pc' = [pc EXCEPT ![p] = "mod"]
  /\ UNCHANGED <<onDisk, holder, pins, log, stage, tail, cur, touched>>

\* bget() for another block recycles the buffer of b: refcnt is 0.
Recycle(b) ==
  /\ holder[b] = NoProc /\ pins[b] = 0 /\ data[b] # Uncached
  /\ data' = [data EXCEPT ![b] = Uncached]
  /\ UNCHANGED <<onDisk, holder, pins, log, stage, tail, pc, cur, touched>>

-----------------------------------------------------------------------------
(* log.c: operations.                                                      *)

\* wakeup(&log): every process asleep in begin_op() tries again.
WakeLog(f) == [p \in Procs |-> IF f[p] = "sleep" THEN "begin" ELSE f[p]]

NoSpace_forgets_itself == Len(lh) + outstanding * MAXOPBLOCKS > LOGBLOCKS

NoSpace == Len(lh) + (outstanding + 1) * MAXOPBLOCKS > LOGBLOCKS

begin_op_during_commit(p) ==
  /\ stage \notin {"boot", "rinst", "rclear"}
  /\ pc[p] \in {"idle", "begin"}
  /\ ~NoSpace
  /\ pc' = [pc EXCEPT ![p] = "op"]
  /\ outstanding' = outstanding + 1
  /\ UNCHANGED <<onDisk, cache, lh, committing, stage, tail, cur, touched>>

begin_op(p) ==
  /\ stage \notin {"boot", "rinst", "rclear"}
  /\ pc[p] \in {"idle", "begin"}
  /\ IF committing \/ NoSpace
     THEN /\ pc' = [pc EXCEPT ![p] = "sleep"]
          /\ UNCHANGED outstanding
     ELSE /\ pc' = [pc EXCEPT ![p] = "op"]
          /\ outstanding' = outstanding + 1
  /\ UNCHANGED <<onDisk, cache, lh, committing, stage, tail, cur, touched>>

\* kkill() makes a sleeping process runnable: begin_op() tests again.
kkill(p) ==
  /\ pc[p] = "sleep"
  /\ pc' = [pc EXCEPT ![p] = "begin"]
  /\ UNCHANGED <<onDisk, cache, log, stage, tail, cur, touched>>

\* log_write() of the buffer p holds: absorbed, or appended and pinned.
\* With a full log, or outside an operation, it panics (see NoPanic).
log_write(p) ==
  /\ pc[p] = "mod"
  /\ Len(lh) < LOGBLOCKS /\ outstanding >= 1
  /\ IF cur[p] \in BlocksIn(lh)
     THEN UNCHANGED <<lh, pins>>
     ELSE /\ lh' = Append(lh, cur[p])
          /\ pins' = [pins EXCEPT ![cur[p]] = @ + 1]
  /\ touched' = [touched EXCEPT ![p] = @ \cup {cur[p]}]
  /\ pc' = [pc EXCEPT ![p] = "hold"]
  /\ UNCHANGED <<onDisk, data, holder, outstanding, committing, stage, tail, cur>>

end_op_never_committing(p) ==
  /\ pc[p] = "op" /\ ~committing
  /\ outstanding' = outstanding - 1
  /\ IF outstanding = 1
     THEN /\ stage' = IF lh = <<>> THEN "done" ELSE "wlog"
          /\ tail' = 1
          /\ pc' = [pc EXCEPT ![p] = "commit"]
     ELSE /\ pc' = WakeLog([pc EXCEPT ![p] = "idle"])
          /\ UNCHANGED <<stage, tail>>
  /\ touched' = [touched EXCEPT ![p] = {}]
  /\ UNCHANGED <<onDisk, cache, lh, committing, cur>>

\* end_op() up to its first release(), and commit()'s test of lh.n.
end_op(p) ==
  /\ pc[p] = "op" /\ ~committing
  /\ outstanding' = outstanding - 1
  /\ IF outstanding = 1
     THEN /\ committing' = TRUE
          /\ stage' = IF lh = <<>> THEN "done" ELSE "wlog"
          /\ tail' = 1
          /\ pc' = [pc EXCEPT ![p] = "commit"]
     ELSE /\ pc' = WakeLog([pc EXCEPT ![p] = "idle"])
          /\ UNCHANGED <<committing, stage, tail>>
  /\ touched' = [touched EXCEPT ![p] = {}]
  /\ UNCHANGED <<onDisk, cache, lh, cur>>

end_op_done_no_wakeup(p) ==
  /\ pc[p] = "commit" /\ stage = "done"
  /\ committing' = FALSE
  /\ stage' = "run"
  /\ pc' = [pc EXCEPT ![p] = "idle"]
  /\ UNCHANGED <<onDisk, cache, lh, outstanding, tail, cur, touched>>

\* end_op() after commit(): let the others in.
end_op_done(p) ==
  /\ pc[p] = "commit" /\ stage = "done"
  /\ committing' = FALSE
  /\ stage' = "run"
  /\ pc' = WakeLog([pc EXCEPT ![p] = "idle"])
  /\ UNCHANGED <<onDisk, cache, lh, outstanding, tail, cur, touched>>

-----------------------------------------------------------------------------
(* log.c: commit and recovery, one disk write at a time.                   *)

\* The loop over tail of write_log() and install_trans() goes on or ends.
Advance(after) ==
  /\ tail' = tail + 1
  /\ stage' = IF tail = Len(lh) THEN after ELSE stage

write_log ==
  LET b == lh[tail] IN
  /\ stage = "wlog"
  /\ holder[b] = NoProc
  /\ data' = [data EXCEPT ![b] = Contents(b)]
  /\ dlog' = [dlog EXCEPT ![tail] = Contents(b)]
  /\ Advance("whead")
  /\ UNCHANGED <<disk, dhead, holder, pins, log, pc, cur, touched>>

write_head_after_install ==
  /\ stage = "whead"
  /\ stage' = "inst" /\ tail' = 1
  /\ UNCHANGED <<onDisk, cache, log, pc, cur, touched>>

\* write_head() with lh.n > 0: the commit point.
write_head ==
  /\ stage = "whead"
  /\ dhead' = lh
  /\ stage' = "inst" /\ tail' = 1
  /\ UNCHANGED <<disk, dlog, cache, log, pc, cur, touched>>

\* install_trans(recovering): one block from the log to its home.
install_trans(recovering) ==
  LET b == lh[tail] IN
  /\ stage = IF recovering THEN "rinst" ELSE "inst"
  /\ holder[b] = NoProc
  /\ data' = [data EXCEPT ![b] = dlog[tail]]
  /\ disk' = [disk EXCEPT ![b] = dlog[tail]]
  /\ pins' = IF recovering THEN pins ELSE [pins EXCEPT ![b] = @ - 1]
  /\ Advance(IF recovering THEN "rclear" ELSE "clear")
  /\ UNCHANGED <<dlog, dhead, holder, log, pc, cur, touched>>

\* lh.n = 0 and the second write_head(): erase the transaction.
clear_head ==
  /\ stage \in {"clear", "rclear"}
  /\ lh' = <<>> /\ dhead' = <<>>
  /\ stage' = IF stage = "clear" THEN "done" ELSE "run"
  /\ tail' = 1
  /\ UNCHANGED <<disk, dlog, cache, outstanding, committing, pc, cur, touched>>

\* recover_from_log() starts: read_head().
read_head ==
  /\ stage = "boot"
  /\ lh' = dhead
  /\ stage' = IF dhead = <<>> THEN "rclear" ELSE "rinst"
  /\ tail' = 1
  /\ UNCHANGED <<onDisk, cache, outstanding, committing, pc, cur, touched>>

\* Power fails.  The block that was being written may be left half written.
Crash ==
  /\ \E torn \in BOOLEAN :
       /\ dlog' = IF torn /\ stage = "wlog" THEN [dlog EXCEPT ![tail] = Torn]
                  ELSE dlog
       /\ disk' = IF torn /\ stage \in {"inst", "rinst"}
                  THEN [disk EXCEPT ![lh[tail]] = Torn] ELSE disk
  /\ data' = [b \in Blocks |-> Uncached]
  /\ holder' = [b \in Blocks |-> NoProc]
  /\ pins' = [b \in Blocks |-> 0]
  /\ lh' = <<>> /\ outstanding' = 0 /\ committing' = FALSE
  /\ stage' = "boot" /\ tail' = 1
  /\ pc' = [p \in Procs |-> "idle"]
  /\ cur' = [p \in Procs |-> NoBlock]
  /\ touched' = [p \in Procs |-> {}]
  /\ UNCHANGED dhead

Commit == write_log \/ write_head \/ install_trans(FALSE)
Recover == read_head \/ install_trans(TRUE)

Next ==
  \/ \E p \in Procs :
       \/ begin_op(p) \/ kkill(p) \/ log_write(p) \/ end_op(p) \/ end_op_done(p)
       \/ \E b \in Blocks : bread(p, b)
       \/ brelse(p)
       \/ \E v \in Values : Modify(p, v)
  \/ \E b \in Blocks : Recycle(b)
  \/ Commit \/ Recover \/ clear_head
  \/ Crash

Spec == Init /\ [][Next]_vars

-----------------------------------------------------------------------------
TypeOK ==
  /\ disk \in [Blocks -> Values \cup {Torn}]
  /\ dlog \in [1 .. LOGBLOCKS -> Values \cup {Torn}]
  /\ dhead \in Seq(Blocks) /\ Len(dhead) <= LOGBLOCKS
  /\ data \in [Blocks -> Values \cup {Uncached}]
  /\ holder \in [Blocks -> Procs \cup {NoProc}]
  /\ pins \in [Blocks -> 0 .. 1]
  /\ lh \in Seq(Blocks) /\ Len(lh) <= LOGBLOCKS
  /\ outstanding \in Nat
  /\ committing \in BOOLEAN
  /\ stage \in {"boot", "rinst", "rclear", "run", "wlog", "whead", "inst", "clear", "done"}
  /\ tail \in 1 .. LOGBLOCKS + 1
  /\ pc \in [Procs -> {"idle", "rhold", "begin", "sleep", "op", "hold", "mod", "commit"}]
  /\ cur \in [Procs -> Blocks \cup {NoBlock}]
  /\ touched \in [Procs -> SUBSET Blocks]

\* None of log.c's panics is reached: a log_write() finds the log not full and
\* an operation outstanding, no end_op() comes while a commit is in progress.
NoPanic ==
  \A p \in Procs :
    /\ pc[p] = "mod" => Len(lh) < LOGBLOCKS /\ outstanding >= 1
    /\ pc[p] \in InOp => ~committing

\* What recovery makes of home blocks d, log blocks l and a header h.
Restore(h, l, d) ==
  [b \in Blocks |-> IF b \in BlocksIn(h)
                    THEN l[CHOOSE i \in 1 .. Len(h) : h[i] = b] ELSE d[b]]

\* The blocks a crash at this moment would leave after recovery.
Durable == Restore(dhead, dlog, disk)

\* The blocks as the file system sees them; while the system is down or
\* recovering, what recovery will bring back.
Mem ==
  IF stage \in {"boot", "rinst", "rclear"} THEN Durable
  ELSE [b \in Blocks |-> Contents(b)]

\* When no operation is outstanding and no commit is in progress, all that the
\* finished operations wrote is durable: end_op() of the last one returns only
\* after its commit.
Durability == outstanding = 0 /\ ~committing => Durable = Mem

\* The log over the cache implements atomic operations: whatever the
\* interleaving of operations, readers, recycled buffers and crashes (also
\* during commit and during recovery), a crash restores a moment at which no
\* operation was in progress.
Atomic == INSTANCE AtomicDisk WITH mem <- Mem, durable <- Durable, active <- OpsActive
ImplementsAtomicDisk == Atomic!Spec

\* A process sleeps in begin_op() only while an operation or a commit is in
\* progress, whose end_op() will wake it: no wakeup(&log) is missed, and no
\* process waits for log space that nobody is going to free.
SleeperHasWaker == \A p \in Procs : pc[p] = "sleep" => committing \/ outstanding > 0
=============================================================================
