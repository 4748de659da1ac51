----------------------------- MODULE LogProofs -----------------------------
(***************************************************************************)
(* For every set of processes, blocks and contents and every size of the   *)
(* log: operations are atomic with respect to crashes (the log implements  *)
(* AtomicDisk), what finished operations wrote is durable as soon as no    *)
(* operation and no commit is in progress, no sleeper is forgotten, and    *)
(* operations that write fewer blocks than MAXOPBLOCKS find room.          *)
(*                                                                         *)
(* First the inductive invariant, and its preservation by the steps of     *)
(* operations (begin_op(), bread(), log_write(), brelse(), end_op()), of   *)
(* commit, of crash and of recovery; then the theorems it gives.           *)
(***************************************************************************)
EXTENDS Log, FiniteSetTheorems, TLAPS

USE Zenon

Recovering == stage \in {"boot", "rinst", "rclear"}

Distinct(s) == \A i, j \in 1 .. Len(s) : s[i] = s[j] => i = j

\* Entries of lh whose block is newer in the cache than on its home location.
Pending(i) == \/ stage \in {"run", "wlog", "whead"}
              \/ stage = "inst" /\ i >= tail
PendingBlocks == {b \in Blocks : \E i \in 1 .. Len(lh) : Pending(i) /\ lh[i] = b}

\* Some process has changed the buffer of b and not yet called log_write().
BeingModified(b) == \E p \in Procs : pc[p] = "mod" /\ cur[p] = b

\* A process that uses a buffer holds its lock, and the buffer is not recycled.
HoldInv ==
  \A p \in Procs : pc[p] \in {"hold", "mod", "rhold"} =>
    /\ cur[p] \in Blocks
    /\ holder[cur[p]] = p
    /\ data[cur[p]] # Uncached

\* Commit and operations exclude each other; recovery runs alone.
ControlInv ==
  /\ outstanding = Cardinality(OpsActive)
  /\ committing <=> stage \in {"wlog", "whead", "inst", "clear", "done"}
  /\ committing => outstanding = 0
  /\ \A p \in Procs : pc[p] = "commit" => committing
  /\ \A p, q \in Procs : pc[p] = "commit" /\ pc[q] = "commit" => p = q
  /\ Recovering => \A p \in Procs : pc[p] = "idle"

\* The header on disk names a transaction only from the commit point until it
\* is erased, and then the one in memory.
HeadInv ==
  /\ Distinct(lh) /\ Distinct(dhead)
  /\ stage \in {"run", "wlog", "whead", "done"} => dhead = <<>>
  /\ stage \in {"inst", "clear", "rinst", "rclear"} => dhead = lh
  /\ stage = "done" => lh = <<>>
  /\ stage \in {"wlog", "inst", "rinst"} => tail \in 1 .. Len(lh)
  /\ stage = "whead" => 1 \in 1 .. Len(lh)

\* A block the cache holds differs from its home only while it is logged or
\* while its holder is between changing it and log_write(); logged blocks stay
\* in the cache.
CacheInv ==
  /\ \A b \in Blocks : pins[b] = IF b \in PendingBlocks THEN 1 ELSE 0
  /\ \A b \in PendingBlocks : data[b] # Uncached
  /\ \A b \in Blocks \ PendingBlocks :
       data[b] \in {Uncached, disk[b]} \/ BeingModified(b)

\* What the log blocks hold at each stage of a commit or a recovery.
CopyInv ==
  /\ stage = "wlog" => \A i \in 1 .. tail - 1 : dlog[i] = data[lh[i]]
  /\ stage = "whead" => \A i \in 1 .. Len(lh) : dlog[i] = data[lh[i]]
  /\ stage = "inst" => \A i \in tail .. Len(lh) : dlog[i] = data[lh[i]]
  /\ stage \in {"inst", "rinst"} => \A i \in 1 .. tail - 1 : dlog[i] = disk[lh[i]]
  /\ stage \in {"clear", "rclear"} => \A i \in 1 .. Len(lh) : dlog[i] = disk[lh[i]]

\* A half-written block is never one that recovery would use.
TornInv ==
  /\ \A i \in 1 .. Len(dhead) : dlog[i] \in Values
  /\ \A b \in Blocks : b \in BlocksIn(dhead) \/ disk[b] \in Values

IInv == /\ TypeOK /\ HoldInv /\ ControlInv /\ HeadInv /\ CacheInv
        /\ CopyInv /\ TornInv
-----------------------------------------------------------------------------
(* Facts the steps share.                                                  *)

\* Only finitely many processes are inside an operation at a time.
LEMMA OpsFinite == IsFiniteSet(OpsActive)
BY FS_Subset, NamesAssumption DEF OpsActive

\* Steps that change neither lh nor the stage of a commit.
LEMMA PendingFrame ==
  ASSUME UNCHANGED <<lh, stage, tail>>
  PROVE  PendingBlocks' = PendingBlocks
BY DEF PendingBlocks, Pending

\* Steps that change no contents of a block and take no process out of "mod".
LEMMA CacheFrame ==
  ASSUME CacheInv, PendingBlocks' = PendingBlocks,
         UNCHANGED <<disk, data, pins, cur>>,
         \A q \in Procs : pc[q] = "mod" => pc'[q] = "mod"
  PROVE  CacheInv'
<1>1. \A b \in Blocks : BeingModified(b) => BeingModified(b)'
  BY DEF BeingModified
<1> QED
  BY <1>1 DEF CacheInv

\* Steps that change nothing on disk and nothing of the commit.
LEMMA CommitFrame ==
  ASSUME HeadInv, CopyInv, TornInv,
         UNCHANGED <<disk, dlog, dhead, lh, stage, tail>>,
         \A i \in 1 .. Len(lh) :
           stage \in {"wlog", "whead", "inst"} => data'[lh[i]] = data[lh[i]]
  PROVE  HeadInv' /\ CopyInv' /\ TornInv'
<1>1. HeadInv'
  BY SMT DEF HeadInv, Distinct
<1>2. CopyInv'
  BY SMT DEF CopyInv, HeadInv
<1>3. TornInv'
  BY DEF TornInv, BlocksIn
<1> QED
  BY <1>1, <1>2, <1>3

\* While a commit or a recovery is in progress no operation is.
LEMMA NoOpsInCommit ==
  ASSUME ControlInv, committing \/ Recovering
  PROVE  \A p \in Procs : pc[p] \notin InOp
<1>1. CASE Recovering
  BY <1>1 DEF ControlInv, InOp
<1>2. CASE committing
  <2>1. Cardinality(OpsActive) = 0
    BY <1>2 DEF ControlInv
  <2>2. OpsActive = {}
    BY <2>1, OpsFinite, FS_EmptySet
  <2> QED
    BY <2>2 DEF OpsActive
<1> QED
  BY <1>1, <1>2

\* A block in no pending entry that nobody is changing: the cache agrees.
LEMMA CleanBlock ==
  ASSUME IInv, NEW b \in Blocks, b \notin PendingBlocks, ~BeingModified(b)
  PROVE  Contents(b) = disk[b]
BY DEF IInv, CacheInv, Contents

\* A buffer whose lock is free is not being changed.
LEMMA FreeNotModified ==
  ASSUME HoldInv, NEW b \in Blocks, holder[b] = NoProc
  PROVE  ~BeingModified(b)
BY NamesAssumption DEF HoldInv, BeingModified

\* What a reader finds is never a half-written block.
LEMMA ContentsValue ==
  ASSUME IInv, ~Recovering, NEW b \in Blocks
  PROVE  Contents(b) \in Values
<1>1. CASE data[b] # Uncached
  BY <1>1 DEF IInv, TypeOK, Contents
<1>2. CASE data[b] = Uncached /\ b \notin BlocksIn(dhead)
  BY <1>2 DEF IInv, TornInv, Contents
<1>3. CASE data[b] = Uncached /\ b \in BlocksIn(dhead)
  <2>1. stage \in {"inst", "clear"} /\ dhead = lh
    BY <1>3, SMT DEF IInv, HeadInv, BlocksIn, TypeOK, Recovering
  <2>2. PICK i \in 1 .. Len(lh) : lh[i] = b
    BY <1>3, <2>1 DEF BlocksIn
  <2>3. ~Pending(i)
    BY <1>3, <2>2 DEF IInv, CacheInv, PendingBlocks
  <2>4. dlog[i] = disk[b]
    BY <2>1, <2>2, <2>3, SMT DEF IInv, CopyInv, Pending, TypeOK
  <2> QED
    BY <1>3, <2>1, <2>2, <2>4 DEF IInv, TornInv, Contents
<1> QED
  BY <1>1, <1>2, <1>3
-----------------------------------------------------------------------------
(* The invariant holds initially and each step preserves it.               *)

\* A freshly made file system, before initlog(), satisfies the invariant.
LEMMA InitIInv == Init => IInv
<1> SUFFICES ASSUME Init PROVE IInv
  OBVIOUS
<1> USE SizeAssumption, ContentsAssumption, NamesAssumption DEF Init
<1>1. TypeOK
  <2>1. disk \in [Blocks -> Values \cup {Torn}] /\ dlog \in [1 .. LOGBLOCKS -> Values \cup {Torn}]
    OBVIOUS
  <2>2. dhead \in Seq(Blocks) /\ Len(dhead) <= LOGBLOCKS /\ lh \in Seq(Blocks) /\ Len(lh) <= LOGBLOCKS
    BY SMT
  <2>3. tail \in 1 .. LOGBLOCKS + 1 /\ outstanding \in Nat /\ pins \in [Blocks -> 0 .. 1]
    BY SMT
  <2> QED
    BY <2>1, <2>2, <2>3 DEF TypeOK
<1>2. HoldInv
  BY DEF HoldInv
<1>3. ControlInv
  <2>1. OpsActive = {}
    BY DEF OpsActive, InOp
  <2> QED
    BY <2>1, FS_EmptySet DEF ControlInv, Recovering
<1>4. HeadInv
  BY SMT DEF HeadInv, Distinct
<1>5. CacheInv
  BY DEF CacheInv, PendingBlocks, Pending
<1>6. CopyInv
  BY DEF CopyInv
<1>7. TornInv
  BY SMT DEF TornInv
<1> QED
  BY <1>1, <1>2, <1>3, <1>4, <1>5, <1>6, <1>7 DEF IInv

\* begin_op(), whether it sleeps or enters, preserves the invariant.
LEMMA StepBeginOp ==
  ASSUME IInv, NEW p \in Procs, begin_op(p)
  PROVE  IInv'
<1> USE NamesAssumption DEF IInv
<1>0. /\ pc[p] \in {"idle", "begin"} /\ ~Recovering
      /\ UNCHANGED <<disk, dlog, dhead, data, holder, pins, lh, committing,
                     stage, tail, cur, touched>>
      /\ \/ pc' = [pc EXCEPT ![p] = "sleep"] /\ outstanding' = outstanding
         \/ /\ pc' = [pc EXCEPT ![p] = "op"] /\ outstanding' = outstanding + 1
            /\ ~committing
  BY DEF begin_op, onDisk, cache, Recovering
<1>1. TypeOK'
  <2>1. outstanding' \in Nat
    BY <1>0, SMT DEF TypeOK
  <2> QED
    BY <1>0, <2>1, ZenonT(20) DEF TypeOK
<1>2. HoldInv'
  BY <1>0, SMT DEF HoldInv, TypeOK
<1>3. ControlInv'
  <2>1. CASE pc' = [pc EXCEPT ![p] = "sleep"] /\ outstanding' = outstanding
    <3>1. OpsActive' = OpsActive
      BY <1>0, <2>1 DEF OpsActive, InOp, TypeOK
    <3> QED
      BY <1>0, <2>1, <3>1 DEF ControlInv, Recovering, TypeOK
  <2>2. CASE pc' = [pc EXCEPT ![p] = "op"] /\ outstanding' = outstanding + 1 /\ ~committing
    <3>1. OpsActive' = OpsActive \cup {p} /\ p \notin OpsActive
      BY <1>0, <2>2, SMT DEF OpsActive, InOp, TypeOK
    <3>2. Cardinality(OpsActive') = Cardinality(OpsActive) + 1
      BY <3>1, OpsFinite, FS_AddElement, ZenonT(20)
    <3> QED
      BY <1>0, <2>2, <3>2 DEF ControlInv, Recovering, TypeOK
  <2> QED
    BY <1>0, <2>1, <2>2
<1>4. HeadInv' /\ CopyInv' /\ TornInv'
  BY <1>0, CommitFrame
<1>5. CacheInv'
  BY <1>0, PendingFrame, CacheFrame DEF TypeOK
<1> QED
  BY <1>1, <1>2, <1>3, <1>4, <1>5

\* kkill() of a process asleep in begin_op() preserves the invariant.
LEMMA StepKill ==
  ASSUME IInv, NEW p \in Procs, kkill(p)
  PROVE  IInv'
<1> USE NamesAssumption DEF IInv
<1>0. /\ pc[p] = "sleep" /\ pc' = [pc EXCEPT ![p] = "begin"]
      /\ UNCHANGED <<disk, dlog, dhead, data, holder, pins, lh, outstanding,
                     committing, stage, tail, cur, touched>>
  BY DEF kkill, onDisk, cache, log
<1>1. TypeOK' /\ HoldInv'
  BY <1>0 DEF TypeOK, HoldInv
<1>2. ControlInv'
  <2>1. OpsActive' = OpsActive
    BY <1>0 DEF OpsActive, InOp, TypeOK
  <2> QED
    BY <1>0, <2>1 DEF ControlInv, Recovering, TypeOK
<1>3. HeadInv' /\ CopyInv' /\ TornInv'
  BY <1>0, CommitFrame
<1>4. CacheInv'
  BY <1>0, PendingFrame, CacheFrame DEF TypeOK
<1> QED
  BY <1>1, <1>2, <1>3, <1>4

\* bread(), a cache hit or a read of the disk, preserves the invariant.
LEMMA StepBread ==
  ASSUME IInv, NEW p \in Procs, NEW b \in Blocks, bread(p, b)
  PROVE  IInv'
<1> USE NamesAssumption DEF IInv
<1>0. /\ pc[p] \in {"idle", "op"} /\ holder[b] = NoProc /\ ~Recovering
      /\ holder' = [holder EXCEPT ![b] = p]
      /\ data' = [data EXCEPT ![b] = Contents(b)]
      /\ cur' = [cur EXCEPT ![p] = b]
      /\ pc' = [pc EXCEPT ![p] = IF pc[p] = "op" THEN "hold" ELSE "rhold"]
      /\ UNCHANGED <<disk, dlog, dhead, pins, lh, outstanding,
                     committing, stage, tail, touched>>
  BY DEF bread, onDisk, log, Recovering
<1>1. Contents(b) \in Values
  BY <1>0, ContentsValue
<1>2. TypeOK'
  BY <1>0, <1>1 DEF TypeOK
<1>3. HoldInv'
  BY <1>0, <1>1, ContentsAssumption, SMT DEF HoldInv, TypeOK
<1>4. ControlInv'
  <2>1. OpsActive' = OpsActive
    BY <1>0 DEF OpsActive, InOp, TypeOK
  <2> QED
    BY <1>0, <2>1 DEF ControlInv, Recovering, TypeOK
<1>5. ASSUME NEW i \in 1 .. Len(lh), stage \in {"wlog", "whead", "inst"}
      PROVE  data'[lh[i]] = data[lh[i]] \/ ~Pending(i)
  <2>1. lh[i] \in Blocks
    BY SMT DEF TypeOK
  <2>2. Pending(i) => lh[i] \in PendingBlocks
    BY <2>1 DEF PendingBlocks
  <2>3. Pending(i) => data[lh[i]] # Uncached
    BY <2>2 DEF CacheInv
  <2>4. data[lh[i]] # Uncached => data'[lh[i]] = data[lh[i]]
    <3>1. CASE lh[i] = b
      <4>1. /\ data \in [Blocks -> Values \cup {Uncached}]
            /\ data' = [data EXCEPT ![b] = IF data[b] = Uncached THEN disk[b] ELSE data[b]]
        BY <1>0 DEF Contents, TypeOK
      <4> QED
        BY <3>1, <4>1, SMT
    <3>2. CASE lh[i] # b
      BY <1>0, <2>1, <3>2 DEF TypeOK
    <3> QED
      BY <3>1, <3>2
  <2> QED
    BY <2>3, <2>4
<1>6. HeadInv'
  BY <1>0, SMT DEF HeadInv, Distinct
<1>7. CopyInv'
  BY <1>0, <1>5, SMT DEF CopyInv, Pending, HeadInv, TypeOK
<1>8. TornInv'
  BY <1>0 DEF TornInv, BlocksIn
<1>9. CacheInv'
  <2>1. PendingBlocks' = PendingBlocks
    BY <1>0, PendingFrame
  <2>2. \A c \in Blocks : BeingModified(c) => BeingModified(c)'
    BY <1>0 DEF BeingModified, TypeOK
  <2>3. \A c \in Blocks : c # b => data'[c] = data[c]
    BY <1>0 DEF TypeOK
  <2>4. data'[b] = Contents(b) /\ Contents(b) # Uncached
    BY <1>0, <1>1, ContentsAssumption DEF TypeOK
  <2>5. b \notin PendingBlocks => data'[b] = disk[b]
    BY <1>0, <2>4, FreeNotModified, CleanBlock
  <2> QED
    BY <1>0, <2>1, <2>2, <2>3, <2>4, <2>5, SMT DEF CacheInv
<1> QED
  BY <1>2, <1>3, <1>4, <1>6, <1>7, <1>8, <1>9

\* brelse() preserves the invariant: a changed block was logged before.
LEMMA StepBrelse ==
  ASSUME IInv, NEW p \in Procs, brelse(p)
  PROVE  IInv'
<1> USE NamesAssumption DEF IInv
<1>0. /\ pc[p] \in {"hold", "rhold"}
      /\ holder' = [holder EXCEPT ![cur[p]] = NoProc]
      /\ cur' = [cur EXCEPT ![p] = NoBlock]
      /\ pc' = [pc EXCEPT ![p] = IF pc[p] = "hold" THEN "op" ELSE "idle"]
      /\ UNCHANGED <<disk, dlog, dhead, data, pins, lh, outstanding,
                     committing, stage, tail, touched>>
  BY DEF brelse, onDisk, log
<1>1. TypeOK'
  BY <1>0 DEF TypeOK
<1>2. HoldInv'
  BY <1>0, SMT DEF HoldInv, TypeOK
<1>3. ControlInv'
  <2>1. OpsActive' = OpsActive
    BY <1>0 DEF OpsActive, InOp, TypeOK
  <2> QED
    BY <1>0, <2>1 DEF ControlInv, Recovering, TypeOK
<1>4. HeadInv' /\ CopyInv' /\ TornInv'
  BY <1>0, CommitFrame
<1>5. CacheInv'
  <2>1. PendingBlocks' = PendingBlocks
    BY <1>0, PendingFrame
  <2>2. \A c \in Blocks : BeingModified(c) => BeingModified(c)'
    BY <1>0 DEF BeingModified, TypeOK
  <2> QED
    BY <1>0, <2>1, <2>2 DEF CacheInv
<1> QED
  BY <1>1, <1>2, <1>3, <1>4, <1>5

\* An operation in progress means that the log is neither committing nor
\* recovering.
LEMMA OpRuns ==
  ASSUME IInv, NEW p \in Procs, pc[p] \in InOp
  PROVE  stage = "run" /\ ~committing /\ ~Recovering /\ outstanding >= 1
<1>1. ~committing /\ ~Recovering
  BY NoOpsInCommit DEF IInv
<1>2. Cardinality(OpsActive) # 0
  BY OpsFinite, FS_EmptySet DEF OpsActive
<1>3. outstanding >= 1
  BY <1>2, SMT DEF IInv, ControlInv, TypeOK
<1> QED
  BY <1>1, <1>3 DEF IInv, ControlInv, TypeOK, Recovering

\* A change to a locked buffer before its log_write() preserves the invariant.
LEMMA StepModify ==
  ASSUME IInv, NEW p \in Procs, NEW v \in Values, Modify(p, v)
  PROVE  IInv'
<1> USE NamesAssumption DEF IInv
<1>0. /\ pc[p] = "hold" /\ cur[p] \in Blocks
      /\ data' = [data EXCEPT ![cur[p]] = v]
      /\ pc' = [pc EXCEPT ![p] = "mod"]
      /\ UNCHANGED <<disk, dlog, dhead, holder, pins, lh, outstanding,
                     committing, stage, tail, cur, touched>>
  BY DEF Modify, onDisk, log, HoldInv
<1>r. stage = "run"
  BY <1>0, OpRuns DEF InOp
<1>1. TypeOK'
  BY <1>0 DEF TypeOK
<1>2. HoldInv'
  BY <1>0, ContentsAssumption, SMT DEF HoldInv, TypeOK
<1>3. ControlInv'
  <2>1. OpsActive' = OpsActive
    BY <1>0 DEF OpsActive, InOp, TypeOK
  <2> QED
    BY <1>0, <2>1 DEF ControlInv, Recovering, TypeOK
<1>4. HeadInv' /\ CopyInv' /\ TornInv'
  BY <1>0, <1>r, CommitFrame
<1>5. CacheInv'
  <2>1. PendingBlocks' = PendingBlocks
    BY <1>0, PendingFrame
  <2>2. \A c \in Blocks : BeingModified(c) => BeingModified(c)'
    BY <1>0 DEF BeingModified, TypeOK
  <2>3. BeingModified(cur[p])'
    BY <1>0 DEF BeingModified, TypeOK
  <2>4. \A c \in Blocks : c # cur[p] => data'[c] = data[c]
    BY <1>0 DEF TypeOK
  <2>5. data'[cur[p]] # Uncached
    BY <1>0, ContentsAssumption DEF TypeOK
  <2> QED
    BY <1>0, <2>1, <2>2, <2>3, <2>4, <2>5, SMT DEF CacheInv
<1> QED
  BY <1>1, <1>2, <1>3, <1>4, <1>5

\* bget() recycles only unpinned buffers, so it loses no logged contents.
LEMMA StepRecycle ==
  ASSUME IInv, NEW b \in Blocks, Recycle(b)
  PROVE  IInv'
<1> USE NamesAssumption DEF IInv
<1>0. /\ holder[b] = NoProc /\ pins[b] = 0
      /\ data' = [data EXCEPT ![b] = Uncached]
      /\ UNCHANGED <<disk, dlog, dhead, holder, pins, lh, outstanding,
                     committing, stage, tail, pc, cur, touched>>
  BY DEF Recycle, onDisk, log
<1>1. b \notin PendingBlocks
  BY <1>0, SMT DEF CacheInv
<1>2. TypeOK' /\ HoldInv'
  BY <1>0, SMT DEF TypeOK, HoldInv
<1>3. ControlInv'
  BY <1>0 DEF ControlInv, OpsActive, Recovering
<1>4. \A i \in 1 .. Len(lh) : Pending(i) => data'[lh[i]] = data[lh[i]]
  BY <1>0, <1>1, SMT DEF PendingBlocks, TypeOK
<1>5. HeadInv'
  BY <1>0, SMT DEF HeadInv, Distinct
<1>6. CopyInv'
  BY <1>0, <1>4, SMT DEF CopyInv, Pending, HeadInv, TypeOK
<1>7. TornInv'
  BY <1>0 DEF TornInv, BlocksIn
<1>8. CacheInv'
  <2>1. PendingBlocks' = PendingBlocks
    BY <1>0, PendingFrame
  <2>2. \A c \in Blocks : BeingModified(c) => BeingModified(c)'
    BY <1>0 DEF BeingModified
  <2>3. \A c \in Blocks : c # b => data'[c] = data[c]
    BY <1>0 DEF TypeOK
  <2>4. data'[b] = Uncached
    BY <1>0 DEF TypeOK
  <2> QED
    BY <1>0, <1>1, <2>1, <2>2, <2>3, <2>4, SMT DEF CacheInv
<1> QED
  BY <1>2, <1>3, <1>5, <1>6, <1>7, <1>8

\* log_write(), absorbing or appending, preserves the invariant.
LEMMA StepLogWrite ==
  ASSUME IInv, NEW p \in Procs, log_write(p)
  PROVE  IInv'
<1> USE NamesAssumption DEF IInv
<1>0. /\ pc[p] = "mod" /\ cur[p] \in Blocks /\ Len(lh) < LOGBLOCKS
      /\ touched' = [touched EXCEPT ![p] = @ \cup {cur[p]}]
      /\ pc' = [pc EXCEPT ![p] = "hold"]
      /\ UNCHANGED <<disk, dlog, dhead, data, holder, outstanding,
                     committing, stage, tail, cur>>
  BY DEF log_write, onDisk, HoldInv
<1>r. stage = "run" /\ lh \in Seq(Blocks)
  BY <1>0, OpRuns DEF InOp, TypeOK
<1>a. \/ cur[p] \in BlocksIn(lh) /\ lh' = lh /\ pins' = pins
      \/ /\ cur[p] \notin BlocksIn(lh) /\ lh' = Append(lh, cur[p])
         /\ pins' = [pins EXCEPT ![cur[p]] = @ + 1]
  BY DEF log_write
<1>b. PendingBlocks = BlocksIn(lh)
  BY <1>r, SMT DEF PendingBlocks, Pending, BlocksIn
<1>c. PendingBlocks' = PendingBlocks \cup {cur[p]}
  <2>1. CASE lh' = lh /\ cur[p] \in BlocksIn(lh)
    BY <1>0, <1>b, <2>1, PendingFrame
  <2>2. CASE lh' = Append(lh, cur[p])
    <3>1. BlocksIn(lh') = BlocksIn(lh) \cup {cur[p]}
      BY <1>0, <1>r, <2>2, SMT DEF BlocksIn
    <3>2. PendingBlocks' = BlocksIn(lh') \cap Blocks
      BY <1>0, <1>r DEF PendingBlocks, Pending, BlocksIn
    <3>3. BlocksIn(lh) \subseteq Blocks
      BY <1>b DEF PendingBlocks
    <3> QED
      BY <1>0, <1>b, <3>1, <3>2, <3>3
  <2> QED
    BY <1>a, <2>1, <2>2
<1>1. TypeOK'
  <2>1. lh' \in Seq(Blocks) /\ Len(lh') <= LOGBLOCKS
    <3>1. CASE lh' = lh
      BY <3>1 DEF TypeOK
    <3>2. CASE lh' = Append(lh, cur[p])
      <4>1. lh' \in Seq(Blocks) /\ Len(lh') = Len(lh) + 1 /\ Len(lh) \in Nat
        BY <1>0, <1>r, <3>2, SMT
      <4> QED
        BY <1>0, <4>1, SizeAssumption, SMT
    <3> QED
      BY <1>a, <3>1, <3>2
  <2>2. pins' \in [Blocks -> 0 .. 1]
    <3>1. CASE pins' = pins
      BY <3>1 DEF TypeOK
    <3>2. CASE cur[p] \notin BlocksIn(lh) /\ pins' = [pins EXCEPT ![cur[p]] = @ + 1]
      <4>1. pins[cur[p]] = 0
        BY <1>0, <1>b, <3>2 DEF CacheInv
      <4> QED
        BY <1>0, <3>2, <4>1, SMT DEF TypeOK
    <3> QED
      BY <1>a, <3>1, <3>2
  <2>3. touched' \in [Procs -> SUBSET Blocks] /\ pc' \in [Procs -> {"idle", "rhold", "begin", "sleep", "op", "hold", "mod", "commit"}]
    BY <1>0 DEF TypeOK
  <2> QED
    BY <1>0, <2>1, <2>2, <2>3 DEF TypeOK
<1>2. HoldInv'
  BY <1>0 DEF HoldInv, TypeOK
<1>3. ControlInv'
  <2>1. OpsActive' = OpsActive
    BY <1>0 DEF OpsActive, InOp, TypeOK
  <2> QED
    BY <1>0, <2>1 DEF ControlInv, Recovering, TypeOK
<1>4. HeadInv'
  <2>1. Distinct(lh')
    <3>1. CASE lh' = lh
      BY <3>1 DEF HeadInv
    <3>2. CASE cur[p] \notin BlocksIn(lh) /\ lh' = Append(lh, cur[p])
      BY <1>r, <3>2, SMT DEF HeadInv, Distinct, BlocksIn
    <3> QED
      BY <1>a, <3>1, <3>2
  <2> QED
    BY <1>0, <1>r, <2>1 DEF HeadInv
<1>5. CopyInv' /\ TornInv'
  BY <1>0, <1>r, SMT DEF CopyInv, TornInv, BlocksIn
<1>6. CacheInv'
  <2>1. \A c \in Blocks : c # cur[p] => (BeingModified(c) => BeingModified(c)')
    BY <1>0 DEF BeingModified, TypeOK
  <2>2. data[cur[p]] # Uncached
    BY <1>0 DEF HoldInv
  <2>3. \A c \in Blocks : pins'[c] = IF c \in PendingBlocks' THEN 1 ELSE 0
    BY <1>0, <1>a, <1>b, <1>c, SMT DEF CacheInv, TypeOK
  <2> QED
    BY <1>0, <1>c, <2>1, <2>2, <2>3 DEF CacheInv
<1> QED
  BY <1>1, <1>2, <1>3, <1>4, <1>5, <1>6

\* end_op(), the last operation's included, preserves the invariant.
LEMMA StepEndOp ==
  ASSUME IInv, NEW p \in Procs, end_op(p)
  PROVE  IInv'
<1> USE NamesAssumption, SizeAssumption DEF IInv
<1>0. /\ pc[p] = "op" /\ ~committing /\ outstanding' = outstanding - 1
      /\ touched' = [touched EXCEPT ![p] = {}]
      /\ UNCHANGED <<disk, dlog, dhead, data, holder, pins, lh, cur>>
  BY DEF end_op, onDisk, cache
<1>r. stage = "run" /\ outstanding >= 1 /\ outstanding \in Nat
  BY <1>0, OpRuns DEF InOp, TypeOK
<1>p. \A q \in Procs : /\ q # p /\ pc[q] \in {"hold", "mod", "op", "commit", "rhold", "idle"} => pc'[q] = pc[q]
                       /\ q # p /\ pc[q] \in {"begin", "sleep"} => pc'[q] \in {"begin", "sleep"}
  BY DEF end_op, WakeLog, TypeOK
<1>c. \/ /\ outstanding = 1 /\ committing' = TRUE
         /\ stage' = IF lh = <<>> THEN "done" ELSE "wlog"
         /\ tail' = 1 /\ pc'[p] = "commit"
      \/ /\ outstanding # 1 /\ pc'[p] = "idle"
         /\ UNCHANGED <<committing, stage, tail>>
  BY DEF end_op, WakeLog, TypeOK
<1>t. pc' \in [Procs -> {"idle", "rhold", "begin", "sleep", "op", "hold", "mod", "commit"}]
  BY ZenonT(20) DEF end_op, WakeLog, TypeOK
<1>1. TypeOK'
  <2>1. outstanding' \in Nat
    BY <1>0, <1>r, SMT
  <2>2. tail' \in 1 .. LOGBLOCKS + 1
    BY <1>c, SMT DEF TypeOK
  <2>3. touched' \in [Procs -> SUBSET Blocks]
    BY <1>0 DEF TypeOK
  <2>4. stage' \in {"run", "done", "wlog"}
    BY <1>c, <1>r
  <2>5. committing' \in BOOLEAN
    BY <1>c, ZenonT(30) DEF TypeOK
  <2> QED
    BY <1>0, <1>t, <2>1, <2>2, <2>3, <2>4, <2>5 DEF TypeOK
<1>2. HoldInv'
  <2> SUFFICES ASSUME NEW q \in Procs, pc'[q] \in {"hold", "mod", "rhold"}
               PROVE  cur[q] \in Blocks /\ holder[cur[q]] = q /\ data[cur[q]] # Uncached
    BY <1>0 DEF HoldInv
  <2>1. pc[q] = pc'[q]
    BY <1>p, <1>c DEF TypeOK
  <2> QED
    BY <2>1 DEF HoldInv
<1>3. ControlInv'
  <2>1. OpsActive' = OpsActive \ {p} /\ p \in OpsActive
    BY <1>0, <1>p, <1>c DEF OpsActive, InOp, TypeOK
  <2>2. Cardinality(OpsActive') = Cardinality(OpsActive) - 1
    BY <2>1, OpsFinite, FS_RemoveElement, ZenonT(20)
  <2>3. outstanding' = Cardinality(OpsActive')
    BY <1>0, <2>2 DEF ControlInv
  <2>4. \A q \in Procs : pc[q] # "commit"
    BY <1>0 DEF ControlInv
  <2>5. \A q \in Procs : pc'[q] = "commit" => q = p /\ outstanding = 1
    BY <1>p, <1>c, <2>4 DEF TypeOK
  <2>6. committing' => outstanding' = 0
    <3>1. CASE outstanding = 1
      BY <1>0, <3>1, SMT
    <3>2. CASE outstanding # 1
      BY <1>0, <1>c, <3>2, ZenonT(20)
    <3> QED
      BY <3>1, <3>2
  <2>7. committing' <=> stage' \in {"wlog", "whead", "inst", "clear", "done"}
    <3>1. CASE outstanding = 1
      BY <1>c, <3>1
    <3>2. CASE outstanding # 1
      BY <1>0, <1>r, <1>c, <3>2, SMT
    <3> QED
      BY <3>1, <3>2
  <2>8. stage' \in {"run", "done", "wlog"}
    BY <1>c, <1>r
  <2>9. outstanding = 1 => committing'
    BY <1>c
  <2> QED
    BY <2>3, <2>5, <2>6, <2>7, <2>8, <2>9 DEF ControlInv, Recovering
<1>4. HeadInv'
  <2>1. dhead = <<>>
    BY <1>r DEF HeadInv
  <2>2. lh # <<>> => 1 \in 1 .. Len(lh)
    BY SMT DEF TypeOK
  <2>3. stage' = "wlog" => tail' \in 1 .. Len(lh)
    BY <1>c, <1>r, <2>2
  <2>4. stage' = "done" => lh = <<>>
    BY <1>c, <1>r
  <2> QED
    BY <1>0, <1>c, <1>r, <2>1, <2>3, <2>4, SMT DEF HeadInv, Distinct
<1>5. CopyInv' /\ TornInv'
  BY <1>0, <1>c, <1>r, SMT DEF CopyInv, TornInv, BlocksIn
<1>6. CacheInv'
  <2>1. PendingBlocks' = PendingBlocks
    <3>1. CASE lh = <<>>
      BY <1>0, <3>1, SMT DEF PendingBlocks
    <3>2. CASE lh # <<>>
      BY <1>0, <1>c, <1>r, <3>2 DEF PendingBlocks, Pending
    <3> QED
      BY <3>1, <3>2
  <2> QED
    BY <1>0, <1>p, <2>1, CacheFrame DEF TypeOK
<1> QED
  BY <1>1, <1>2, <1>3, <1>4, <1>5, <1>6
-----------------------------------------------------------------------------
(* Commit, crash and recovery.                                             *)

\* The end of end_op() after a commit preserves the invariant.
LEMMA StepEndOpDone ==
  ASSUME IInv, NEW p \in Procs, end_op_done(p)
  PROVE  IInv'
<1> USE NamesAssumption DEF IInv
<1>0. /\ pc[p] = "commit" /\ stage = "done" /\ committing' = FALSE /\ stage' = "run"
      /\ UNCHANGED <<disk, dlog, dhead, data, holder, pins, lh, outstanding,
                     tail, cur, touched>>
  BY DEF end_op_done, onDisk, cache
<1>p. \A q \in Procs : /\ q # p /\ pc[q] \in {"hold", "mod", "op", "commit", "rhold", "idle"} => pc'[q] = pc[q]
                       /\ q # p /\ pc[q] \in {"begin", "sleep"} => pc'[q] \in {"begin", "sleep"}
                       /\ q = p => pc'[q] = "idle"
  BY DEF end_op_done, WakeLog, TypeOK
<1>t. pc' \in [Procs -> {"idle", "rhold", "begin", "sleep", "op", "hold", "mod", "commit"}]
  BY DEF end_op_done, WakeLog, TypeOK
<1>1. TypeOK'
  BY <1>0, <1>t, ZenonT(30) DEF TypeOK
<1>2. HoldInv'
  <2> SUFFICES ASSUME NEW q \in Procs, pc'[q] \in {"hold", "mod", "rhold"}
               PROVE  cur[q] \in Blocks /\ holder[cur[q]] = q /\ data[cur[q]] # Uncached
    BY <1>0, ZenonT(30) DEF HoldInv
  <2>1. pc[q] = pc'[q]
    BY <1>p DEF TypeOK
  <2> QED
    BY <2>1, SMTT(30) DEF HoldInv
<1>3. ControlInv'
  <2>1. OpsActive' = OpsActive
    BY <1>0, <1>p DEF OpsActive, InOp, TypeOK
  <2>2. \A q \in Procs : pc'[q] # "commit"
    BY <1>0, <1>p DEF ControlInv, TypeOK
  <2> QED
    BY <1>0, <2>1, <2>2 DEF ControlInv, Recovering
<1>4. HeadInv' /\ CopyInv' /\ TornInv'
  <2>1. HeadInv'
    BY <1>0, SMT DEF HeadInv, Distinct
  <2>2. CopyInv'
    BY <1>0 DEF CopyInv, BlocksIn
  <2>3. TornInv'
    BY <1>0 DEF TornInv, BlocksIn
  <2> QED
    BY <2>1, <2>2, <2>3
<1>5. CacheInv'
  <2>1. PendingBlocks' = PendingBlocks
    BY <1>0, SMT DEF PendingBlocks, HeadInv
  <2> QED
    BY <1>0, <1>p, <2>1, CacheFrame DEF TypeOK
<1> QED
  BY <1>1, <1>2, <1>3, <1>4, <1>5

\* write_head(), the commit point, preserves the invariant.
LEMMA StepWriteHead ==
  ASSUME IInv, write_head
  PROVE  IInv'
<1> USE NamesAssumption, SizeAssumption DEF IInv
<1>0. /\ stage = "whead" /\ dhead' = lh /\ stage' = "inst" /\ tail' = 1
      /\ UNCHANGED <<disk, dlog, data, holder, pins, lh, outstanding,
                     committing, pc, cur, touched>>
  BY SMTT(30) DEF write_head, cache, log
<1>1. TypeOK'
  <2>1. tail' \in 1 .. LOGBLOCKS + 1
    BY <1>0, SMT
  <2> QED
    BY <1>0, <2>1, SMTT(30) DEF TypeOK
<1>2. HoldInv' /\ ControlInv'
  BY <1>0, SMTT(30) DEF HoldInv, ControlInv, OpsActive, Recovering
<1>3. HeadInv'
  BY <1>0, SMTT(30) DEF HeadInv, Distinct
<1>4. CopyInv'
  BY <1>0, SMT DEF CopyInv, TypeOK
<1>5. TornInv'
  <2>1. ASSUME NEW i \in 1 .. Len(lh) PROVE dlog[i] \in Values
    <3>1. lh[i] \in PendingBlocks
      BY <1>0, SMT DEF PendingBlocks, Pending, TypeOK
    <3>2. data[lh[i]] \in Values
      BY <3>1, SMT DEF CacheInv, PendingBlocks, TypeOK
    <3> QED
      BY <1>0, <3>2 DEF CopyInv
  <2>2. \A b \in Blocks : disk[b] \in Values
    BY <1>0, SMT DEF TornInv, HeadInv, BlocksIn
  <2> QED
    BY <1>0, <2>1, <2>2 DEF TornInv
<1>6. CacheInv'
  <2>1. PendingBlocks' = PendingBlocks
    <3>1. \A i \in 1 .. Len(lh) : Pending(i) /\ Pending(i)'
      BY <1>0, SMT DEF Pending
    <3> QED
      BY <1>0, <3>1 DEF PendingBlocks
  <2> QED
    BY <1>0, <2>1, CacheFrame DEF TypeOK
<1> QED
  BY <1>1, <1>2, <1>3, <1>4, <1>5, <1>6

\* One block copied by write_log() preserves the invariant.
LEMMA StepWriteLog ==
  ASSUME IInv, write_log
  PROVE  IInv'
<1> USE NamesAssumption, SizeAssumption DEF IInv
<1> DEFINE b == lh[tail]
<1>0. /\ stage = "wlog" /\ tail \in 1 .. Len(lh) /\ b \in Blocks /\ holder[b] = NoProc
      /\ data' = [data EXCEPT ![b] = Contents(b)]
      /\ dlog' = [dlog EXCEPT ![tail] = Contents(b)]
      /\ tail' = tail + 1
      /\ stage' = IF tail = Len(lh) THEN "whead" ELSE "wlog"
      /\ UNCHANGED <<disk, dhead, holder, pins, lh, outstanding,
                     committing, pc, cur, touched>>
  BY SMT DEF write_log, log, Advance, HeadInv, TypeOK
<1>a. Len(lh) \in Nat /\ tail \in 1 .. LOGBLOCKS /\ tail \in Nat
  BY <1>0, SMT DEF TypeOK
<1>c. data[b] # Uncached /\ Contents(b) = data[b]
  <2>1. Pending(tail)
    BY <1>0 DEF Pending
  <2>2. b \in PendingBlocks
    BY <1>0, <2>1 DEF PendingBlocks
  <2> QED
    BY <2>2 DEF CacheInv, Contents
<1>d. data' = data
  BY <1>0, <1>c DEF TypeOK
<1>e. dlog'[tail] = data[b] /\ \A i \in 1 .. LOGBLOCKS : i # tail => dlog'[i] = dlog[i]
  BY <1>0, <1>a, <1>c DEF TypeOK
<1> HIDE DEF b
<1>1. TypeOK'
  <2>1. tail' \in 1 .. LOGBLOCKS + 1
    BY <1>0, <1>a, SMT
  <2>2. dlog' \in [1 .. LOGBLOCKS -> Values \cup {Torn}]
    BY <1>0, <1>c DEF TypeOK
  <2> QED
    BY <1>0, <1>d, <2>1, <2>2 DEF TypeOK
<1>2. HoldInv' /\ ControlInv'
  BY <1>0, <1>d DEF HoldInv, ControlInv, OpsActive, Recovering
<1>3. HeadInv'
  <2>1. tail # Len(lh) => tail + 1 \in 1 .. Len(lh)
    BY <1>0, <1>a, SMT
  <2>2. 1 \in 1 .. Len(lh)
    BY <1>0, <1>a, SMT
  <2> QED
    BY <1>0, <2>1, <2>2, SMT DEF HeadInv, Distinct
<1>4. CopyInv'
  <2>1. \A i \in 1 .. tail : dlog'[i] = data[lh[i]]
    BY <1>0, <1>a, <1>e, SMT DEF CopyInv, b, TypeOK
  <2>2. tail' - 1 = tail
    BY <1>0, <1>a, SMT
  <2> QED
    BY <1>0, <1>d, <2>1, <2>2, SMT DEF CopyInv
<1>5. TornInv'
  BY <1>0, SMT DEF TornInv, HeadInv, BlocksIn
<1>6. CacheInv'
  <2>1. PendingBlocks' = PendingBlocks
    BY <1>0 DEF PendingBlocks, Pending
  <2> QED
    BY <1>0, <1>d, <2>1, CacheFrame DEF TypeOK
<1> QED
  BY <1>1, <1>2, <1>3, <1>4, <1>5, <1>6

\* One block copied by install_trans(), committing or recovering, preserves it.
LEMMA StepInstall ==
  ASSUME IInv, NEW recovering \in BOOLEAN, install_trans(recovering)
  PROVE  IInv'
<1> USE NamesAssumption, SizeAssumption, ContentsAssumption DEF IInv
<1> DEFINE b == lh[tail]
<1>s. \/ ~recovering /\ stage = "inst"
      \/ recovering /\ stage = "rinst"
  BY SMTT(30) DEF install_trans
<1>0. /\ tail \in 1 .. Len(lh) /\ b \in Blocks /\ holder[b] = NoProc
      /\ data' = [data EXCEPT ![b] = dlog[tail]]
      /\ disk' = [disk EXCEPT ![b] = dlog[tail]]
      /\ tail' = tail + 1 /\ dhead = lh
      /\ UNCHANGED <<dlog, dhead, holder, lh, outstanding, committing, pc, cur, touched>>
  BY <1>s, SMT DEF install_trans, log, Advance, HeadInv, TypeOK
<1>n. stage' = IF tail = Len(lh) THEN (IF stage = "inst" THEN "clear" ELSE "rclear") ELSE stage
  BY <1>s DEF install_trans, Advance
<1>q. pins' = IF stage = "inst" THEN [pins EXCEPT ![b] = @ - 1] ELSE pins
  BY <1>s DEF install_trans
<1>a. Len(lh) \in Nat /\ tail \in 1 .. LOGBLOCKS /\ tail \in Nat
  BY <1>0, SMT DEF TypeOK
<1>v. dlog[tail] \in Values
  BY <1>0 DEF TornInv
<1>i. \A i \in 1 .. Len(lh) : i # tail => lh[i] # b
  BY <1>0 DEF HeadInv, Distinct
<1>e. /\ data'[b] = dlog[tail] /\ disk'[b] = dlog[tail]
      /\ \A c \in Blocks : c # b => data'[c] = data[c] /\ disk'[c] = disk[c]
  BY <1>0 DEF TypeOK
<1>l. \A i \in 1 .. Len(lh) : lh[i] \in Blocks
  BY SMT DEF TypeOK
<1>g. dlog[tail] = disk'[lh[tail]]
  BY <1>e
<1> HIDE DEF b
<1>1. TypeOK'
  <2>1. tail' \in 1 .. LOGBLOCKS + 1
    BY <1>0, <1>a, SMT
  <2>2. data' \in [Blocks -> Values \cup {Uncached}] /\ disk' \in [Blocks -> Values \cup {Torn}]
    BY <1>0, <1>v DEF TypeOK
  <2>3. pins' \in [Blocks -> 0 .. 1]
    <3>1. CASE stage = "inst"
      <4>1. Pending(tail)
        BY <1>a, <3>1, SMTT(30) DEF Pending
      <4>2. b \in PendingBlocks
        BY <1>0, <4>1 DEF PendingBlocks, b
      <4>3. pins[b] = 1
        BY <1>0, <4>2 DEF CacheInv
      <4> QED
        BY <1>0, <1>q, <3>1, <4>3, SMTT(30) DEF TypeOK
    <3>2. CASE stage # "inst"
      BY <1>q, <3>2 DEF TypeOK
    <3> QED
      BY <3>1, <3>2
  <2>4. stage' \in {"inst", "rinst", "clear", "rclear"}
    BY <1>n, <1>s
  <2> QED
    BY <1>0, <2>1, <2>2, <2>3, <2>4 DEF TypeOK
<1>2. HoldInv'
  BY <1>0, <1>e, <1>v, SMT DEF HoldInv, TypeOK
<1>3. ControlInv'
  BY <1>0, <1>n, <1>s DEF ControlInv, OpsActive, Recovering
<1>4. HeadInv'
  <2>1. tail # Len(lh) => tail + 1 \in 1 .. Len(lh)
    BY <1>0, <1>a, SMT
  <2> QED
    BY <1>0, <1>n, <1>s, <2>1, SMT DEF HeadInv, Distinct
<1>5. CopyInv'
  <2>1. ASSUME NEW i \in 1 .. tail PROVE dlog[i] = disk'[lh[i]]
    <3>1. CASE i = tail
      BY <1>g, <3>1
    <3>2. CASE i # tail
      <4>1. i \in 1 .. tail - 1 /\ i \in 1 .. Len(lh)
        BY <1>0, <1>a, <3>2, SMT
      <4>2. dlog[i] = disk[lh[i]]
        BY <1>s, <4>1, SMTT(30) DEF CopyInv
      <4> QED
        BY <1>e, <1>i, <1>l, <3>2, <4>1, <4>2, SMTT(30)
    <3> QED
      BY <3>1, <3>2
  <2>2. tail' - 1 = tail
    BY <1>0, <1>a, SMT
  <2>3. stage' = "inst" => \A i \in tail' .. Len(lh) : dlog[i] = data'[lh[i]]
    BY <1>0, <1>a, <1>e, <1>i, <1>l, <1>n, <1>s, SMTT(30) DEF CopyInv
  <2>4. stage' \in {"clear", "rclear"} => tail = Len(lh)
    BY <1>n, <1>s, SMTT(30)
  <2>5. stage' \in {"inst", "rinst", "clear", "rclear"}
    BY <1>n, <1>s
  <2> QED
    BY <1>0, <2>1, <2>2, <2>3, <2>4, <2>5, SMT DEF CopyInv
<1>6. TornInv'
  BY <1>0, <1>e, <1>v, ZenonT(30) DEF TornInv, BlocksIn
<1>7. CacheInv'
  <2>1. PendingBlocks' = PendingBlocks \ {b}
    <3>1. CASE stage = "rinst"
      BY <1>n, <3>1, SMTT(30) DEF PendingBlocks, Pending
    <3>2. CASE stage = "inst"
      <4>1. \A i \in 1 .. Len(lh) : Pending(i)' <=> Pending(i) /\ i # tail
        BY <1>0, <1>a, <1>n, <3>2, SMT DEF Pending
      <4> QED
        BY <1>0, <1>i, <4>1, ZenonT(30) DEF PendingBlocks, b
    <3> QED
      BY <1>s, <3>1, <3>2
  <2>2. stage = "rinst" => b \notin PendingBlocks
    BY DEF PendingBlocks, Pending
  <2>3. stage = "inst" => b \in PendingBlocks
    <3>1. stage = "inst" => Pending(tail)
      BY <1>a, SMT DEF Pending
    <3> QED
      BY <1>0, <3>1 DEF PendingBlocks, b
  <2>4. \A c \in Blocks : pins'[c] = IF c \in PendingBlocks' THEN 1 ELSE 0
    <3>1. CASE stage = "rinst"
      BY <1>q, <2>1, <2>2, <3>1, SMTT(30) DEF CacheInv
    <3>2. CASE stage = "inst"
      <4>1. pins'[b] = 0 /\ \A c \in Blocks : c # b => pins'[c] = pins[c]
        BY <1>0, <1>q, <2>3, <3>2, SMTT(30) DEF CacheInv, TypeOK
      <4> QED
        BY <2>1, <4>1 DEF CacheInv
    <3> QED
      BY <1>s, <3>1, <3>2
  <2>5. \A c \in Blocks : BeingModified(c) => BeingModified(c)'
    BY <1>0, ZenonT(30) DEF BeingModified
  <2>6. \A c \in PendingBlocks' : data'[c] # Uncached
    BY <1>e, <2>1 DEF CacheInv, PendingBlocks
  <2>7. ASSUME NEW c \in Blocks \ PendingBlocks'
        PROVE  data'[c] \in {Uncached, disk'[c]} \/ BeingModified(c)'
    <3>1. CASE c = b
      BY <1>e, <3>1
    <3>2. CASE c # b
      BY <1>e, <2>1, <2>5, <3>2 DEF CacheInv
    <3> QED
      BY <3>1, <3>2
  <2> QED
    BY <2>4, <2>6, <2>7 DEF CacheInv
<1> QED
  BY <1>1, <1>2, <1>3, <1>4, <1>5, <1>6, <1>7

\* Erasing the header after the installation preserves the invariant.
LEMMA StepClearHead ==
  ASSUME IInv, clear_head
  PROVE  IInv'
<1> USE NamesAssumption, SizeAssumption DEF IInv
<1>0. /\ stage \in {"clear", "rclear"} /\ lh' = <<>> /\ dhead' = <<>>
      /\ stage' = (IF stage = "clear" THEN "done" ELSE "run") /\ tail' = 1
      /\ UNCHANGED <<disk, dlog, data, holder, pins, outstanding,
                     committing, pc, cur, touched>>
  BY DEF clear_head, cache
<1>h. dhead = lh
  BY <1>0 DEF HeadInv
<1>1. TypeOK'
  <2>1. tail' \in 1 .. LOGBLOCKS + 1 /\ Len(lh') <= LOGBLOCKS /\ lh' \in Seq(Blocks)
    BY <1>0, SMT
  <2> QED
    BY <1>0, <2>1 DEF TypeOK
<1>2. HoldInv'
  BY <1>0 DEF HoldInv
<1>3. ControlInv'
  BY <1>0 DEF ControlInv, OpsActive, Recovering
<1>4. HeadInv'
  BY <1>0, SMTT(30) DEF HeadInv, Distinct
<1>5. CopyInv'
  BY <1>0 DEF CopyInv
<1>6. TornInv'
  <2>1. ASSUME NEW c \in Blocks PROVE disk[c] \in Values
    BY <1>0, <1>h, SMT DEF TornInv, BlocksIn, CopyInv
  <2> QED
    BY <1>0, <2>1, SMT DEF TornInv
<1>7. CacheInv'
  <2>1. PendingBlocks = {} /\ PendingBlocks' = {}
    BY <1>0, SMT DEF PendingBlocks, Pending
  <2> QED
    BY <1>0, <2>1, CacheFrame
<1> QED
  BY <1>1, <1>2, <1>3, <1>4, <1>5, <1>6, <1>7

\* read_head() at boot preserves the invariant.
LEMMA StepReadHead ==
  ASSUME IInv, read_head
  PROVE  IInv'
<1> USE NamesAssumption, SizeAssumption DEF IInv
<1>0. /\ stage = "boot" /\ lh' = dhead /\ tail' = 1
      /\ stage' = (IF dhead = <<>> THEN "rclear" ELSE "rinst")
      /\ UNCHANGED <<disk, dlog, dhead, data, holder, pins, outstanding,
                     committing, pc, cur, touched>>
  BY DEF read_head, cache, onDisk
<1>1. TypeOK'
  <2>1. tail' \in 1 .. LOGBLOCKS + 1
    BY <1>0, SMT
  <2> QED
    BY <1>0, <2>1 DEF TypeOK
<1>2. HoldInv'
  BY <1>0 DEF HoldInv
<1>3. ControlInv'
  BY <1>0 DEF ControlInv, OpsActive, Recovering
<1>4. HeadInv'
  <2>1. dhead # <<>> => 1 \in 1 .. Len(dhead)
    BY SMT DEF TypeOK
  <2> QED
    BY <1>0, <2>1, SMT DEF HeadInv, Distinct
<1>5. CopyInv'
  BY <1>0, SMT DEF CopyInv
<1>6. TornInv'
  BY <1>0 DEF TornInv, BlocksIn
<1>7. CacheInv'
  <2>1. PendingBlocks = {} /\ PendingBlocks' = {}
    BY <1>0 DEF PendingBlocks, Pending
  <2> QED
    BY <1>0, <2>1, CacheFrame
<1> QED
  BY <1>1, <1>2, <1>3, <1>4, <1>5, <1>6, <1>7

\* A crash, which may tear the block being written, preserves the invariant.
LEMMA StepCrash ==
  ASSUME IInv, Crash
  PROVE  IInv'
<1> USE NamesAssumption, SizeAssumption DEF IInv
<1>0. /\ data' = [b \in Blocks |-> Uncached] /\ holder' = [b \in Blocks |-> NoProc]
      /\ pins' = [b \in Blocks |-> 0] /\ lh' = <<>> /\ outstanding' = 0
      /\ committing' = FALSE /\ stage' = "boot" /\ tail' = 1
      /\ pc' = [p \in Procs |-> "idle"] /\ cur' = [p \in Procs |-> NoBlock]
      /\ touched' = [p \in Procs |-> {}] /\ dhead' = dhead
  BY DEF Crash
<1>a. \/ dlog' = dlog
      \/ stage = "wlog" /\ dlog' = [dlog EXCEPT ![tail] = Torn]
  BY DEF Crash
<1>b. \/ disk' = disk
      \/ stage \in {"inst", "rinst"} /\ disk' = [disk EXCEPT ![lh[tail]] = Torn]
  BY DEF Crash
<1>1. TypeOK'
  <2>1. tail' \in 1 .. LOGBLOCKS + 1 /\ Len(lh') <= LOGBLOCKS /\ lh' \in Seq(Blocks)
    BY <1>0, SMT
  <2>2. dlog' \in [1 .. LOGBLOCKS -> Values \cup {Torn}]
    BY <1>a DEF TypeOK
  <2>3. disk' \in [Blocks -> Values \cup {Torn}]
    BY <1>b DEF TypeOK
  <2>4. outstanding' \in Nat /\ pins' \in [Blocks -> 0 .. 1]
    BY <1>0, SMT
  <2> QED
    BY <1>0, <2>1, <2>2, <2>3, <2>4, ZenonT(30) DEF TypeOK
<1>2. HoldInv'
  BY <1>0 DEF HoldInv
<1>3. ControlInv'
  <2>1. OpsActive' = {}
    BY <1>0 DEF OpsActive, InOp
  <2> QED
    BY <1>0, <2>1, FS_EmptySet DEF ControlInv, Recovering
<1>4. HeadInv'
  BY <1>0, SMT DEF HeadInv, Distinct
<1>5. CopyInv'
  BY <1>0 DEF CopyInv
<1>6. TornInv'
  <2>1. \A i \in 1 .. Len(dhead) : dlog'[i] = dlog[i]
    BY <1>a, SMTT(30) DEF HeadInv, TypeOK
  <2>2. ASSUME NEW c \in Blocks, c \notin BlocksIn(dhead) PROVE disk'[c] = disk[c]
    <3>1. CASE disk' = disk
      BY <3>1
    <3>2. CASE stage \in {"inst", "rinst"} /\ disk' = [disk EXCEPT ![lh[tail]] = Torn]
      <4>1. lh[tail] \in BlocksIn(dhead)
        BY <3>2 DEF HeadInv, BlocksIn
      <4> QED
        BY <2>2, <3>2, <4>1, SMTT(30) DEF TypeOK
    <3> QED
      BY <1>b, <3>1, <3>2
  <2> QED
    BY <1>0, <2>1, <2>2 DEF TornInv, BlocksIn
<1>7. CacheInv'
  <2>1. PendingBlocks' = {}
    BY <1>0 DEF PendingBlocks, Pending
  <2> QED
    BY <1>0, <2>1 DEF CacheInv
<1> QED
  BY <1>1, <1>2, <1>3, <1>4, <1>5, <1>6, <1>7

\* Every step of log.c and bio.c preserves the inductive invariant.
LEMMA StepIInv == IInv /\ [Next]_vars => IInv'
<1> SUFFICES ASSUME IInv, [Next]_vars PROVE IInv'
  OBVIOUS
<1>1. CASE UNCHANGED vars
  <2>1. UNCHANGED <<disk, dlog, dhead, data, holder, pins, lh, outstanding,
                    committing, stage, tail, pc, cur, touched>>
    BY <1>1 DEF vars, onDisk, cache, log
  <2>2. TypeOK' /\ HoldInv' /\ ControlInv'
    BY <2>1 DEF IInv, TypeOK, HoldInv, ControlInv, OpsActive, Recovering
  <2>3. HeadInv' /\ CopyInv' /\ TornInv'
    BY <2>1, CommitFrame DEF IInv
  <2>4. CacheInv'
    BY <2>1, PendingFrame, CacheFrame DEF IInv
  <2> QED
    BY <2>2, <2>3, <2>4 DEF IInv
<1>2. CASE Next
  BY <1>2, StepBeginOp, StepKill, StepLogWrite, StepEndOp, StepEndOpDone, StepBread,
     StepBrelse, StepModify, StepRecycle, StepWriteLog, StepWriteHead, StepInstall,
     StepReadHead, StepClearHead, StepCrash DEF Next, Commit, Recover
<1> QED
  BY <1>1, <1>2

\* The inductive invariant holds in every reachable state, for any number of
\* processes, blocks and log blocks.
THEOREM Invariance == Spec => []IInv
BY InitIInv, StepIInv, PTL DEF Spec

\* The variables of the log and of the cache keep their types.
THEOREM TypeCorrect == Spec => []TypeOK
<1>1. IInv => TypeOK
  BY DEF IInv
<1> QED
  BY <1>1, Invariance, PTL
-----------------------------------------------------------------------------
(* What recovery restores.                                                 *)

\* Recovery takes a block the header names from its log block and leaves
\* every other block alone.
LEMMA RestoreIs ==
  ASSUME NEW h \in Seq(Blocks), Distinct(h), NEW l, NEW d
  PROVE  /\ \A i \in 1 .. Len(h) : Restore(h, l, d)[h[i]] = l[i]
         /\ \A b \in Blocks \ BlocksIn(h) : Restore(h, l, d)[b] = d[b]
<1>1. ASSUME NEW i \in 1 .. Len(h)
      PROVE  Restore(h, l, d)[h[i]] = l[i]
  <2>1. h[i] \in BlocksIn(h) /\ h[i] \in Blocks
    BY SMT DEF BlocksIn
  <2>2. (CHOOSE j \in 1 .. Len(h) : h[j] = h[i]) = i
    BY DEF Distinct
  <2> QED
    BY <2>1, <2>2, ZenonT(20) DEF Restore
<1>2. \A b \in Blocks \ BlocksIn(h) : Restore(h, l, d)[b] = d[b]
  BY DEF Restore
<1> QED
  BY <1>1, <1>2

\* Two disks are restored alike when each block comes out alike.
LEMMA RestoreSame ==
  ASSUME NEW h \in Seq(Blocks), Distinct(h), NEW l, NEW d, NEW m \in [Blocks -> Values \cup {Torn, Uncached}],
         \A i \in 1 .. Len(h) : m[h[i]] = l[i],
         \A b \in Blocks \ BlocksIn(h) : m[b] = d[b]
  PROVE  Restore(h, l, d) = m
<1>1. Restore(h, l, d) = [b \in Blocks |-> Restore(h, l, d)[b]]
  BY SMT DEF Restore
<1>2. ASSUME NEW b \in Blocks PROVE Restore(h, l, d)[b] = m[b]
  <2>1. CASE b \in BlocksIn(h)
    <3>1. PICK i \in 1 .. Len(h) : h[i] = b
      BY <2>1 DEF BlocksIn
    <3> QED
      BY <3>1, RestoreIs, SMT
  <2>2. CASE b \notin BlocksIn(h)
    BY <2>2, RestoreIs, SMT
  <2> QED
    BY <2>1, <2>2
<1> QED
  BY <1>1, <1>2

\* Steps that write only what recovery would not read, or what it would write.
LEMMA DurableFrame ==
  ASSUME IInv, UNCHANGED dhead,
         \A i \in 1 .. Len(dhead) : dlog'[i] = dlog[i],
         \A b \in Blocks \ BlocksIn(dhead) : disk'[b] = disk[b]
  PROVE  Durable' = Durable
<1> DEFINE h == dhead
           m == Durable
<1>1. h \in Seq(Blocks) /\ Distinct(h)
  BY DEF IInv, TypeOK, HeadInv
<1>2. /\ \A i \in 1 .. Len(h) : m[h[i]] = dlog'[i]
      /\ \A b \in Blocks \ BlocksIn(h) : m[b] = disk'[b]
  BY <1>1, RestoreIs, SMT DEF Durable
<1>3. m \in [Blocks -> Values \cup {Torn, Uncached}]
  <2>1. ASSUME NEW b \in Blocks PROVE m[b] \in Values \cup {Torn}
    <3>1. CASE b \in BlocksIn(h)
      <4>1. PICK i \in 1 .. Len(h) : h[i] = b
        BY <3>1 DEF BlocksIn
      <4>2. m[b] = dlog[i]
        BY <1>1, <4>1, RestoreIs, SMT DEF Durable
      <4> QED
        BY <4>2 DEF IInv, TornInv
    <3>2. CASE b \notin BlocksIn(h)
      <4>1. m[b] = disk[b]
        BY <1>1, <3>2, RestoreIs, SMT DEF Durable
      <4> QED
        BY <4>1 DEF IInv, TypeOK
    <3> QED
      BY <3>1, <3>2
  <2>2. m = [b \in Blocks |-> m[b]]
    BY SMT DEF Durable, Restore
  <2> QED
    BY <2>1, <2>2
<1> HIDE DEF m
<1>4. Restore(h, dlog', disk') = m
  BY <1>1, <1>2, <1>3, RestoreSame, SMT
<1>5. Durable' = Restore(h, dlog', disk')
  BY SMT DEF Durable, Restore, BlocksIn
<1> QED
  BY <1>4, <1>5 DEF m

\* A clean header: recovery leaves the disk as it is.
LEMMA DurableIsDisk ==
  ASSUME IInv, dhead = <<>>
  PROVE  Durable = disk
BY SMT DEF IInv, TypeOK, Durable, Restore, BlocksIn

\* No pending entry and nobody changing a buffer: the cache shows the disk.
LEMMA ContentsIsDisk ==
  ASSUME IInv, PendingBlocks = {}, \A p \in Procs : pc[p] # "mod"
  PROVE  [b \in Blocks |-> Contents(b)] = disk
<1>1. \A b \in Blocks : Contents(b) = disk[b]
  BY CleanBlock DEF BeingModified
<1> QED
  BY <1>1 DEF IInv, TypeOK

-----------------------------------------------------------------------------
(* Durability.                                                             *)

\* Between transactions the log is empty: the last end_op() has committed it.
FlushInv == stage = "run" /\ outstanding = 0 => lh = <<>>

\* Between commits, with no operation running, the log is empty: end_op() has
\* flushed it, and every step keeps it so.
LEMMA StepFlush == IInv /\ FlushInv /\ [Next]_vars => FlushInv'
<1> SUFFICES ASSUME IInv, FlushInv, [Next]_vars, stage' = "run", outstanding' = 0
             PROVE  lh' = <<>>
  BY DEF FlushInv
<1> USE DEF IInv, FlushInv
<1>1. CASE UNCHANGED vars
  BY <1>1 DEF vars, log
<1>2. ASSUME NEW p \in Procs, begin_op(p) PROVE lh' = <<>>
  BY <1>2, SMT DEF begin_op, TypeOK
<1>3. ASSUME NEW p \in Procs, log_write(p) PROVE lh' = <<>>
  BY <1>3, SMT DEF log_write, TypeOK
<1>4. ASSUME NEW p \in Procs, end_op(p) PROVE lh' = <<>>
  BY <1>4, SMT DEF end_op, TypeOK
<1>5. ASSUME NEW p \in Procs, end_op_done(p) PROVE lh' = <<>>
  BY <1>5 DEF end_op_done, HeadInv
<1>6. ASSUME NEW p \in Procs,
             kkill(p) \/ brelse(p) \/ (\E b \in Blocks : bread(p, b)) \/ (\E v \in Values : Modify(p, v))
      PROVE  lh' = <<>>
  BY <1>6 DEF kkill, brelse, bread, Modify, log
<1>7. ASSUME NEW b \in Blocks, Recycle(b) PROVE lh' = <<>>
  BY <1>7 DEF Recycle, log
<1>8. CASE Commit \/ Recover
  BY <1>8 DEF Commit, Recover, write_log, write_head, install_trans, read_head, Advance
<1>9. CASE clear_head \/ Crash
  BY <1>9 DEF clear_head, Crash
<1> QED
  BY <1>1, <1>2, <1>3, <1>4, <1>5, <1>6, <1>7, <1>8, <1>9 DEF Next

\* What finished operations wrote is durable whenever no operation and no
\* commit is in progress: end_op() of the last one commits before it returns.
THEOREM DurabilityHolds == Spec => []Durability
<1>1. Init => FlushInv
  BY DEF Init, FlushInv
<1>2. IInv /\ FlushInv => Durability
  <2> SUFFICES ASSUME IInv, FlushInv, outstanding = 0, ~committing PROVE Durable = Mem
    BY DEF Durability
  <2>1. CASE Recovering
    BY <2>1 DEF Mem, Recovering
  <2>2. CASE ~Recovering
    <3>1. stage = "run"
      BY <2>2 DEF Recovering, IInv, ControlInv, TypeOK
    <3>2. PendingBlocks = {} /\ dhead = <<>>
      BY <3>1, SMT DEF FlushInv, PendingBlocks, IInv, HeadInv
    <3>3. OpsActive = {}
      BY OpsFinite, FS_EmptySet, ZenonT(20) DEF IInv, ControlInv
    <3>4. \A p \in Procs : pc[p] # "mod"
      BY <3>3 DEF OpsActive, InOp
    <3> QED
      BY <3>1, <3>2, <3>4, DurableIsDisk, ContentsIsDisk DEF Mem
  <2> QED
    BY <2>1, <2>2
<1> QED
  BY <1>1, <1>2, Invariance, StepFlush, PTL DEF Spec
-----------------------------------------------------------------------------
(* No lost wakeup.                                                         *)

\* After wakeup(&log) nobody sleeps in begin_op().
LEMMA WakeAll ==
  ASSUME NEW f, NEW p \in Procs
  PROVE  WakeLog(f)[p] # "sleep"
BY DEF WakeLog

\* begin_op() goes to sleep only when somebody will wake it: with an empty log
\* and no operation there is room.
LEMMA SleeperBeginOp ==
  ASSUME IInv, FlushInv, SleeperHasWaker, NEW p \in Procs, begin_op(p)
  PROVE  SleeperHasWaker'
<1>1. CASE committing \/ NoSpace
  <2>1. committing \/ outstanding > 0
    <3> SUFFICES ASSUME ~committing, outstanding = 0, NoSpace PROVE FALSE
      BY <1>1, SMT DEF IInv, TypeOK
    <3>1. stage = "run"
      BY DEF begin_op, IInv, ControlInv, TypeOK
    <3>2. Len(lh) = 0
      BY <3>1, SMT DEF FlushInv
    <3> QED
      BY <3>2, SizeAssumption, RoomAssumption, SMT DEF NoSpace
  <2> QED
    BY <1>1, <2>1 DEF begin_op, SleeperHasWaker
<1>2. CASE ~(committing \/ NoSpace)
  <2>1. outstanding' > 0
    BY <1>2, SMT DEF begin_op, IInv, TypeOK
  <2> QED
    BY <2>1 DEF SleeperHasWaker
<1> QED
  BY <1>1, <1>2

\* An end_op() that leaves the log unused or other operations running wakes
\* every sleeper.
LEMMA SleeperEndOp ==
  ASSUME IInv, SleeperHasWaker, NEW p \in Procs, end_op(p) \/ end_op_done(p)
  PROVE  SleeperHasWaker'
<1>1. CASE end_op(p) /\ outstanding = 1
  BY <1>1 DEF end_op, SleeperHasWaker
<1>2. CASE end_op(p) /\ outstanding # 1
  BY <1>2, WakeAll DEF end_op, SleeperHasWaker
<1>3. CASE end_op_done(p)
  BY <1>3, WakeAll DEF end_op_done, SleeperHasWaker
<1> QED
  BY <1>1, <1>2, <1>3

\* Every step keeps a waker for every sleeper.
LEMMA StepSleeper == IInv /\ FlushInv /\ SleeperHasWaker /\ [Next]_vars => SleeperHasWaker'
<1> SUFFICES ASSUME IInv, FlushInv, SleeperHasWaker, [Next]_vars PROVE SleeperHasWaker'
  OBVIOUS
<1>1. CASE UNCHANGED vars
  BY <1>1 DEF vars, log, SleeperHasWaker
<1>2. ASSUME NEW p \in Procs, begin_op(p) PROVE SleeperHasWaker'
  BY <1>2, SleeperBeginOp
<1>3. ASSUME NEW p \in Procs, end_op(p) \/ end_op_done(p) PROVE SleeperHasWaker'
  BY <1>3, SleeperEndOp
<1>4. ASSUME NEW p \in Procs,
             kkill(p) \/ brelse(p) \/ (\E b \in Blocks : bread(p, b)) \/ (\E v \in Values : Modify(p, v))
      PROVE  SleeperHasWaker'
  BY <1>4 DEF kkill, brelse, bread, Modify, log, SleeperHasWaker, IInv, TypeOK
<1>5. ASSUME NEW p \in Procs, log_write(p) PROVE SleeperHasWaker'
  BY <1>5 DEF log_write, SleeperHasWaker, IInv, TypeOK
<1>6. ASSUME NEW b \in Blocks, Recycle(b) PROVE SleeperHasWaker'
  BY <1>6 DEF Recycle, log, SleeperHasWaker
<1>7. CASE Commit \/ Recover
  BY <1>7, SMT DEF Commit, Recover, write_log, write_head, install_trans, read_head, log,
              SleeperHasWaker
<1>8. CASE clear_head \/ Crash
  BY <1>8, SMT DEF clear_head, Crash, SleeperHasWaker
<1> QED
  BY <1>1, <1>2, <1>3, <1>4, <1>5, <1>6, <1>7, <1>8 DEF Next

\* No process sleeps in begin_op() unless an operation or a commit is in
\* progress, whose end_op() wakes it.
THEOREM SleepersWoken == Spec => []SleeperHasWaker
<1>1. Init => FlushInv /\ SleeperHasWaker
  BY DEF Init, FlushInv, SleeperHasWaker
<1> QED
  BY <1>1, Invariance, StepFlush, StepSleeper, PTL DEF Spec
-----------------------------------------------------------------------------
(* Atomicity: the log implements AtomicDisk.                               *)

\* The initial state of the log is an initial state of the atomic disk.
LEMMA InitAtomic == Init => Atomic!Init
<1> SUFFICES ASSUME Init PROVE Atomic!Init
  OBVIOUS
<1>1. Durable = disk
  BY InitIInv, DurableIsDisk DEF Init
<1>2. OpsActive = {} /\ Mem = Durable
  BY DEF Init, OpsActive, InOp, Mem
<1> QED
  BY <1>1, <1>2 DEF Atomic!Init, Init

\* Steps that leave the disk and the cached contents alone.
LEMMA SameView ==
  ASSUME IInv, UNCHANGED <<disk, dlog, dhead, data>>, Recovering' = Recovering
  PROVE  UNCHANGED <<Mem, Durable>>
<1>1. Durable' = Durable
  BY DurableFrame
<1>2. \A b \in Blocks : Contents(b)' = Contents(b)
  BY DEF Contents
<1> QED
  BY <1>1, <1>2 DEF Mem, Recovering

\* begin_op() is invisible to the atomic disk, or opens an operation.
LEMMA AtomicBeginOp ==
  ASSUME IInv, NEW p \in Procs, begin_op(p)
  PROVE  [Atomic!Next]_Atomic!vars
<1>1. UNCHANGED <<Mem, Durable>>
  BY SameView DEF begin_op, onDisk, cache, Recovering
<1>2. OpsActive' = OpsActive \/ (p \notin OpsActive /\ OpsActive' = OpsActive \cup {p})
  BY DEF begin_op, OpsActive, InOp, IInv, TypeOK
<1> QED
  BY <1>1, <1>2 DEF Atomic!Next, Atomic!Begin, Atomic!vars

\* end_op() is a step of the atomic disk.
LEMMA AtomicEndOp ==
  ASSUME IInv, NEW p \in Procs, end_op(p)
  PROVE  [Atomic!Next]_Atomic!vars
<1>1. stage = "run"
  BY OpRuns DEF end_op, InOp
<1>2. Recovering' = Recovering
  BY <1>1, SMT DEF end_op, Recovering
<1>3. UNCHANGED <<Mem, Durable>>
  BY <1>2, SameView DEF end_op, onDisk, cache
<1>4. p \in OpsActive /\ OpsActive' = OpsActive \ {p}
  BY DEF end_op, WakeLog, OpsActive, InOp, IInv, TypeOK
<1> QED
  BY <1>3, <1>4 DEF Atomic!Next, Atomic!End, Atomic!vars

\* Steps of an operation's bookkeeping: nothing an observer sees.
LEMMA AtomicQuiet ==
  ASSUME IInv, NEW p \in Procs, kkill(p) \/ log_write(p) \/ end_op_done(p) \/ brelse(p)
  PROVE  UNCHANGED Atomic!vars
<1>1. OpsActive' = OpsActive
  BY DEF kkill, log_write, end_op_done, brelse, WakeLog, OpsActive, InOp, IInv, TypeOK
<1>2. UNCHANGED <<disk, dlog, dhead, data>>
  BY DEF kkill, log_write, end_op_done, brelse, onDisk, cache
<1>3. Recovering' = Recovering
  BY SMT DEF kkill, log_write, end_op_done, brelse, Recovering
<1> QED
  BY <1>1, <1>2, <1>3, SameView DEF Atomic!vars

\* Reading a block changes nothing the atomic disk shows.
LEMMA AtomicBread ==
  ASSUME IInv, NEW p \in Procs, NEW b \in Blocks, bread(p, b)
  PROVE  UNCHANGED Atomic!vars
<1>1. OpsActive' = OpsActive
  BY DEF bread, OpsActive, InOp, IInv, TypeOK
<1>2. UNCHANGED <<disk, dlog, dhead, stage>> /\ data' = [data EXCEPT ![b] = Contents(b)]
  BY DEF bread, onDisk
<1>3. Durable' = Durable
  BY <1>2, DurableFrame
<1>4. \A c \in Blocks : Contents(c)' = Contents(c)
  BY <1>2 DEF Contents, IInv, TypeOK
<1> QED
  BY <1>1, <1>2, <1>3, <1>4 DEF Atomic!vars, Mem

\* Changing a buffer inside an operation is the atomic disk's write.
LEMMA AtomicModify ==
  ASSUME IInv, NEW p \in Procs, NEW v \in Values, Modify(p, v)
  PROVE  Atomic!Write(p, cur[p], v) /\ cur[p] \in Blocks
<1>1. p \in OpsActive /\ OpsActive' = OpsActive /\ cur[p] \in Blocks
  BY DEF Modify, OpsActive, InOp, IInv, TypeOK, HoldInv
<1>2. /\ UNCHANGED <<disk, dlog, dhead, stage>>
      /\ data' = [data EXCEPT ![cur[p]] = v] /\ stage = "run"
  BY OpRuns DEF Modify, onDisk, InOp
<1>3. Durable' = Durable
  BY <1>2, DurableFrame
<1>4. \A c \in Blocks : Contents(c)' = IF c = cur[p] THEN v ELSE Contents(c)
  BY <1>1, <1>2, ContentsAssumption DEF Contents, IInv, TypeOK
<1>5. Mem' = [Mem EXCEPT ![cur[p]] = v]
  BY <1>1, <1>2, <1>4, ZenonT(30) DEF Mem
<1> QED
  BY <1>1, <1>3, <1>5 DEF Atomic!Write

\* Recycling a clean buffer is invisible to the atomic disk.
LEMMA AtomicRecycle ==
  ASSUME IInv, NEW b \in Blocks, Recycle(b)
  PROVE  UNCHANGED Atomic!vars
<1>1. /\ UNCHANGED <<disk, dlog, dhead, stage, pc>> /\ holder[b] = NoProc
      /\ pins[b] = 0 /\ data' = [data EXCEPT ![b] = Uncached]
  BY DEF Recycle, onDisk
<1>2. Durable' = Durable /\ OpsActive' = OpsActive
  BY <1>1, DurableFrame DEF OpsActive
<1>3. Contents(b) = disk[b]
  BY <1>1, FreeNotModified, CleanBlock, SMT DEF IInv, CacheInv
<1>4. \A c \in Blocks : Contents(c)' = Contents(c)
  BY <1>1, <1>3 DEF Contents, IInv, TypeOK
<1> QED
  BY <1>1, <1>2, <1>4 DEF Atomic!vars, Mem

\* Copying a block to the log area is invisible to the atomic disk.
LEMMA AtomicWriteLog ==
  ASSUME IInv, write_log
  PROVE  UNCHANGED Atomic!vars
<1> DEFINE b == lh[tail]
<1>1. /\ stage = "wlog" /\ b \in Blocks /\ UNCHANGED <<disk, dhead, pc>>
      /\ data' = [data EXCEPT ![b] = Contents(b)] /\ dhead = <<>> /\ ~Recovering'
  BY SMT DEF write_log, log, Advance, IInv, HeadInv, TypeOK, Recovering
<1>2. Durable' = Durable /\ OpsActive' = OpsActive
  BY <1>1, DurableFrame, SMT DEF OpsActive, BlocksIn
<1>3. \A c \in Blocks : Contents(c)' = Contents(c)
  BY <1>1 DEF Contents, IInv, TypeOK
<1> QED
  BY <1>1, <1>2, <1>3 DEF Atomic!vars, Mem, Recovering

\* Writing the header commits all the blocks of the transaction at once.
LEMMA AtomicWriteHead ==
  ASSUME IInv, write_head
  PROVE  Atomic!Commit
<1>0. /\ stage = "whead" /\ dhead' = lh /\ stage' = "inst"
      /\ UNCHANGED <<disk, dlog, data, pc>>
  BY DEF write_head, cache
<1>1. OpsActive = {} /\ OpsActive' = OpsActive
  BY <1>0, NoOpsInCommit DEF OpsActive, IInv, ControlInv
<1>2. Mem = [b \in Blocks |-> Contents(b)] /\ Mem' = Mem
  BY <1>0 DEF Mem, Contents
<1>3. lh \in Seq(Blocks) /\ Distinct(lh)
  BY DEF IInv, TypeOK, HeadInv
<1>4. ASSUME NEW i \in 1 .. Len(lh) PROVE Mem[lh[i]] = dlog[i]
  <2>1. lh[i] \in PendingBlocks /\ lh[i] \in Blocks
    BY <1>0, <1>3, SMT DEF PendingBlocks, Pending
  <2>2. data[lh[i]] # Uncached /\ dlog[i] = data[lh[i]]
    BY <1>0, <2>1 DEF IInv, CacheInv, CopyInv
  <2> QED
    BY <1>2, <2>1, <2>2 DEF Contents
<1>5. ASSUME NEW b \in Blocks \ BlocksIn(lh) PROVE Mem[b] = disk[b]
  <2>1. b \notin PendingBlocks
    BY DEF PendingBlocks, BlocksIn
  <2>2. ~BeingModified(b)
    BY <1>1 DEF BeingModified, OpsActive, InOp
  <2> QED
    BY <1>2, <2>1, <2>2, CleanBlock
<1>6. Mem \in [Blocks -> Values \cup {Torn, Uncached}]
  <2>1. ~Recovering
    BY <1>0 DEF Recovering
  <2>2. \A b \in Blocks : Contents(b) \in Values
    BY <2>1, ContentsValue
  <2> QED
    BY <1>2, <2>2
<1>7. Restore(lh, dlog, disk) = Mem
  BY <1>3, <1>4, <1>5, <1>6, RestoreSame, SMT
<1>8. Durable' = Restore(lh, dlog, disk)
  BY <1>0 DEF Durable
<1> QED
  BY <1>1, <1>2, <1>7, <1>8 DEF Atomic!Commit

\* Installing a committed block is invisible to the atomic disk.
LEMMA AtomicInstall ==
  ASSUME IInv, NEW recovering \in BOOLEAN, install_trans(recovering)
  PROVE  UNCHANGED Atomic!vars
<1> DEFINE b == lh[tail]
<1>s. stage \in {"inst", "rinst"}
  BY DEF install_trans
<1>0. /\ tail \in 1 .. Len(lh) /\ b \in Blocks /\ b \in BlocksIn(dhead)
      /\ data' = [data EXCEPT ![b] = dlog[tail]]
      /\ disk' = [disk EXCEPT ![b] = dlog[tail]]
      /\ UNCHANGED <<dlog, dhead, pc>>
  BY <1>s, SMT DEF install_trans, IInv, HeadInv, TypeOK, BlocksIn
<1>1. stage' \in (IF stage = "inst" THEN {"inst", "clear"} ELSE {"rinst", "rclear"})
  BY <1>s DEF install_trans, Advance
<1>2. \A c \in Blocks \ BlocksIn(dhead) : disk'[c] = disk[c]
  BY <1>0 DEF IInv, TypeOK
<1>3. Durable' = Durable
  BY <1>0, <1>2, DurableFrame
<1>4. OpsActive' = OpsActive
  BY <1>0 DEF OpsActive
<1>5. CASE stage = "rinst"
  BY <1>1, <1>3, <1>4, <1>5 DEF Atomic!vars, Mem
<1>6. CASE stage = "inst"
  <2>1. tail \in tail .. Len(lh) /\ tail \in Nat
    BY <1>0, SMT DEF IInv, TypeOK
  <2>2. dlog[tail] = data[b]
    BY <1>6, <2>1 DEF IInv, CopyInv
  <2>3. dlog[tail] # Uncached
    <3>1. dhead = lh
      BY <1>6 DEF IInv, HeadInv
    <3>2. dlog[tail] \in Values
      BY <1>0, <3>1 DEF IInv, TornInv
    <3> QED
      BY <3>2, ContentsAssumption
  <2>4. \A c \in Blocks : Contents(c)' = Contents(c)
    BY <1>0, <2>2, <2>3 DEF Contents, IInv, TypeOK
  <2> QED
    BY <1>1, <1>3, <1>4, <1>6, <2>4 DEF Atomic!vars, Mem
<1> QED
  BY <1>s, <1>5, <1>6

\* Erasing the header after the installation is invisible.
LEMMA AtomicClearHead ==
  ASSUME IInv, clear_head
  PROVE  UNCHANGED Atomic!vars
<1>0. /\ stage \in {"clear", "rclear"} /\ dhead' = <<>> /\ dhead = lh
      /\ UNCHANGED <<disk, dlog, data, pc>> /\ ~Recovering'
  BY DEF clear_head, cache, IInv, HeadInv, Recovering
<1>1. dhead \in Seq(Blocks) /\ Distinct(dhead) /\ disk \in [Blocks -> Values \cup {Torn, Uncached}]
  BY DEF IInv, TypeOK, HeadInv
<1>2. \A i \in 1 .. Len(dhead) : disk[dhead[i]] = dlog[i]
  BY <1>0 DEF IInv, CopyInv
<1>3. Durable = disk
  BY <1>1, <1>2, RestoreSame, SMT DEF Durable
<1>4. Durable' = disk
  <2>1. Durable' = [b \in Blocks |-> disk[b]]
    BY <1>0, SMT DEF Durable, Restore, BlocksIn
  <2> QED
    BY <1>1, <2>1
<1>5. OpsActive' = OpsActive
  BY <1>0 DEF OpsActive
<1>6. Mem' = [b \in Blocks |-> Contents(b)]
  BY <1>0 DEF Mem, Recovering, Contents
<1>7. CASE stage = "clear"
  BY <1>3, <1>4, <1>5, <1>6, <1>7 DEF Mem, Atomic!vars
<1>8. CASE stage = "rclear"
  <2>1. PendingBlocks = {}
    BY <1>8 DEF PendingBlocks, Pending
  <2>2. \A p \in Procs : pc[p] # "mod"
    BY <1>8 DEF IInv, ControlInv, Recovering
  <2>3. Mem' = disk
    BY <1>6, <2>1, <2>2, ContentsIsDisk
  <2> QED
    BY <1>3, <1>4, <1>5, <1>8, <2>3 DEF Mem, Atomic!vars
<1> QED
  BY <1>0, <1>7, <1>8

\* Reading the header at boot is invisible.
LEMMA AtomicReadHead ==
  ASSUME IInv, read_head
  PROVE  UNCHANGED Atomic!vars
<1>1. UNCHANGED <<disk, dlog, dhead, data, pc>> /\ Recovering' = Recovering
  BY SMT DEF read_head, onDisk, cache, Recovering
<1> QED
  BY <1>1, SameView DEF Atomic!vars, OpsActive

\* A crash takes the atomic disk back to its last committed state.
LEMMA AtomicCrash ==
  ASSUME IInv, Crash
  PROVE  Atomic!Crash
<1>1. dhead' = dhead /\ stage' = "boot" /\ pc' = [p \in Procs |-> "idle"]
  BY DEF Crash
<1>2. \A i \in 1 .. Len(dhead) : dlog'[i] = dlog[i]
  <2>1. CASE stage = "wlog"
    BY <2>1, SMT DEF IInv, HeadInv
  <2>2. CASE stage # "wlog"
    BY <2>2 DEF Crash
  <2> QED
    BY <2>1, <2>2
<1>3. ASSUME NEW c \in Blocks \ BlocksIn(dhead) PROVE disk'[c] = disk[c]
  <2>1. CASE stage \in {"inst", "rinst"}
    <3>1. lh[tail] \in BlocksIn(dhead)
      BY <2>1 DEF IInv, HeadInv, BlocksIn
    <3> QED
      BY <3>1 DEF Crash, IInv, TypeOK
  <2>2. CASE stage \notin {"inst", "rinst"}
    BY <2>2 DEF Crash
  <2> QED
    BY <2>1, <2>2
<1>4. Durable' = Durable
  BY <1>1, <1>2, <1>3, DurableFrame
<1>5. OpsActive' = {} /\ Mem' = Durable'
  BY <1>1 DEF OpsActive, InOp, Mem
<1> QED
  BY <1>4, <1>5 DEF Atomic!Crash

\* Every step of the log is a step of the atomic disk or a stutter.
LEMMA StepAtomic == IInv /\ [Next]_vars => [Atomic!Next]_Atomic!vars
<1> SUFFICES ASSUME IInv, [Next]_vars PROVE [Atomic!Next]_Atomic!vars
  OBVIOUS
<1>1. CASE UNCHANGED vars
  <2>1. UNCHANGED <<disk, dlog, dhead, data, pc, stage>>
    BY <1>1 DEF vars, onDisk, cache
  <2> QED
    BY <2>1, SameView DEF Atomic!vars, OpsActive, Recovering
<1>2. ASSUME NEW p \in Procs, NEW v \in Values, Modify(p, v)
      PROVE  Atomic!Next
  BY <1>2, AtomicModify DEF Atomic!Next
<1>3. CASE write_head \/ Crash
  BY <1>3, AtomicWriteHead, AtomicCrash DEF Atomic!Next
<1> QED
  BY <1>1, <1>2, <1>3, AtomicBeginOp, AtomicEndOp, AtomicQuiet, AtomicBread, AtomicRecycle, ZenonT(20),
     AtomicWriteLog, AtomicInstall, AtomicClearHead, AtomicReadHead DEF Next, Commit, Recover

\* Whatever the interleaving of operations and readers and wherever a crash
\* falls, in a commit or in recovery too, recovery restores a state at which
\* no operation was in progress (begin_op, end_op, commit, recover_from_log).
THEOREM AtomicityHolds == Spec => ImplementsAtomicDisk
BY InitAtomic, StepAtomic, Invariance, PTL DEF Spec, ImplementsAtomicDisk, Atomic!Spec
-----------------------------------------------------------------------------
(* Log space: the reservations of begin_op() are enough.                   *)

\* One token for each block a running operation may still append.
Tokens == {t \in OpsActive \X (1 .. MAXOPBLOCKS) : t[2] > Cardinality(touched[t[1]])}

\* The blocks logged and the tokens left never exceed the log.
SpaceInv ==
  /\ Len(lh) + Cardinality(Tokens) <= LOGBLOCKS
  /\ \A p \in Procs :
       /\ IsFiniteSet(touched[p]) /\ Cardinality(touched[p]) <= OpBlocks
       /\ touched[p] \subseteq BlocksIn(lh)
       /\ pc[p] \notin InOp => touched[p] = {}
       /\ pc[p] = "mod" => cur[p] \in touched[p] \/ Cardinality(touched[p]) < OpBlocks

\* The blocks promised to running operations form a finite set.
LEMMA TokensFinite == IsFiniteSet(Tokens) /\ Cardinality(Tokens) \in Nat
<1>1. IsFiniteSet(OpsActive) /\ IsFiniteSet(1 .. MAXOPBLOCKS)
  BY OpsFinite, FS_Interval, SizeAssumption, SMT
<1>2. IsFiniteSet(OpsActive \X (1 .. MAXOPBLOCKS))
  BY <1>1, FS_Product, ZenonT(20)
<1> QED
  BY <1>2, FS_Subset, FS_CardinalityType DEF Tokens

\* Steps that log nothing and neither start nor end an operation.
LEMMA SpaceFrame ==
  ASSUME SpaceInv, UNCHANGED <<lh, touched>>, OpsActive' = OpsActive,
         \A p \in Procs : pc'[p] \in InOp => pc[p] \in InOp,
         \A p \in Procs : pc[p] \in InOp => pc'[p] \in InOp,
         \A p \in Procs : pc'[p] = "mod" =>
           cur'[p] \in touched[p] \/ Cardinality(touched[p]) < OpBlocks
  PROVE  SpaceInv'
<1>1. Tokens' = Tokens
  BY DEF Tokens
<1> QED
  BY <1>1 DEF SpaceInv, BlocksIn

\* begin_op()'s reservation preserves the accounting of log blocks.
LEMMA SpaceBeginOp ==
  ASSUME IInv, SpaceInv, NEW p \in Procs, begin_op(p)
  PROVE  SpaceInv'
<1>0. UNCHANGED <<lh, touched, cur>> /\ pc[p] \in {"idle", "begin"}
  BY DEF begin_op
<1>1. CASE pc' = [pc EXCEPT ![p] = "sleep"]
  <2>1. OpsActive' = OpsActive
    BY <1>0, <1>1 DEF OpsActive, InOp, IInv, TypeOK
  <2> QED
    BY <1>0, <1>1, <2>1, SpaceFrame DEF IInv, TypeOK, InOp, SpaceInv
<1>2. CASE pc' = [pc EXCEPT ![p] = "op"] /\ ~NoSpace
  <2>1. OpsActive' = OpsActive \cup {p} /\ p \notin OpsActive
    BY <1>0, <1>2 DEF OpsActive, InOp, IInv, TypeOK
  <2>2. IsFiniteSet(OpsActive') /\ Cardinality(OpsActive') = outstanding + 1
    BY <2>1, OpsFinite, FS_AddElement DEF IInv, ControlInv
  <2> DEFINE S == OpsActive' \X (1 .. MAXOPBLOCKS)
  <2>3. IsFiniteSet(1 .. MAXOPBLOCKS) /\ Cardinality(1 .. MAXOPBLOCKS) = MAXOPBLOCKS
    BY FS_Interval, SizeAssumption, SMT
  <2>4. IsFiniteSet(S) /\ Cardinality(S) = (outstanding + 1) * MAXOPBLOCKS
    BY <2>2, <2>3, FS_Product, ZenonT(30)
  <2>5. Tokens' \in SUBSET S
    BY <1>0 DEF Tokens
  <2>6. IsFiniteSet(Tokens') /\ Cardinality(Tokens') <= Cardinality(S)
    BY <2>4, <2>5, FS_Subset
  <2>7. Len(lh) + Cardinality(S) <= LOGBLOCKS
    BY <1>2, <2>4, SizeAssumption, SMT DEF NoSpace, IInv, TypeOK
  <2>8. Cardinality(Tokens') \in Nat /\ Cardinality(S) \in Nat /\ Len(lh) \in Nat
    BY <2>4, <2>6, FS_CardinalityType, SMT DEF IInv, TypeOK
  <2> HIDE DEF S
  <2>9. Len(lh) + Cardinality(Tokens') <= LOGBLOCKS
    BY <2>6, <2>7, <2>8, SizeAssumption, SMT
  <2> QED
    <3>1. \A q \in Procs : (pc'[q] \notin InOp => pc[q] \notin InOp) /\ (pc'[q] = "mod" => pc[q] = "mod")
      BY <1>0, <1>2 DEF InOp, IInv, TypeOK
    <3> QED
      BY <1>0, <2>9, <3>1 DEF SpaceInv
<1> QED
  BY <1>1, <1>2 DEF begin_op

\* log_write() pays for an appended block from its operation's reservation.
LEMMA SpaceLogWrite ==
  ASSUME IInv, SpaceInv, OpBlocks < MAXOPBLOCKS, NEW p \in Procs, log_write(p)
  PROVE  SpaceInv'
<1> DEFINE b == cur[p]
           n == Cardinality(touched[p])
<1>0. /\ pc[p] = "mod" /\ pc' = [pc EXCEPT ![p] = "hold"] /\ UNCHANGED cur
      /\ touched' = [touched EXCEPT ![p] = @ \cup {b}]
      /\ \/ b \in BlocksIn(lh) /\ lh' = lh
         \/ b \notin BlocksIn(lh) /\ lh' = Append(lh, b)
  BY DEF log_write
<1>1. OpsActive' = OpsActive /\ p \in OpsActive
  BY <1>0 DEF OpsActive, InOp, IInv, TypeOK
<1>2. /\ touched'[p] = touched[p] \cup {b}
      /\ \A q \in Procs : q # p => touched'[q] = touched[q]
  BY <1>0 DEF IInv, TypeOK
<1>3. /\ IsFiniteSet(touched[p]) /\ n \in Nat /\ n <= OpBlocks
      /\ b \notin touched[p] => n < OpBlocks
  BY <1>0, FS_CardinalityType DEF SpaceInv
<1>4. /\ IsFiniteSet(touched'[p])
      /\ Cardinality(touched'[p]) = IF b \in touched[p] THEN n ELSE n + 1
  <2>1. /\ IsFiniteSet(touched[p] \cup {b})
        /\ Cardinality(touched[p] \cup {b}) = IF b \in touched[p] THEN n ELSE n + 1
    BY <1>3, FS_AddElement
  <2> QED
    BY <1>2, <2>1
<1>5. Cardinality(touched'[p]) <= OpBlocks
  BY <1>3, <1>4, SizeAssumption, SMT
<1>6. lh \in Seq(Blocks) /\ b \in Blocks /\ Len(lh) \in Nat
  BY <1>0, SMT DEF IInv, TypeOK, HoldInv
<1>7. BlocksIn(lh') = BlocksIn(lh) \cup {b}
  <2>1. CASE b \in BlocksIn(lh) /\ lh' = lh
    BY <2>1
  <2>2. CASE lh' = Append(lh, b)
    BY <1>6, <2>2, SMT DEF BlocksIn
  <2> QED
    BY <1>0, <2>1, <2>2
<1>8. Len(lh') + Cardinality(Tokens') <= LOGBLOCKS
  <2>1. Tokens' = {t \in OpsActive \X (1 .. MAXOPBLOCKS) : t[2] > Cardinality(touched'[t[1]])}
    BY <1>1 DEF Tokens
  <2>2. CASE b \in BlocksIn(lh) /\ lh' = lh
    <3>1. \A q \in OpsActive, k \in 1 .. MAXOPBLOCKS :
            k > Cardinality(touched'[q]) => k > Cardinality(touched[q])
      BY <1>2, <1>3, <1>4, SMTT(30) DEF OpsActive
    <3>2. Tokens' \in SUBSET Tokens
      BY <2>1, <3>1 DEF Tokens
    <3>3. Cardinality(Tokens') <= Cardinality(Tokens) /\ Cardinality(Tokens') \in Nat
      BY <3>2, TokensFinite, FS_Subset, FS_CardinalityType
    <3> QED
      BY <1>6, <2>2, <3>3, TokensFinite, SizeAssumption, SMT DEF SpaceInv
  <2>3. CASE b \notin BlocksIn(lh) /\ lh' = Append(lh, b)
    <3> DEFINE t0 == <<p, n + 1>>
    <3>1. b \notin touched[p]
      BY <2>3 DEF SpaceInv
    <3>2. n + 1 \in 1 .. MAXOPBLOCKS /\ n + 1 > n
      BY <1>3, <3>1, SizeAssumption, SMT
    <3>3. t0 \in Tokens
      BY <1>1, <3>2 DEF Tokens
    <3>4. \A q \in OpsActive, k \in 1 .. MAXOPBLOCKS :
            k > Cardinality(touched'[q]) <=> k > Cardinality(touched[q]) /\ <<q, k>> # t0
      BY <1>2, <1>3, <1>4, <3>1, SMT DEF OpsActive
    <3>5. Tokens' = Tokens \ {t0}
      BY <2>1, <3>4, SMT DEF Tokens
    <3>6. Cardinality(Tokens') = Cardinality(Tokens) - 1
      BY <3>3, <3>5, TokensFinite, FS_RemoveElement
    <3>7. Len(lh') = Len(lh) + 1
      BY <1>6, <2>3, SMT
    <3> QED
      BY <1>6, <3>6, <3>7, TokensFinite, SizeAssumption, SMT DEF SpaceInv
  <2> QED
    BY <1>0, <2>2, <2>3
<1> HIDE DEF b, n
<1>9. pc'[p] = "hold" /\ pc'[p] \in InOp /\ \A q \in Procs : q # p => pc'[q] = pc[q]
  BY <1>0 DEF IInv, TypeOK, InOp
<1>10. \A q \in Procs :
         /\ IsFiniteSet(touched'[q]) /\ Cardinality(touched'[q]) <= OpBlocks
         /\ touched'[q] \subseteq BlocksIn(lh')
         /\ pc'[q] \notin InOp => touched'[q] = {}
         /\ pc'[q] = "mod" => cur'[q] \in touched'[q] \/ Cardinality(touched'[q]) < OpBlocks
  BY <1>0, <1>2, <1>4, <1>5, <1>7, <1>9, ZenonT(20) DEF SpaceInv
<1> QED
  BY <1>8, <1>10 DEF SpaceInv, BlocksIn

\* end_op() gives the rest of the reservation back.
LEMMA SpaceEndOp ==
  ASSUME IInv, SpaceInv, NEW p \in Procs, end_op(p)
  PROVE  SpaceInv'
<1>0. pc[p] = "op" /\ UNCHANGED <<lh, cur>> /\ touched' = [touched EXCEPT ![p] = {}]
  BY DEF end_op
<1>1. \A q \in Procs : q # p => (pc'[q] = pc[q] \/ (pc[q] = "sleep" /\ pc'[q] = "begin"))
  BY DEF end_op, WakeLog, IInv, TypeOK
<1>2. pc'[p] \in {"commit", "idle"}
  BY DEF end_op, WakeLog, IInv, TypeOK
<1>3. OpsActive' = OpsActive \ {p}
  BY <1>1, <1>2 DEF OpsActive, InOp
<1>4. touched'[p] = {} /\ \A q \in Procs : q # p => touched'[q] = touched[q]
  BY <1>0 DEF IInv, TypeOK
<1>5. Tokens' \in SUBSET Tokens
  BY <1>3, <1>4 DEF Tokens, OpsActive
<1>6. Cardinality(Tokens') <= Cardinality(Tokens) /\ Cardinality(Tokens') \in Nat
  BY <1>5, TokensFinite, FS_Subset, FS_CardinalityType
<1>7. Len(lh') + Cardinality(Tokens') <= LOGBLOCKS
  BY <1>0, <1>6, TokensFinite, SizeAssumption, SMT DEF SpaceInv, IInv, TypeOK
<1>8. IsFiniteSet({}) /\ Cardinality({}) <= OpBlocks
  BY FS_EmptySet, SizeAssumption, SMT
<1>9. \A q \in Procs :
        /\ IsFiniteSet(touched'[q]) /\ Cardinality(touched'[q]) <= OpBlocks
        /\ touched'[q] \subseteq BlocksIn(lh)
        /\ pc'[q] \notin InOp => touched'[q] = {}
        /\ pc'[q] = "mod" => cur[q] \in touched'[q] \/ Cardinality(touched'[q]) < OpBlocks
  BY <1>1, <1>2, <1>4, <1>8, ZenonT(20) DEF SpaceInv, InOp
<1> QED
  BY <1>0, <1>7, <1>9, SMT DEF SpaceInv, BlocksIn

\* Steps after which no operation is in progress and lh fits the log.
LEMMA SpaceNoOps ==
  ASSUME OpsActive' = {}, \A p \in Procs : touched'[p] = {} /\ pc'[p] \notin InOp,
         Len(lh') \in Nat, Len(lh') <= LOGBLOCKS
  PROVE  SpaceInv'
<1>1. Tokens' = {}
  BY DEF Tokens
<1>2. IsFiniteSet({}) /\ Cardinality({}) = 0
  BY FS_EmptySet
<1>3. Cardinality(Tokens') = 0 /\ 0 <= OpBlocks /\ Len(lh') + 0 <= LOGBLOCKS
  BY <1>1, <1>2, SizeAssumption, SMT
<1> QED
  BY <1>2, <1>3, ZenonT(20) DEF SpaceInv, InOp

\* Every step preserves the accounting of log blocks.
LEMMA StepSpace ==
  ASSUME OpBlocks < MAXOPBLOCKS, IInv, SpaceInv, [Next]_vars
  PROVE  SpaceInv'
<1>1. CASE UNCHANGED vars
  BY <1>1, SpaceFrame DEF vars, log, OpsActive, SpaceInv
<1>2. ASSUME NEW p \in Procs, kkill(p) \/ brelse(p) \/ end_op_done(p) \/ \E b \in Blocks : bread(p, b)
      PROVE  SpaceInv'
  <2>1. UNCHANGED <<lh, touched>>
    BY <1>2 DEF kkill, brelse, bread, end_op_done, log
  <2>2. OpsActive' = OpsActive
    BY <1>2 DEF kkill, brelse, bread, end_op_done, WakeLog, OpsActive, InOp, IInv, TypeOK
  <2>3. \A q \in Procs : (pc'[q] \in InOp => pc[q] \in InOp) /\ (pc[q] \in InOp => pc'[q] \in InOp)
    BY <2>2 DEF OpsActive
  <2>4. \A q \in Procs : pc'[q] = "mod" => pc[q] = "mod" /\ cur'[q] = cur[q]
    BY <1>2, SMT DEF kkill, brelse, bread, end_op_done, WakeLog, IInv, TypeOK
  <2> QED
    BY <2>1, <2>2, <2>3, <2>4, SpaceFrame DEF SpaceInv
<1>3. ASSUME NEW p \in Procs, NEW v \in Values, Modify(p, v)
      PROVE  SpaceInv'
  <2>1. UNCHANGED <<lh, touched, cur>> /\ pc[p] = "hold" /\ pc' = [pc EXCEPT ![p] = "mod"]
    BY <1>3 DEF Modify, log
  <2>2. OpsActive' = OpsActive
    BY <2>1 DEF OpsActive, InOp, IInv, TypeOK
  <2>3. \A q \in Procs : (pc'[q] \in InOp => pc[q] \in InOp) /\ (pc[q] \in InOp => pc'[q] \in InOp)
    BY <2>2 DEF OpsActive
  <2>4. \A q \in Procs : pc'[q] = "mod" =>
          cur[q] \in touched[q] \/ Cardinality(touched[q]) < OpBlocks
    BY <1>3, <2>1, SMTT(30) DEF Modify, SpaceInv, IInv, TypeOK
  <2> QED
    BY <2>1, <2>2, <2>3, <2>4, SpaceFrame
<1>4. CASE (\E b \in Blocks : Recycle(b)) \/ Commit \/ install_trans(TRUE)
  <2>1. UNCHANGED <<lh, touched, cur, pc>>
    BY <1>4 DEF Recycle, Commit, write_log, write_head, install_trans, log
  <2> QED
    BY <2>1, SpaceFrame DEF OpsActive, SpaceInv
<1>5. CASE clear_head \/ read_head
  <2>1. committing \/ Recovering
    BY <1>5 DEF clear_head, read_head, Recovering, IInv, ControlInv
  <2>2. \A p \in Procs : pc[p] \notin InOp
    BY <2>1, NoOpsInCommit DEF IInv
  <2>3. UNCHANGED <<pc, touched>> /\ Len(lh') \in Nat /\ Len(lh') <= LOGBLOCKS
    BY <1>5, SizeAssumption, SMT DEF clear_head, read_head, IInv, TypeOK
  <2> QED
    BY <2>2, <2>3, SpaceNoOps DEF OpsActive, SpaceInv
<1>6. CASE Crash
  <2>1. lh' = <<>> /\ pc' = [p \in Procs |-> "idle"] /\ touched' = [p \in Procs |-> {}]
    BY <1>6 DEF Crash
  <2>2. OpsActive' = {}
    BY <2>1 DEF OpsActive, InOp
  <2>3. Len(lh') \in Nat /\ Len(lh') <= LOGBLOCKS
    BY <2>1, SizeAssumption, SMT
  <2> QED
    BY <2>1, <2>2, <2>3, SpaceNoOps DEF InOp
<1> QED
  BY <1>1, <1>2, <1>3, <1>4, <1>5, <1>6, SpaceBeginOp, SpaceLogWrite, SpaceEndOp, ZenonT(20)
     DEF Next, Commit, Recover

\* With the accounting in force log_write() finds room in the log.
LEMMA SpaceNoPanic ==
  ASSUME OpBlocks < MAXOPBLOCKS, IInv, SpaceInv
  PROVE  NoPanic
<1>1. ASSUME NEW p \in Procs, pc[p] \in InOp
      PROVE  ~committing /\ outstanding >= 1 /\ Len(lh) < LOGBLOCKS
  <2> DEFINE n == Cardinality(touched[p])
  <2>1. ~committing /\ outstanding >= 1
    BY <1>1, OpRuns
  <2>2. n \in Nat /\ n < MAXOPBLOCKS
    <3>1. IsFiniteSet(touched[p]) /\ n <= OpBlocks
      BY DEF SpaceInv
    <3>2. n \in Nat
      BY <3>1, FS_CardinalityType
    <3> HIDE DEF n
    <3> QED
      BY <3>1, <3>2, SizeAssumption, SMT
  <2>3. <<p, n + 1>> \in Tokens
    BY <1>1, <2>2, SizeAssumption, SMT DEF Tokens, OpsActive
  <2>4. Cardinality(Tokens) # 0
    BY <2>3, TokensFinite, FS_EmptySet
  <2> QED
    BY <2>1, <2>4, TokensFinite, SizeAssumption, SMT DEF SpaceInv, IInv, TypeOK
<1> QED
  BY <1>1 DEF NoPanic, InOp

\* An operation that writes fewer distinct blocks than begin_op() reserved
\* never makes log_write() or end_op() panic, however many run at once.
THEOREM NoPanicHolds ==
  ASSUME OpBlocks < MAXOPBLOCKS
  PROVE  Spec => []NoPanic
<1>1. Init => SpaceInv
  <2> SUFFICES ASSUME Init PROVE SpaceInv
    OBVIOUS
  <2>1. OpsActive = {} /\ \A p \in Procs : touched[p] = {} /\ pc[p] \notin InOp
    BY DEF Init, OpsActive, InOp
  <2>2. Tokens = {}
    BY <2>1 DEF Tokens
  <2>3. IsFiniteSet({}) /\ Cardinality({}) = 0
    BY FS_EmptySet
  <2>4. Cardinality(Tokens) = 0 /\ 0 <= OpBlocks /\ Len(lh) + 0 <= LOGBLOCKS
    BY <2>2, <2>3, SizeAssumption, SMT DEF Init
  <2> QED
    BY <2>1, <2>3, <2>4 DEF SpaceInv, InOp
<1>2. IInv /\ SpaceInv /\ [Next]_vars => SpaceInv'
  BY StepSpace
<1>3. IInv /\ SpaceInv => NoPanic
  BY SpaceNoPanic
<1> QED
  BY <1>1, <1>2, <1>3, Invariance, PTL DEF Spec
=============================================================================
