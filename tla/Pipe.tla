-------------------------------- MODULE Pipe --------------------------------
(***************************************************************************)
(* One pipe of kernel/pipe.c between processes that share its two ends:    *)
(* read(), write(), close() with the reference counts of kernel/file.c,    *)
(* and kill().                                                             *)
(*                                                                         *)
(* pi->lock is held from acquire() to sleep() or to the end of the call;   *)
(* under it each byte is a step, because kill() needs no pi->lock.  sleep()*)
(* releases the lock and sleeps in one step: module Proc shows why nothing *)
(* comes in between.  nread and nwrite are uints and wrap.                 *)
(***************************************************************************)
EXTENDS Integers, Sequences, FiniteSets

CONSTANTS Readers, Writers,   \* the processes at the two ends
          Killable,           \* those that are killed
          PIPESIZE,
          UintMod,            \* 2^32
          Bytes,
          MaxN,               \* bytes per call
          None

PipeAssumption ==
  /\ PIPESIZE \in Nat \ {0} /\ UintMod \in Nat /\ MaxN \in Nat
  /\ UintMod % PIPESIZE = 0 /\ UintMod > PIPESIZE
  /\ Readers \cap Writers = {} /\ Killable \subseteq Readers \cup Writers

Procs == Readers \cup Writers

VARIABLES data, nread, nwrite, readopen, writeopen,   \* struct pipe
          freed,      \* its page was given to kfree()
          lock,       \* the process that holds pi->lock
          ref,        \* ref[e]: the references to the file of end e
          fd,         \* the processes that still have their descriptor
          asleep,     \* the processes in sleep()
          killed,
          pc, i, n,   \* where each process is, and its i and n
          unread      \* history: the bytes written and not yet read

pipe == <<data, nread, nwrite, readopen, writeopen, freed, unread>>
file == <<ref, fd>>
vars == <<pipe, lock, file, asleep, killed, pc, i, n>>

\* pipealloc(), and fork() has shared the ends.
Init ==
  /\ data \in [0 .. PIPESIZE - 1 -> {None}]
  /\ nread = 0 /\ nwrite = 0 /\ readopen = TRUE /\ writeopen = TRUE
  /\ freed = FALSE /\ lock = None /\ unread = <<>>
  /\ ref = [r |-> Cardinality(Readers), w |-> Cardinality(Writers)]
  /\ fd = Procs /\ asleep = {} /\ killed = {}
  /\ pc = [p \in Procs |-> "user"]
  /\ i = [p \in Procs |-> 0] /\ n = [p \in Procs |-> 0]

Goto(p, l) == pc' = [pc EXCEPT ![p] = l]
At(p, l) == pc[p] = l /\ p \notin asleep
Full == nwrite = (nread + PIPESIZE) % UintMod
Empty == nread = nwrite

\* Leave the call: the lock is released.
Return(p) ==
  /\ Goto(p, "user") /\ lock' = None
  /\ i' = [i EXCEPT ![p] = 0] /\ n' = [n EXCEPT ![p] = 0]

-----------------------------------------------------------------------------
\* read(fd, addr, m) or write(fd, addr, m).
Call(p, m) ==
  /\ pc[p] = "user" /\ p \in fd
  /\ Goto(p, "acquire")
  /\ n' = [n EXCEPT ![p] = m]
  /\ UNCHANGED <<pipe, lock, file, asleep, killed, i>>

\* acquire(&pi->lock), at the start or at the end of sleep().
Acquire(p) ==
  /\ At(p, "acquire") /\ lock = None
  /\ lock' = p
  /\ Goto(p, IF p \in Writers THEN "write" ELSE "wait")
  /\ UNCHANGED <<pipe, file, asleep, killed, i, n>>

\* sleep() on &pi->nwrite or &pi->nread.
Sleep(p) ==
  /\ pc[p] = "sleep"
  /\ asleep' = asleep \cup {p} /\ lock' = None
  /\ Goto(p, "acquire")
  /\ UNCHANGED <<pipe, file, killed, i, n>>

-----------------------------------------------------------------------------
(* pipewrite().                                                            *)

pipewrite_gives_up(p) ==
  /\ pc[p] = "write" /\ i[p] < n[p]
  /\ ~readopen \/ p \in killed
  /\ Return(p)
  /\ UNCHANGED <<pipe, file, asleep, killed>>

pipewrite_full(p) ==
  /\ pc[p] = "write" /\ i[p] < n[p] /\ readopen /\ p \notin killed
  /\ Full
  /\ asleep' = asleep \ Readers
  /\ Goto(p, "sleep")
  /\ UNCHANGED <<pipe, lock, file, killed, i, n>>

\* Mutant: the test for a full pipe does not wrap.
pipewrite_byte_compares_signed(p, b) ==
  /\ pc[p] = "write" /\ i[p] < n[p] /\ readopen /\ p \notin killed
  /\ nwrite < nread + PIPESIZE
  /\ data' = [data EXCEPT ![nwrite % PIPESIZE] = b]
  /\ nwrite' = (nwrite + 1) % UintMod
  /\ unread' = Append(unread, b)
  /\ i' = [i EXCEPT ![p] = @ + 1]
  /\ UNCHANGED <<nread, readopen, writeopen, freed, lock, file, asleep, killed, pc, n>>

pipewrite_byte(p, b) ==
  /\ pc[p] = "write" /\ i[p] < n[p] /\ readopen /\ p \notin killed
  /\ ~Full
  /\ data' = [data EXCEPT ![nwrite % PIPESIZE] = b]
  /\ nwrite' = (nwrite + 1) % UintMod
  /\ unread' = Append(unread, b)
  /\ i' = [i EXCEPT ![p] = @ + 1]
  /\ UNCHANGED <<nread, readopen, writeopen, freed, lock, file, asleep, killed, pc, n>>

\* All n bytes are written, or copyin() failed for the next one.
pipewrite_done(p) ==
  /\ pc[p] = "write"
  /\ i[p] = n[p] \/ (readopen /\ p \notin killed /\ ~Full)
  /\ asleep' = asleep \ Readers
  /\ Return(p)
  /\ UNCHANGED <<pipe, file, killed>>

-----------------------------------------------------------------------------
(* piperead().                                                             *)

piperead_killed(p) ==
  /\ pc[p] = "wait" /\ Empty /\ writeopen /\ p \in killed
  /\ Return(p)
  /\ UNCHANGED <<pipe, file, asleep, killed>>

piperead_wait(p) ==
  /\ pc[p] = "wait" /\ Empty /\ writeopen /\ p \notin killed
  /\ Goto(p, "sleep")
  /\ UNCHANGED <<pipe, lock, file, asleep, killed, i, n>>

piperead_ready(p) ==
  /\ pc[p] = "wait" /\ ~(Empty /\ writeopen)
  /\ Goto(p, "read")
  /\ UNCHANGED <<pipe, lock, file, asleep, killed, i, n>>

piperead_byte(p) ==
  /\ pc[p] = "read" /\ i[p] < n[p] /\ ~Empty
  /\ nread' = (nread + 1) % UintMod
  /\ unread' = Tail(unread)
  /\ i' = [i EXCEPT ![p] = @ + 1]
  /\ UNCHANGED <<data, nwrite, readopen, writeopen, freed, lock, file, asleep, killed, pc, n>>

\* n bytes are read, no more are there, or copyout() failed for the next one.
piperead_done(p) ==
  /\ pc[p] = "read"
  /\ asleep' = asleep \ Writers
  /\ Return(p)
  /\ UNCHANGED <<pipe, file, killed>>

-----------------------------------------------------------------------------
(* close(), or exit(), and kill().                                         *)

End(p) == IF p \in Readers THEN "r" ELSE "w"

\* Only the last reference goes on to pipeclose().
fileclose(p) ==
  /\ pc[p] = "user" /\ p \in fd
  /\ fd' = fd \ {p}
  /\ ref' = [ref EXCEPT ![End(p)] = @ - 1]
  /\ IF ref[End(p)] = 1 THEN Goto(p, "close") ELSE UNCHANGED pc
  /\ UNCHANGED <<pipe, lock, asleep, killed, i, n>>

\* Mutant: close() of the write end wakes nobody.
pipeclose_no_wakeup(p) ==
  /\ pc[p] = "close" /\ lock = None
  /\ readopen' = (readopen /\ p \notin Readers)
  /\ writeopen' = (writeopen /\ p \notin Writers)
  /\ freed' = (~readopen' /\ ~writeopen')
  /\ Goto(p, "user")
  /\ UNCHANGED <<data, nread, nwrite, unread, lock, file, asleep, killed, i, n>>

pipeclose(p) ==
  /\ pc[p] = "close" /\ lock = None
  /\ readopen' = (readopen /\ p \notin Readers)
  /\ writeopen' = (writeopen /\ p \notin Writers)
  /\ asleep' = asleep \ (IF p \in Writers THEN Readers ELSE Writers)
  /\ freed' = (~readopen' /\ ~writeopen')
  /\ Goto(p, "user")
  /\ UNCHANGED <<data, nread, nwrite, unread, lock, file, killed, i, n>>

kkill(p) ==
  /\ p \in Killable \ killed
  /\ killed' = killed \cup {p} /\ asleep' = asleep \ {p}
  /\ UNCHANGED <<pipe, lock, file, pc, i, n>>

-----------------------------------------------------------------------------
write(p) ==
  \/ pipewrite_gives_up(p) \/ pipewrite_full(p) \/ pipewrite_done(p)
  \/ \E b \in Bytes : pipewrite_byte(p, b)

read(p) ==
  \/ piperead_killed(p) \/ piperead_wait(p) \/ piperead_ready(p)
  \/ piperead_byte(p) \/ piperead_done(p)

Kernel(p) == Acquire(p) \/ Sleep(p) \/ write(p) \/ read(p) \/ pipeclose(p)

Next ==
  \E p \in Procs :
    \/ \E m \in 0 .. MaxN : Call(p, m)
    \/ Kernel(p) \/ fileclose(p) \/ kkill(p)

Spec == Init /\ [][Next]_vars

-----------------------------------------------------------------------------
\* The bytes in the ring, oldest first.
Contents ==
  [k \in 1 .. (nwrite - nread) % UintMod |-> data[((nread + k - 1) % UintMod) % PIPESIZE]]

TypeOK ==
  /\ data \in [0 .. PIPESIZE - 1 -> Bytes \cup {None}]
  /\ nread \in 0 .. UintMod - 1 /\ nwrite \in 0 .. UintMod - 1
  /\ {readopen, writeopen, freed} \subseteq BOOLEAN
  /\ lock \in Procs \cup {None}
  /\ ref \in [{"r", "w"} -> 0 .. Cardinality(Procs)]
  /\ fd \subseteq Procs /\ asleep \subseteq Procs /\ killed \subseteq Procs
  /\ pc \in [Procs -> {"user", "acquire", "sleep", "write", "wait", "read", "close"}]
  /\ \A p \in Procs : 0 <= i[p] /\ i[p] <= n[p] /\ n[p] <= MaxN

\* The pipe delivers every byte once and in order, also when the counters wrap:
\* the ring holds exactly what was written and not yet read, and never more
\* than PIPESIZE bytes.
Fifo == Contents = unread /\ Len(unread) <= PIPESIZE

\* Nobody sleeps for something that is already there: with the lock free, a
\* sleeping reader has an empty pipe that somebody can still write to, and a
\* sleeping writer a full one that somebody can still read from.  The exception
\* is a writer that was killed: pipewrite() then returns -1 without a wakeup()
\* for the bytes it has already written.
NoLostWakeup ==
  lock = None =>
    /\ asleep \cap Readers # {} => (Empty \/ Writers \cap killed # {}) /\ writeopen
    /\ asleep \cap Writers # {} => Full /\ readopen

\* The pipe is freed when the last descriptor is closed, and nobody is in a
\* call on it then.
FreedLast ==
  /\ freed => fd = {} /\ \A p \in Procs : pc[p] = "user"
  /\ fd = {} /\ (\A p \in Procs : pc[p] = "user") => freed
=============================================================================
