------------------------------ MODULE Console ------------------------------
(***************************************************************************)
(* Console input, kernel/console.c: consoleintr() edits the line being     *)
(* typed at the end of a ring, consoleread() takes whole lines from its    *)
(* front.                                                                  *)
(*                                                                         *)
(* cons.lock is held from acquire() to sleep() or to the end of the call;  *)
(* a reader's steps under it are separate because kill() needs no          *)
(* cons.lock.  sleep() releases the lock and sleeps in one step (module    *)
(* Proc).  r, w and e are uints and wrap.  Echoing is in module Uart.      *)
(***************************************************************************)
EXTENDS Integers, Sequences, FiniteSets

CONSTANTS Readers,
          INPUT_BUF_SIZE,
          UintMod,    \* 2^32
          MaxN,       \* bytes per read()
          None

ConsoleAssumption ==
  /\ INPUT_BUF_SIZE \in Nat \ {0} /\ MaxN \in Nat
  /\ UintMod % INPUT_BUF_SIZE = 0 /\ UintMod > INPUT_BUF_SIZE

Chars == {"a", "\n", "^D"}   \* some letter, newline, end of file

VARIABLES buf, r, w, e,      \* cons
          lock,              \* the reader that holds cons.lock, or None
          asleep, killed,
          pc, n, target,     \* of each reader
          unread,            \* history: what was typed, edited and not read, ...
          lines              \* ... and how much of it is in finished lines

ring == <<buf, r, w, e, unread, lines>>
vars == <<ring, lock, asleep, killed, pc, n, target>>

Init ==
  /\ buf = [i \in 0 .. INPUT_BUF_SIZE - 1 |-> None]
  /\ r = 0 /\ w = 0 /\ e = 0
  /\ lock = None /\ asleep = {} /\ killed = {}
  /\ pc = [p \in Readers |-> "user"]
  /\ n = [p \in Readers |-> 0] /\ target = [p \in Readers |-> 0]
  /\ unread = <<>> /\ lines = 0

Plus(i, k) == (i + k) % UintMod      \* uint arithmetic
Slot(i) == i % INPUT_BUF_SIZE
Goto(p, l) == pc' = [pc EXCEPT ![p] = l]

-----------------------------------------------------------------------------
(* consoleintr().                                                          *)

\* ^U: back to the end of the last line.
RECURSIVE KillLine(_)
KillLine(i) ==
  IF i # w /\ buf[Slot(Plus(i, -1))] # "\n" THEN KillLine(Plus(i, -1)) ELSE i

consoleintr_kill ==
  /\ lock = None
  /\ e' = KillLine(e)
  /\ unread' = SubSeq(unread, 1, lines)
  /\ UNCHANGED <<buf, r, w, lines, lock, asleep, killed, pc, n, target>>

consoleintr_backspace ==
  /\ lock = None /\ e # w
  /\ e' = Plus(e, -1)
  /\ unread' = SubSeq(unread, 1, Len(unread) - 1)
  /\ UNCHANGED <<buf, r, w, lines, lock, asleep, killed, pc, n, target>>

\* Mutant: compares without wrapping.
consoleintr_char_signed(c) ==
  LET full == Plus(e, 1 - r) = INPUT_BUF_SIZE
      commit == c \in {"\n", "^D"} \/ full
  IN
  /\ lock = None /\ e - r < INPUT_BUF_SIZE
  /\ buf' = [buf EXCEPT ![Slot(e)] = c]
  /\ e' = Plus(e, 1)
  /\ unread' = Append(unread, c)
  /\ w' = IF commit THEN e' ELSE w
  /\ lines' = IF commit THEN Len(unread') ELSE lines
  /\ asleep' = IF commit THEN {} ELSE asleep
  /\ UNCHANGED <<r, lock, killed, pc, n, target>>

\* A character; a finished line, end of file or a full ring goes to the readers.
consoleintr_char(c) ==
  LET full == Plus(e, 1 - r) = INPUT_BUF_SIZE
      commit == c \in {"\n", "^D"} \/ full
  IN
  /\ lock = None /\ Plus(e, -r) < INPUT_BUF_SIZE
  /\ buf' = [buf EXCEPT ![Slot(e)] = c]
  /\ e' = Plus(e, 1)
  /\ unread' = Append(unread, c)
  /\ w' = IF commit THEN e' ELSE w
  /\ lines' = IF commit THEN Len(unread') ELSE lines
  /\ asleep' = IF commit THEN {} ELSE asleep
  /\ UNCHANGED <<r, lock, killed, pc, n, target>>

-----------------------------------------------------------------------------
(* consoleread().                                                          *)

Call(p, k) ==
  /\ pc[p] = "user"
  /\ n' = [n EXCEPT ![p] = k] /\ target' = [target EXCEPT ![p] = k]
  /\ Goto(p, "acquire")
  /\ UNCHANGED <<ring, lock, asleep, killed>>

\* acquire(&cons.lock), at the start or at the end of sleep().
Acquire(p) ==
  /\ pc[p] = "acquire" /\ p \notin asleep /\ lock = None
  /\ lock' = p
  /\ Goto(p, "read")
  /\ UNCHANGED <<ring, asleep, killed, n, target>>

Return(p) ==
  /\ lock' = None /\ Goto(p, "user")
  /\ n' = [n EXCEPT ![p] = 0] /\ target' = [target EXCEPT ![p] = 0]

consoleread_killed(p) ==
  /\ pc[p] = "read" /\ n[p] > 0 /\ r = w /\ p \in killed
  /\ Return(p)
  /\ UNCHANGED <<ring, asleep, killed>>

\* killed() is false; sleep() comes a step later.
consoleread_wait(p) ==
  /\ pc[p] = "read" /\ n[p] > 0 /\ r = w /\ p \notin killed
  /\ Goto(p, "sleep")
  /\ UNCHANGED <<ring, lock, asleep, killed, n, target>>

consoleread_sleep(p) ==
  /\ pc[p] = "sleep"
  /\ asleep' = asleep \cup {p} /\ lock' = None
  /\ Goto(p, "acquire")
  /\ UNCHANGED <<ring, killed, n, target>>

\* The next character is taken: cons.r++.
Take ==
  /\ r' = Plus(r, 1)
  /\ unread' = Tail(unread) /\ lines' = lines - 1
  /\ UNCHANGED <<buf, w, e>>

\* ^D: taken by a read that has no bytes, otherwise put back.
consoleread_eof(p) ==
  /\ pc[p] = "read" /\ n[p] > 0 /\ r # w /\ buf[Slot(r)] = "^D"
  /\ IF n[p] < target[p] THEN UNCHANGED ring ELSE Take
  /\ Return(p)
  /\ UNCHANGED <<asleep, killed>>

\* Another character; a newline ends the read.
consoleread_char(p) ==
  LET c == buf[Slot(r)] IN
  /\ pc[p] = "read" /\ n[p] > 0 /\ r # w /\ c # "^D"
  /\ Take
  /\ IF c = "\n" THEN Return(p)
     ELSE n' = [n EXCEPT ![p] = @ - 1] /\ UNCHANGED <<lock, pc, target>>
  /\ UNCHANGED <<asleep, killed>>

\* copyout() fails: the character is lost.
consoleread_copyout_fail(p) ==
  /\ pc[p] = "read" /\ n[p] > 0 /\ r # w /\ buf[Slot(r)] # "^D"
  /\ Take
  /\ Return(p)
  /\ UNCHANGED <<asleep, killed>>

consoleread_done(p) ==
  /\ pc[p] = "read" /\ n[p] = 0
  /\ Return(p)
  /\ UNCHANGED <<ring, asleep, killed>>

kkill(p) ==
  /\ p \notin killed
  /\ killed' = killed \cup {p} /\ asleep' = asleep \ {p}
  /\ UNCHANGED <<ring, lock, pc, n, target>>

consoleread(p) ==
  \/ consoleread_killed(p) \/ consoleread_wait(p) \/ consoleread_sleep(p)
  \/ consoleread_eof(p) \/ consoleread_char(p) \/ consoleread_copyout_fail(p)
  \/ consoleread_done(p)

Next ==
  \/ consoleintr_kill \/ consoleintr_backspace \/ \E c \in Chars : consoleintr_char(c)
  \/ \E p \in Readers :
       \/ \E k \in 0 .. MaxN : Call(p, k)
       \/ Acquire(p) \/ consoleread(p) \/ kkill(p)

Spec == Init /\ [][Next]_vars

-----------------------------------------------------------------------------
TypeOK ==
  /\ buf \in [0 .. INPUT_BUF_SIZE - 1 -> Chars \cup {None}]
  /\ {r, w, e} \subseteq 0 .. UintMod - 1
  /\ lock \in Readers \cup {None} /\ asleep \subseteq Readers /\ killed \subseteq Readers
  /\ pc \in [Readers -> {"user", "acquire", "read", "sleep"}]
  /\ n \in [Readers -> 0 .. MaxN] /\ target \in [Readers -> 0 .. MaxN]
  /\ lines \in 0 .. INPUT_BUF_SIZE

\* From r to w lie the finished lines, from w to e the line being edited, also
\* when the indices wrap: no character is overwritten before it is read, none
\* is read before its line is finished, and none is erased after that.
RingOK ==
  /\ Len(unread) <= INPUT_BUF_SIZE /\ Plus(e, -r) = Len(unread)
  /\ Plus(w, -r) = lines
  /\ \A i \in 1 .. Len(unread) : buf[Slot(Plus(r, i - 1))] = unread[i]

\* A full ring can always be read: typing never blocks the console for good.
FullIsReadable == Len(unread) = INPUT_BUF_SIZE => lines > 0

\* No reader sleeps while a finished line is there.
NoLostWakeup == lock = None /\ asleep # {} => r = w
=============================================================================
