---------------------------- MODULE MCInterrupts ----------------------------
(***************************************************************************)
(* What interrupt handlers and processes share: spin locks, the console's  *)
(* line buffer and the UART.  The components do not call each other here,  *)
(* so one run checks them side by side: `part' names the one that runs.    *)
(* A variable that the running component does not have is None.            *)
(***************************************************************************)
EXTENDS Spinlock

CONSTANTS Readers, Writers, Printers

VARIABLES part, lock, asleep, pc, n,
          buf, r, w, e, killed, target, unread, lines,
          tx_busy, thr, irq, lost

cons == <<buf, r, w, e, killed, target, unread, lines>>
tty  == <<tx_busy, thr, irq, lost>>
both == <<lock, asleep, pc, n>>

\* The ring of three has indices that wrap at six.
Cons == INSTANCE Console WITH INPUT_BUF_SIZE <- 3, UintMod <- 6, MaxN <- 2

\* The FIFO has room for a byte of uartwrite() and one of each printing CPU.
Tty == INSTANCE Uart WITH FIFO <- 3, MaxN <- 3

ASSUME DeviceSizes == Cons!ConsoleAssumption /\ Tty!UartAssumption

NoCons == /\ buf = None /\ r = None /\ w = None /\ e = None /\ killed = None
          /\ target = None /\ unread = None /\ lines = None
NoTty  == tx_busy = None /\ thr = None /\ irq = None /\ lost = None
NoBoth == lock = None /\ asleep = None /\ pc = None /\ n = None

MCInit ==
  /\ Init
  /\ \/ part = "locks" /\ NoBoth /\ NoCons /\ NoTty
     \/ part = "console" /\ Cons!Init /\ NoTty
     \/ part = "uart" /\ Tty!Init /\ NoCons

MCNext ==
  /\ UNCHANGED part
  /\ \/ part = "locks" /\ Next /\ UNCHANGED <<both, cons, tty>>
     \/ part = "console" /\ Cons!Next /\ UNCHANGED <<vars, tty>>
     \/ part = "uart" /\ Tty!Next /\ UNCHANGED <<vars, cons>>

MCSpec == MCInit /\ [][MCNext]_<<part, vars, both, cons, tty>>
-----------------------------------------------------------------------------
\* Nobody sleeps on for an event that has been: a process in pause() whose time
\* is up, a consoleread() with a finished line, a uartwrite() with a free UART.
NoLostWakeup ==
  /\ NoMissedTick
  /\ part = "console" => Cons!NoLostWakeup
  /\ part = "uart" => Tty!NoLostWakeup

\* From r to w lie the finished lines and from w to e the line being edited,
\* also when the indices wrap: consoleintr() overwrites nothing unread and
\* erases nothing of a finished line.  A full ring holds a finished line, so
\* typing never blocks it for good.
ConsoleRing ==
  part = "console" => Cons!TypeOK /\ Cons!RingOK /\ Cons!FullIsReadable

\* No byte is written into a full FIFO, by uartwrite() or uartputc_sync(), and
\* while tx_busy is set something is on its way that clears it: bytes whose end
\* interrupts, an interrupt, or uartintr() itself.
NoByteLost == part = "uart" => Tty!TypeOK /\ Tty!NoByteLost /\ Tty!BusyAnswered
=============================================================================
