-------------------------------- MODULE Uart --------------------------------
(***************************************************************************)
(* Console output, kernel/uart.c: uartwrite() sends a byte, sleeps until   *)
(* the interrupt handler clears tx_busy, and sends the next, while         *)
(* uartputc_sync() (printf() and echo) writes to the same register without *)
(* tx_lock, once it has seen it empty.                                     *)
(*                                                                         *)
(* The UART's transmit FIFO is external.  It interrupts when it runs       *)
(* empty; reading ISR or writing THR takes the interrupt back.             *)
(***************************************************************************)
EXTENDS Integers, FiniteSets

CONSTANTS Writers,    \* processes in uartwrite()
          Printers,   \* CPUs in uartputc_sync()
          FIFO,       \* bytes the UART holds
          MaxN,       \* bytes per call
          None

UartAssumption == FIFO \in Nat \ {0} /\ MaxN \in Nat

VARIABLES tx_busy,
          lock,          \* the holder of tx_lock: a writer, or None
          asleep,        \* the writers in sleep(&tx_chan)
          n,             \* n[p]: bytes p still has to write
          pc,            \* of writers, printers and the handler
          thr,           \* the bytes in the FIFO
          irq,
          lost           \* a byte was written into a full FIFO

vars == <<tx_busy, lock, asleep, n, pc, thr, irq, lost>>

Actors == Writers \cup Printers \cup {"intr"}

Init ==
  /\ tx_busy = FALSE /\ lock = None /\ asleep = {}
  /\ n = [p \in Writers |-> 0]
  /\ pc = [a \in Actors |-> "idle"]
  /\ thr = 0 /\ irq = FALSE /\ lost = FALSE

Goto(a, l) == pc' = [pc EXCEPT ![a] = l]

\* WriteReg(THR, c).
WriteTHR ==
  /\ thr' = IF thr < FIFO THEN thr + 1 ELSE thr
  /\ lost' = (lost \/ thr = FIFO)
  /\ irq' = FALSE

\* ReadReg(LSR) & LSR_TX_IDLE.
TxIdle == thr = 0

-----------------------------------------------------------------------------
(* uartwrite().                                                            *)

\* A batch of consolewrite(): the call, ...
Call(p, k) ==
  /\ pc[p] = "idle"
  /\ n' = [n EXCEPT ![p] = k]
  /\ Goto(p, "acquire")
  /\ UNCHANGED <<tx_busy, lock, asleep, thr, irq, lost>>

\* ... acquire(&tx_lock), at the start or at the end of sleep().
Acquire(p) ==
  /\ pc[p] = "acquire" /\ p \notin asleep /\ lock = None
  /\ lock' = p
  /\ Goto(p, "write")
  /\ UNCHANGED <<tx_busy, asleep, n, thr, irq, lost>>

Sleep(p) ==
  /\ pc[p] = "write" /\ n[p] > 0 /\ tx_busy
  /\ asleep' = asleep \cup {p} /\ lock' = None
  /\ Goto(p, "acquire")
  /\ UNCHANGED <<tx_busy, n, thr, irq, lost>>

\* Mutant: sends without waiting for the UART.
Send_unchecked(p) ==
  /\ pc[p] = "write" /\ n[p] > 0
  /\ WriteTHR
  /\ tx_busy' = TRUE
  /\ n' = [n EXCEPT ![p] = @ - 1]
  /\ UNCHANGED <<lock, asleep, pc>>

Send(p) ==
  /\ pc[p] = "write" /\ n[p] > 0 /\ ~tx_busy
  /\ WriteTHR
  /\ tx_busy' = TRUE
  /\ n' = [n EXCEPT ![p] = @ - 1]
  /\ UNCHANGED <<lock, asleep, pc>>

Release(p) ==
  /\ pc[p] = "write" /\ n[p] = 0
  /\ lock' = None
  /\ Goto(p, "idle")
  /\ UNCHANGED <<tx_busy, asleep, n, thr, irq, lost>>

\* kill() wakes a sleeper, which looks at tx_busy again.
kkill(p) ==
  /\ p \in asleep
  /\ asleep' = asleep \ {p}
  /\ UNCHANGED <<tx_busy, lock, n, pc, thr, irq, lost>>

uartwrite(p) == Acquire(p) \/ Sleep(p) \/ Send(p) \/ Release(p)

-----------------------------------------------------------------------------
(* uartputc_sync(): see the register empty, then write.                    *)

uartputc_sync(c) ==
  /\ pc[c] = "idle" /\ TxIdle
  /\ Goto(c, "put")
  /\ UNCHANGED <<tx_busy, lock, asleep, n, thr, irq, lost>>

uartputc_sync_write(c) ==
  /\ pc[c] = "put"
  /\ WriteTHR
  /\ Goto(c, "idle")
  /\ UNCHANGED <<tx_busy, lock, asleep, n>>

-----------------------------------------------------------------------------
(* uartintr() and the UART.                                                *)

\* The transmitter's interrupt, or at any time the receiver's: acknowledge, ...
uartintr ==
  /\ pc["intr"] = "idle"
  /\ irq' = FALSE
  /\ Goto("intr", "check")
  /\ UNCHANGED <<tx_busy, lock, asleep, n, thr, lost>>

\* ... then, with tx_lock, look whether the UART is ready for more.
uartintr_check ==
  /\ pc["intr"] = "check" /\ lock = None
  /\ IF TxIdle THEN tx_busy' = FALSE /\ asleep' = {} ELSE UNCHANGED <<tx_busy, asleep>>
  /\ Goto("intr", "idle")
  /\ UNCHANGED <<lock, n, thr, irq, lost>>

Transmit ==
  /\ thr > 0
  /\ thr' = thr - 1
  /\ irq' = (irq \/ thr = 1)
  /\ UNCHANGED <<tx_busy, lock, asleep, n, pc, lost>>

Next ==
  \/ \E p \in Writers : (\E k \in 1 .. MaxN : Call(p, k)) \/ uartwrite(p) \/ kkill(p)
  \/ \E c \in Printers : uartputc_sync(c) \/ uartputc_sync_write(c)
  \/ uartintr \/ uartintr_check \/ Transmit

Spec == Init /\ [][Next]_vars

-----------------------------------------------------------------------------
TypeOK ==
  /\ tx_busy \in BOOLEAN /\ irq \in BOOLEAN /\ lost \in BOOLEAN
  /\ lock \in Writers \cup {None} /\ asleep \subseteq Writers
  /\ n \in [Writers -> 0 .. MaxN]
  /\ pc \in [Actors -> {"idle", "acquire", "write", "put", "check"}]
  /\ thr \in 0 .. FIFO

\* No byte is lost: the FIFO has room for one byte of uartwrite() and one of
\* each CPU in uartputc_sync(), and never gets more.
NoByteLost == ~lost

\* While tx_busy is set there is something that will clear it: bytes in the
\* UART, whose end interrupts, an interrupt, or the handler on its way.
BusyAnswered == tx_busy => thr > 0 \/ irq \/ pc["intr"] = "check"

\* No writer sleeps while the UART is free for it.
NoLostWakeup == asleep # {} => tx_busy
=============================================================================
