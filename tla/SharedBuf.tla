------------------------------ MODULE SharedBuf ------------------------------
(***************************************************************************)
(* The producer-consumer buffer of kernel/sysproc.c: struct sharedbuf and  *)
(* the system calls buffer_init, produce, consume and buffer_status.       *)
(*                                                                         *)
(* The statements between acquire(&sharedbuf.lock) and its release are one *)
(* step.  consume() and buffer_status() go on after the release with what  *)
(* they read under the lock in local variables (item, snap); the copyout() *)
(* at the end is a step of its own, and may fail.                          *)
(***************************************************************************)
EXTENDS Integers, Sequences

CONSTANTS Procs,         \* processes that make the system calls
          Items,         \* the ints they produce
          BUFFER_SIZE,   \* slots of the ring
          TotalMod,      \* 2^32 in the kernel: the totals are 32-bit ints
          NoItem         \* a consume() that holds no item

ASSUME BufferSizeAssumption == BUFFER_SIZE \in Nat \ {0}
ASSUME TotalModAssumption == TotalMod \in Nat \ {0} /\ TotalMod > BUFFER_SIZE
ASSUME ItemsAssumption == Items \subseteq Int /\ NoItem \notin Items \cup {0}

VARIABLES buffer, count, in, out, initialized,
          produced_total, consumed_total,  \* as 32-bit patterns, 0..TotalMod-1
          pc,     \* "user", "consume" or "status": where p is in its call
          item,   \* item[p]: the local variable `item` of sys_consume
          snap,   \* snap[p]: count, produced, consumed of sys_buffer_status
          ret     \* ret[p]: what p's last system call returned

shared == <<buffer, count, in, out, initialized, produced_total, consumed_total>>
vars == <<shared, pc, item, snap, ret>>

Slots == 0 .. BUFFER_SIZE - 1
NoSnap == [count |-> 0, produced |-> 0, consumed |-> 0]

Init ==
  /\ buffer = [i \in Slots |-> 0]
  /\ count = 0 /\ in = 0 /\ out = 0
  /\ initialized = FALSE
  /\ produced_total = 0 /\ consumed_total = 0
  /\ pc = [p \in Procs |-> "user"]
  /\ item = [p \in Procs |-> NoItem]
  /\ snap = [p \in Procs |-> NoSnap]
  /\ ret = [p \in Procs |-> 0]

Return(p, r) == ret' = [ret EXCEPT ![p] = r]

-----------------------------------------------------------------------------
buffer_init(p) ==
  /\ pc[p] = "user"
  /\ buffer' = [i \in Slots |-> 0]
  /\ count' = 0 /\ in' = 0 /\ out' = 0
  /\ produced_total' = 0 /\ consumed_total' = 0
  /\ initialized' = TRUE
  /\ Return(p, 0)
  /\ UNCHANGED <<pc, item, snap>>

\* The two calls that fail: -2 before any buffer_init, -1 when the buffer is
\* full (produce) or empty (consume).
Refuse(p, blocked) ==
  /\ pc[p] = "user"
  /\ \/ ~initialized /\ Return(p, -2)
     \/ initialized /\ blocked /\ Return(p, -1)
  /\ UNCHANGED <<shared, pc, item, snap>>

Produce_no_advance(p, i) ==
  /\ pc[p] = "user" /\ initialized /\ count < BUFFER_SIZE
  /\ buffer' = [buffer EXCEPT ![in] = i]
  /\ count' = count + 1
  /\ produced_total' = (produced_total + 1) % TotalMod
  /\ Return(p, 0)
  /\ UNCHANGED <<in, out, initialized, consumed_total, pc, item, snap>>

Produce(p, i) ==
  /\ pc[p] = "user" /\ initialized /\ count < BUFFER_SIZE
  /\ buffer' = [buffer EXCEPT ![in] = i]
  /\ in' = (in + 1) % BUFFER_SIZE
  /\ count' = count + 1
  /\ produced_total' = (produced_total + 1) % TotalMod
  /\ Return(p, 0)
  /\ UNCHANGED <<out, initialized, consumed_total, pc, item, snap>>

sys_produce(p, i) == Produce(p, i) \/ Refuse(p, count >= BUFFER_SIZE)

ConsumeTake_newest(p) ==
  /\ pc[p] = "user" /\ initialized /\ count > 0
  /\ item' = [item EXCEPT ![p] = buffer[(in + BUFFER_SIZE - 1) % BUFFER_SIZE]]
  /\ out' = (out + 1) % BUFFER_SIZE
  /\ count' = count - 1
  /\ consumed_total' = (consumed_total + 1) % TotalMod
  /\ pc' = [pc EXCEPT ![p] = "consume"]
  /\ UNCHANGED <<buffer, in, initialized, produced_total, snap, ret>>

\* consume() up to its release(): the item leaves the ring.
ConsumeTake(p) ==
  /\ pc[p] = "user" /\ initialized /\ count > 0
  /\ item' = [item EXCEPT ![p] = buffer[out]]
  /\ out' = (out + 1) % BUFFER_SIZE
  /\ count' = count - 1
  /\ consumed_total' = (consumed_total + 1) % TotalMod
  /\ pc' = [pc EXCEPT ![p] = "consume"]
  /\ UNCHANGED <<buffer, in, initialized, produced_total, snap, ret>>

sys_consume(p) == ConsumeTake(p) \/ Refuse(p, count <= 0)

\* consume() after its release(): copyout() to the user, which may fail.
ConsumeCopyout(p) ==
  /\ pc[p] = "consume"
  /\ \E ok \in BOOLEAN : Return(p, IF ok THEN 0 ELSE -3)
  /\ item' = [item EXCEPT ![p] = NoItem]
  /\ pc' = [pc EXCEPT ![p] = "user"]
  /\ UNCHANGED <<shared, snap>>

sys_buffer_status(p) ==
  /\ pc[p] = "user"
  /\ snap' = [snap EXCEPT ![p] = [count    |-> count,
                                  produced |-> produced_total,
                                  consumed |-> consumed_total]]
  /\ pc' = [pc EXCEPT ![p] = "status"]
  /\ UNCHANGED <<shared, item, ret>>

\* Three copyouts to the user in a row; the first that fails ends the call.
StatusCopyout(p) ==
  /\ pc[p] = "status"
  /\ \E done \in 0 .. 3 : Return(p, IF done = 3 THEN 0 ELSE -1)
  /\ snap' = [snap EXCEPT ![p] = NoSnap]
  /\ pc' = [pc EXCEPT ![p] = "user"]
  /\ UNCHANGED <<shared, item>>

Next ==
  \E p \in Procs :
    \/ buffer_init(p)
    \/ \E i \in Items : sys_produce(p, i)
    \/ sys_consume(p) \/ ConsumeCopyout(p)
    \/ sys_buffer_status(p) \/ StatusCopyout(p)

Spec == Init /\ [][Next]_vars
-----------------------------------------------------------------------------
TypeOK ==
  /\ buffer \in [Slots -> Items \cup {0}]
  /\ count \in 0 .. BUFFER_SIZE
  /\ in \in Slots /\ out \in Slots
  /\ initialized \in BOOLEAN
  /\ produced_total \in 0 .. TotalMod - 1
  /\ consumed_total \in 0 .. TotalMod - 1
  /\ pc \in [Procs -> {"user", "consume", "status"}]
  /\ item \in [Procs -> Items \cup {NoItem}]
  /\ snap \in [Procs -> [count : 0 .. BUFFER_SIZE, produced : 0 .. TotalMod - 1,
                         consumed : 0 .. TotalMod - 1]]
  /\ ret \in [Procs -> {0, -1, -2, -3}]

\* The k-th oldest item of the ring, k = 1 for the next one consume() takes.
SlotOf(k) == IF out + k - 1 < BUFFER_SIZE THEN out + k - 1
             ELSE out + k - 1 - BUFFER_SIZE

Contents == [k \in 1 .. count |-> buffer[SlotOf(k)]]

\* The producer index is always where the ring's contents end: in, out and
\* count never drift apart, so no item is overwritten and none is read twice,
\* and every slot between out and in holds an item some produce() put there.
RingInv ==
  /\ in = SlotOf(count + 1)
  /\ \A k \in 1 .. count : buffer[SlotOf(k)] \in Items

\* produced_total minus consumed_total is the number of items in the buffer,
\* modulo the width of the totals: in the buffer itself, and in every
\* snapshot a buffer_status() call took while others kept changing them.
TotalsAgree ==
  /\ (consumed_total + count) % TotalMod = produced_total
  /\ \A p \in Procs :
       (snap[p].consumed + snap[p].count) % TotalMod = snap[p].produced

\* The ring with its lock implements a bounded FIFO queue: produce() appends,
\* consume() takes the oldest item, whatever the interleaving of the calls.
Queue == INSTANCE BoundedQueue
           WITH q <- Contents, hand <- item, Capacity <- BUFFER_SIZE
ImplementsQueue == Queue!Spec
=============================================================================
