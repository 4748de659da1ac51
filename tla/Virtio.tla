------------------------------- MODULE Virtio -------------------------------
(***************************************************************************)
(* The disk driver of kernel/virtio_disk.c: processes that allocate chains *)
(* of descriptors and sleep, the interrupt handler that wakes them, and    *)
(* the device, which takes requests in order and finishes them in any.     *)
(*                                                                         *)
(* vdisk_lock makes the driver's code up to its next sleep() one step; the *)
(* device and the handler's loop interleave, because the device takes no   *)
(* lock.  An entry of a ring that its reader has passed becomes None, so   *)
(* that reading it again shows.  A process has the buffer of a block that  *)
(* no other process has (module Bcache).                                   *)
(***************************************************************************)
EXTENDS Integers, FiniteSets

CONSTANTS Procs, Blocks, Values,
          NUM,      \* descriptors, and entries of each ring
          IdxMod,   \* 2^16: the width of a ring's idx
          None

VirtioAssumption ==
  NUM \in Nat \ {0} /\ IdxMod \in Nat \ {0} /\ IdxMod % NUM = 0

Descs == 0 .. NUM - 1

VARIABLES desc,      \* the descriptors: next (None without the NEXT flag), addr
          free,      \* the free ones
          ops,       \* ops[i]: the request header of a chain that starts at i
          info,      \* info[i]: its buffer and status
          avail, availidx, used, usedidx,   \* the rings and their idx
          used_idx,  \* how far the handler has looked
          irq,       \* the interrupt is pending
          intr,      \* the handler is in its loop, with vdisk_lock
          busy,      \* b->disk of each process's buffer
          data,      \* b->data
          asleep,    \* asleep[p]: the channel p sleeps on, or None
          pc, idx,   \* pc[p], and idx[0] of its chain
          req,       \* req[p]: the arguments of virtio_disk_rw()
          taken,     \* the device's place in the avail ring
          doing,     \* the chains the device works on, and those it has done
          did,
          store,     \* the disk
          panic

queue == <<desc, free, ops, info, avail, availidx>>
driver == <<used_idx, intr, busy, asleep, pc, idx, req, panic>>
device == <<taken, doing, did, store, used, usedidx>>
vars == <<queue, driver, device, irq, data>>

NoDesc == [next |-> None, addr |-> None]
NoReq == [block |-> None, write |-> FALSE]

Init ==
  /\ desc = [i \in Descs |-> NoDesc] /\ free = Descs
  /\ ops = [i \in Descs |-> NoReq]
  /\ info = [i \in Descs |-> [b |-> None, status |-> 0]]
  /\ avail = [i \in Descs |-> None] /\ availidx = 0
  /\ used = [i \in Descs |-> None] /\ usedidx = 0
  /\ used_idx = 0 /\ irq = FALSE /\ intr = FALSE
  /\ busy = [p \in Procs |-> FALSE]
  /\ data \in [Procs -> Values] /\ store \in [Blocks -> Values]
  /\ asleep = [p \in Procs |-> None]
  /\ pc = [p \in Procs |-> "idle"] /\ idx = [p \in Procs |-> None]
  /\ req = [p \in Procs |-> NoReq]
  /\ taken = 0 /\ doing = {} /\ did = {}
  /\ panic = FALSE

Set(f, x, v) == [f EXCEPT ![x] = v]
Awake(p, l) == pc[p] = l /\ asleep[p] = None /\ ~intr

\* wakeup(c) by p, which is awake itself.
Wake(c) == [q \in Procs |-> IF asleep[q] = c THEN None ELSE asleep[q]]

-----------------------------------------------------------------------------
(* virtio_disk_rw().                                                       *)

Call(p, k, w, v) ==
  /\ pc[p] = "idle" /\ \A q \in Procs : req[q].block # k
  /\ req' = Set(req, p, [block |-> k, write |-> w])
  /\ data' = Set(data, p, v)
  /\ pc' = Set(pc, p, "alloc")
  /\ UNCHANGED <<queue, used_idx, intr, busy, asleep, idx, panic, device, irq>>

\* i, j and k are the first free descriptors, in this order.
First3(i, j, k) ==
  /\ {i, j, k} \subseteq free /\ i < j /\ j < k
  /\ \A f \in free : f <= k => f \in {i, j, k}

\* alloc3_desc() succeeds: format the chain, hand it over, and sleep(b).
alloc3_desc(p) ==
  /\ Awake(p, "alloc")
  /\ \E i, j, k \in Descs :
       /\ First3(i, j, k)
       /\ free' = free \ {i, j, k}
       /\ ops' = Set(ops, i, req[p])
       /\ desc' = [desc EXCEPT ![i] = [next |-> j, addr |-> i],
                               ![j] = [next |-> k, addr |-> p],
                               ![k] = [next |-> None, addr |-> i]]
       /\ info' = Set(info, i, [b |-> p, status |-> 255])
       /\ avail' = Set(avail, availidx % NUM, i)
       /\ idx' = Set(idx, p, i)
  /\ availidx' = (availidx + 1) % IdxMod
  /\ busy' = Set(busy, p, TRUE)
  /\ asleep' = Set(asleep, p, p)
  /\ pc' = Set(pc, p, "wait")
  /\ UNCHANGED <<used_idx, intr, req, panic, device, irq, data>>

\* It fails: the one or two it got are freed again, which wakes the others
\* that wait for descriptors, and p sleeps on &disk.free[0].
alloc3_desc_fails(p) ==
  /\ Awake(p, "alloc") /\ Cardinality(free) < 3
  /\ asleep' = Set(IF free = {} THEN asleep ELSE Wake("free"), p, "free")
  /\ UNCHANGED <<queue, used_idx, intr, busy, pc, idx, req, panic, device, irq, data>>

\* Woken, but the request is not finished (kill() wakes too).
sleep_again(p) ==
  /\ Awake(p, "wait") /\ busy[p]
  /\ asleep' = Set(asleep, p, p)
  /\ UNCHANGED <<queue, used_idx, intr, busy, pc, idx, req, panic, device, irq, data>>

\* The descriptors free_chain(i) visits.
Chain(i) ==
  LET j == desc[i].next
      k == desc[j].next
  IN  IF j = None THEN {i} ELSE IF k = None THEN {i, j} ELSE {i, j, k}

\* Mutant: freed descriptors wake nobody.
free_chain_no_wakeup(p) ==
  /\ Awake(p, "wait") /\ ~busy[p]
  /\ panic' = (panic \/ Chain(idx[p]) \cap free # {})
  /\ free' = free \cup Chain(idx[p])
  /\ desc' = [i \in Descs |-> IF i \in Chain(idx[p]) THEN NoDesc ELSE desc[i]]
  /\ info' = [info EXCEPT ![idx[p]].b = None]
  /\ idx' = Set(idx, p, None) /\ req' = Set(req, p, NoReq)
  /\ pc' = Set(pc, p, "idle")
  /\ UNCHANGED <<ops, avail, availidx, used_idx, intr, busy, asleep, device, irq, data>>

\* The request is finished: free_chain() and return.
free_chain(p) ==
  /\ Awake(p, "wait") /\ ~busy[p]
  /\ panic' = (panic \/ Chain(idx[p]) \cap free # {})
  /\ free' = free \cup Chain(idx[p])
  /\ desc' = [i \in Descs |-> IF i \in Chain(idx[p]) THEN NoDesc ELSE desc[i]]
  /\ info' = [info EXCEPT ![idx[p]].b = None]
  /\ idx' = Set(idx, p, None) /\ req' = Set(req, p, NoReq)
  /\ asleep' = Wake("free")
  /\ pc' = Set(pc, p, "idle")
  /\ UNCHANGED <<ops, avail, availidx, used_idx, intr, busy, device, irq, data>>

\* kill() makes a sleeping process runnable.
kkill(p) ==
  /\ asleep[p] # None
  /\ asleep' = Set(asleep, p, None)
  /\ UNCHANGED <<queue, used_idx, intr, busy, pc, idx, req, panic, device, irq, data>>

-----------------------------------------------------------------------------
(* virtio_disk_intr().                                                     *)

\* Take the lock and acknowledge the interrupt.
virtio_disk_intr ==
  /\ irq /\ ~intr
  /\ intr' = TRUE /\ irq' = FALSE
  /\ UNCHANGED <<queue, used_idx, busy, asleep, pc, idx, req, panic, device, data>>

\* Mutant: finishes some request, not the one of the entry.
intr_entry_of_another ==
  /\ intr /\ used_idx # usedidx
  /\ \E p \in Procs :
       busy[p] /\ busy' = Set(busy, p, FALSE) /\ asleep' = Wake(p)
  /\ used' = Set(used, used_idx % NUM, None)
  /\ used_idx' = (used_idx + 1) % IdxMod
  /\ UNCHANGED <<queue, intr, pc, idx, req, panic, taken, doing, did, store, usedidx, irq, data>>

\* One turn of the loop.
intr_entry ==
  LET id == used[used_idx % NUM] IN
  /\ intr /\ used_idx # usedidx
  /\ IF id = None \/ info[id].status # 0 \/ info[id].b = None
     THEN panic' = TRUE /\ UNCHANGED <<busy, asleep>>
     ELSE /\ busy' = Set(busy, info[id].b, FALSE)
          /\ asleep' = Wake(info[id].b)
          /\ UNCHANGED panic
  /\ used' = Set(used, used_idx % NUM, None)
  /\ used_idx' = (used_idx + 1) % IdxMod
  /\ UNCHANGED <<queue, intr, pc, idx, req, taken, doing, did, store, usedidx, irq, data>>

intr_return ==
  /\ intr /\ used_idx = usedidx
  /\ intr' = FALSE
  /\ UNCHANGED <<queue, used_idx, busy, asleep, pc, idx, req, panic, device, irq, data>>

-----------------------------------------------------------------------------
(* The device.                                                             *)

DevTake ==
  /\ taken # availidx
  /\ doing' = doing \cup {avail[taken % NUM]}
  /\ taken' = (taken + 1) % IdxMod
  /\ avail' = Set(avail, taken % NUM, None)
  /\ UNCHANGED <<desc, free, ops, info, availidx, driver, did, store, used, usedidx, irq, data>>

\* Follow the chain: transfer the data, write the status.
DevDo(i) ==
  LET b == desc[desc[i].next].addr
      s == desc[desc[desc[i].next].next].addr
  IN  /\ i \in doing
      /\ IF ops[i].write
         THEN store' = Set(store, ops[i].block, data[b]) /\ UNCHANGED data
         ELSE data' = Set(data, b, store[ops[i].block]) /\ UNCHANGED store
      /\ info' = [info EXCEPT ![s].status = 0]
      /\ doing' = doing \ {i} /\ did' = did \cup {i}
      /\ UNCHANGED <<desc, free, ops, avail, availidx, driver, taken, used, usedidx, irq>>

DevUsed(i) ==
  /\ i \in did
  /\ used' = Set(used, usedidx % NUM, i)
  /\ usedidx' = (usedidx + 1) % IdxMod
  /\ did' = did \ {i}
  /\ irq' = TRUE
  /\ UNCHANGED <<queue, driver, taken, doing, store, data>>

-----------------------------------------------------------------------------
\* Back from sleep(), in the loop that waits for the request.
Waiting(p) == sleep_again(p) \/ free_chain(p)

virtio_disk_rw(p) == alloc3_desc(p) \/ alloc3_desc_fails(p) \/ Waiting(p)
Handler == virtio_disk_intr \/ intr_entry \/ intr_return
Device == DevTake \/ \E i \in Descs : DevDo(i) \/ DevUsed(i)

Next ==
  \/ \E p \in Procs :
       \/ \E k \in Blocks, w \in BOOLEAN, v \in Values : Call(p, k, w, v)
       \/ virtio_disk_rw(p) \/ kkill(p)
  \/ Handler \/ Device

Spec == Init /\ [][Next]_vars

-----------------------------------------------------------------------------
DescOrNone == Descs \cup {None}

TypeOK ==
  /\ desc \in [Descs -> [next : DescOrNone, addr : Descs \cup Procs \cup {None}]]
  /\ free \subseteq Descs
  /\ ops \in [Descs -> [block : Blocks \cup {None}, write : BOOLEAN]]
  /\ info \in [Descs -> [b : Procs \cup {None}, status : {0, 255}]]
  /\ avail \in [Descs -> DescOrNone] /\ used \in [Descs -> DescOrNone]
  /\ {availidx, usedidx, used_idx, taken} \subseteq 0 .. IdxMod - 1
  /\ irq \in BOOLEAN /\ intr \in BOOLEAN /\ panic \in BOOLEAN
  /\ busy \in [Procs -> BOOLEAN] /\ data \in [Procs -> Values]
  /\ asleep \in [Procs -> Procs \cup {"free", None}]
  /\ pc \in [Procs -> {"idle", "alloc", "wait"}] /\ idx \in [Procs -> DescOrNone]
  /\ doing \subseteq Descs /\ did \subseteq Descs
  /\ store \in [Blocks -> Values]

\* Neither free_desc() nor virtio_disk_intr() panics: no descriptor is freed
\* twice, and no used entry is read that is stale, has no buffer, or whose
\* status the device has not written.
NoPanic == ~panic

\* Every descriptor is free or in the chain of exactly one request, of three.
DescOwned ==
  LET InUse == {p \in Procs : pc[p] = "wait"} IN
  /\ \A p \in InUse : Cardinality(Chain(idx[p])) = 3 /\ Chain(idx[p]) \cap free = {}
  /\ \A p, q \in InUse : p # q => Chain(idx[p]) \cap Chain(idx[q]) = {}
  /\ Cardinality(free) + 3 * Cardinality(InUse) = NUM

\* No process sleeps for descriptors while there are enough of them, and none
\* sleeps for a request that the handler has finished.
NoLostWakeup ==
  \A p \in Procs : /\ asleep[p] = "free" => Cardinality(free) < 3
                   /\ asleep[p] = p => busy[p]

D == INSTANCE DiskService WITH
       req <- [p \in Procs |->
                 [block |-> req[p].block, write |-> req[p].write,
                  done |-> pc[p] = "wait" /\ info[idx[p]].status = 0]]

\* Every request is carried out exactly once, for its own block and with its
\* own buffer, before virtio_disk_rw() returns.
DiskStep == D!Next \/ D!Same
=============================================================================
