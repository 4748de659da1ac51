--------------------------- MODULE SharedBufProofs ---------------------------
(***************************************************************************)
(* For every number of processes, every BUFFER_SIZE and every width of the *)
(* totals: the indices of the ring and its count agree, the totals agree   *)
(* with the count, and the ring implements a bounded FIFO queue.           *)
(***************************************************************************)
EXTENDS SharedBuf, TLAPS

\* One step of an index or a counter round a ring of N: what the code's
\* (x + 1) % BUFFER_SIZE and the wrap of an int amount to.
LEMMA ModStep ==
  ASSUME NEW N \in Nat \ {0}, NEW x \in 0 .. N - 1
  PROVE  (x + 1) % N = IF x + 1 = N THEN 0 ELSE x + 1
OBVIOUS

\* The remainder of a number below 2 * N.
LEMMA ModTwice ==
  ASSUME NEW N \in Nat \ {0}, NEW x \in Nat, x < N + N
  PROVE  x % N = IF x < N THEN x ELSE x - N
<1>1. CASE x < N
  BY <1>1
<1>2. CASE x >= N
  BY <1>2
<1> QED
  BY <1>1, <1>2

\* The sums of TotalsAgree stay below 2 * TotalMod.
LEMMA AgreeMod ==
  ASSUME NEW c \in 0 .. TotalMod - 1, NEW n \in 0 .. BUFFER_SIZE
  PROVE  (c + n) % TotalMod =
           IF c + n < TotalMod THEN c + n ELSE c + n - TotalMod
<1>1. TotalMod \in Nat \ {0} /\ c + n \in Nat /\ c + n < TotalMod + TotalMod
  BY TotalModAssumption, BufferSizeAssumption
<1>2. \A x \in Nat : x < TotalMod + TotalMod =>
        x % TotalMod = IF x < TotalMod THEN x ELSE x - TotalMod
  BY <1>1, ModTwice
<1> QED
  BY <1>1, <1>2

\* Between calls a process holds neither an item nor a snapshot.
LocalsInv ==
  \A p \in Procs : pc[p] = "consume" <=> item[p] # NoItem

IInv == TypeOK /\ RingInv /\ TotalsAgree /\ LocalsInv

-----------------------------------------------------------------------------
\* The zeroed sharedbuf of a booted kernel satisfies the invariant.
LEMMA InitIInv == Init => IInv
<1> SUFFICES ASSUME Init PROVE IInv
  OBVIOUS
<1> USE BufferSizeAssumption, TotalModAssumption, ItemsAssumption
<1>1. TypeOK
  <2>1. NoSnap \in [count : 0 .. BUFFER_SIZE, produced : 0 .. TotalMod - 1,
                    consumed : 0 .. TotalMod - 1]
    BY DEF NoSnap
  <2>2. 0 \in Slots /\ 0 \in 0 .. BUFFER_SIZE /\ 0 \in 0 .. TotalMod - 1
    BY DEF Slots
  <2> QED
    BY <2>1, <2>2 DEF Init, TypeOK
<1>2. RingInv
  BY DEF Init, RingInv, SlotOf, Slots
<1>3. TotalsAgree
  BY AgreeMod DEF Init, TotalsAgree, NoSnap
<1>4. LocalsInv
  BY DEF Init, LocalsInv
<1> QED
  BY <1>1, <1>2, <1>3, <1>4 DEF IInv

\* Every system call on the buffer preserves the invariant.
LEMMA StepIInv == IInv /\ [Next]_vars => IInv'
<1> SUFFICES ASSUME IInv, [Next]_vars PROVE IInv'
  OBVIOUS
<1> USE BufferSizeAssumption, TotalModAssumption, ItemsAssumption DEF IInv
<1>1. ASSUME NEW p \in Procs, buffer_init(p) PROVE IInv'
  <2>1. TypeOK'
    BY <1>1 DEF buffer_init, TypeOK, Return, Slots
  <2>2. RingInv'
    BY <1>1 DEF buffer_init, RingInv, SlotOf, Slots
  <2>3. TotalsAgree'
    BY <1>1, AgreeMod DEF buffer_init, TotalsAgree
  <2>4. LocalsInv'
    BY <1>1 DEF buffer_init, LocalsInv
  <2> QED
    BY <2>1, <2>2, <2>3, <2>4
<1>2. ASSUME NEW p \in Procs, NEW i \in Items, Produce(p, i) PROVE IInv'
  <2>1. in' = (IF in + 1 = BUFFER_SIZE THEN 0 ELSE in + 1)
    BY <1>2, ModStep DEF Produce, TypeOK, Slots
  <2>2. produced_total' = (IF produced_total + 1 = TotalMod THEN 0
                           ELSE produced_total + 1)
    BY <1>2, ModStep DEF Produce, TypeOK
  <2>3. TypeOK'
    BY <1>2, <2>1, <2>2 DEF Produce, TypeOK, Return, Slots
  <2>4. RingInv'
    <3>1. /\ count' = count + 1 /\ count \in 0 .. BUFFER_SIZE - 1
          /\ out' = out /\ out \in 0 .. BUFFER_SIZE - 1
          /\ in = SlotOf(count + 1) /\ in \in 0 .. BUFFER_SIZE - 1
      BY <1>2 DEF Produce, TypeOK, RingInv, Slots
    <3>2. in' = SlotOf(count + 1)'
      BY <3>1, <2>1 DEF SlotOf
    <3>3. ASSUME NEW k \in 1 .. count' PROVE buffer'[SlotOf(k)'] \in Items
      <4>1. /\ SlotOf(k)' = SlotOf(k)
            /\ SlotOf(k) \in Slots
        BY <3>1 DEF SlotOf, Slots
      <4>2. k \in 1 .. count \/ SlotOf(k) = in
        BY <3>1 DEF SlotOf
      <4> QED
        BY <1>2, <4>1, <4>2 DEF Produce, TypeOK, RingInv
    <3> QED
      BY <3>2, <3>3 DEF RingInv
  <2>5. TotalsAgree'
    <3>1. (consumed_total' + count') % TotalMod = produced_total'
      <4>1. /\ (consumed_total + count) % TotalMod = produced_total
            /\ consumed_total \in 0 .. TotalMod - 1 /\ count \in 0 .. BUFFER_SIZE
            /\ consumed_total' \in 0 .. TotalMod - 1 /\ count' \in 0 .. BUFFER_SIZE
        BY <2>3 DEF TypeOK, TotalsAgree
      <4>2. /\ produced_total = IF consumed_total + count < TotalMod
                              THEN consumed_total + count
                              ELSE consumed_total + count - TotalMod
            /\ (consumed_total' + count') % TotalMod =
                 IF consumed_total' + count' < TotalMod
                 THEN consumed_total' + count'
                 ELSE consumed_total' + count' - TotalMod
        BY <4>1, AgreeMod
      <4> QED
        BY <1>2, <2>2, <4>1, <4>2 DEF Produce
    <3>2. snap' = snap
      BY <1>2 DEF Produce
    <3> QED
      BY <3>1, <3>2 DEF TotalsAgree
  <2>6. LocalsInv'
    BY <1>2 DEF Produce, LocalsInv
  <2> QED
    BY <2>3, <2>4, <2>5, <2>6
<1>3. ASSUME NEW p \in Procs, ConsumeTake(p) PROVE IInv'
  <2>1. out' = (IF out + 1 = BUFFER_SIZE THEN 0 ELSE out + 1)
    BY <1>3, ModStep DEF ConsumeTake, TypeOK, Slots
  <2>2. consumed_total' = (IF consumed_total + 1 = TotalMod THEN 0
                           ELSE consumed_total + 1)
    BY <1>3, ModStep DEF ConsumeTake, TypeOK
  <2>3. buffer[out] \in Items
    <3>1. 1 \in 1 .. count /\ SlotOf(1) = out
      BY <1>3 DEF ConsumeTake, TypeOK, SlotOf, Slots
    <3> QED
      BY <3>1 DEF RingInv
  <2>4. TypeOK'
    BY <1>3, <2>1, <2>2, <2>3 DEF ConsumeTake, TypeOK, Slots
  <2>5. RingInv'
    <3>1. /\ count' = count - 1 /\ count \in 1 .. BUFFER_SIZE
          /\ out \in 0 .. BUFFER_SIZE - 1
          /\ in' = in /\ in = SlotOf(count + 1) /\ buffer' = buffer
      BY <1>3 DEF ConsumeTake, TypeOK, RingInv, Slots
    <3>2. in' = SlotOf(count + 1)'
      BY <3>1, <2>1 DEF SlotOf
    <3>3. ASSUME NEW k \in 1 .. count' PROVE buffer'[SlotOf(k)'] \in Items
      <4>1. SlotOf(k)' = SlotOf(k + 1) /\ k + 1 \in 1 .. count
        BY <3>1, <2>1 DEF SlotOf
      <4> QED
        BY <3>1, <4>1 DEF RingInv
    <3> QED
      BY <3>2, <3>3 DEF RingInv
  <2>6. TotalsAgree'
    <3>1. (consumed_total' + count') % TotalMod = produced_total'
      <4>1. /\ (consumed_total + count) % TotalMod = produced_total
            /\ consumed_total \in 0 .. TotalMod - 1 /\ count \in 0 .. BUFFER_SIZE
            /\ consumed_total' \in 0 .. TotalMod - 1 /\ count' \in 0 .. BUFFER_SIZE
        BY <2>4 DEF TypeOK, TotalsAgree
      <4>2. /\ produced_total = IF consumed_total + count < TotalMod
                              THEN consumed_total + count
                              ELSE consumed_total + count - TotalMod
            /\ (consumed_total' + count') % TotalMod =
                 IF consumed_total' + count' < TotalMod
                 THEN consumed_total' + count'
                 ELSE consumed_total' + count' - TotalMod
        BY <4>1, AgreeMod
      <4> QED
        BY <1>3, <2>2, <4>1, <4>2 DEF ConsumeTake
    <3>2. snap' = snap
      BY <1>3 DEF ConsumeTake
    <3> QED
      BY <3>1, <3>2 DEF TotalsAgree
  <2>7. LocalsInv'
    BY <1>3, <2>3 DEF ConsumeTake, TypeOK, LocalsInv
  <2> QED
    BY <2>4, <2>5, <2>6, <2>7
<1>4. ASSUME NEW p \in Procs, NEW b, Refuse(p, b) PROVE IInv'
  <2>1. TypeOK'
    BY <1>4 DEF Refuse, TypeOK, Return, shared
  <2>2. RingInv' /\ TotalsAgree' /\ LocalsInv'
    BY <1>4 DEF Refuse, RingInv, SlotOf, TotalsAgree, LocalsInv, shared
  <2> QED
    BY <2>1, <2>2
<1>5. ASSUME NEW p \in Procs, ConsumeCopyout(p) PROVE IInv'
  <2>1. TypeOK'
    BY <1>5 DEF ConsumeCopyout, TypeOK, Return, shared
  <2>2. RingInv' /\ TotalsAgree'
    BY <1>5 DEF ConsumeCopyout, RingInv, SlotOf, TotalsAgree, shared
  <2>3. LocalsInv'
    BY <1>5 DEF ConsumeCopyout, TypeOK, LocalsInv
  <2> QED
    BY <2>1, <2>2, <2>3
<1>6. ASSUME NEW p \in Procs, sys_buffer_status(p) PROVE IInv'
  <2>1. TypeOK'
    BY <1>6 DEF sys_buffer_status, TypeOK, shared
  <2>2. RingInv'
    BY <1>6 DEF sys_buffer_status, RingInv, SlotOf, shared
  <2>3. TotalsAgree'
    BY <1>6 DEF sys_buffer_status, TypeOK, TotalsAgree, shared
  <2>4. LocalsInv'
    BY <1>6 DEF sys_buffer_status, TypeOK, LocalsInv
  <2> QED
    BY <2>1, <2>2, <2>3, <2>4
<1>7. ASSUME NEW p \in Procs, StatusCopyout(p) PROVE IInv'
  <2>1. TypeOK'
    BY <1>7 DEF StatusCopyout, TypeOK, Return, shared, NoSnap
  <2>2. RingInv'
    BY <1>7 DEF StatusCopyout, RingInv, SlotOf, shared
  <2>3. TotalsAgree'
    <3>1. (NoSnap.consumed + NoSnap.count) % TotalMod = NoSnap.produced
      BY AgreeMod DEF NoSnap
    <3> QED
      BY <1>7, <3>1 DEF StatusCopyout, TypeOK, TotalsAgree, shared
  <2>4. LocalsInv'
    BY <1>7 DEF StatusCopyout, TypeOK, LocalsInv
  <2> QED
    BY <2>1, <2>2, <2>3, <2>4
<1>8. CASE UNCHANGED vars
  BY <1>8 DEF vars, shared, TypeOK, RingInv, SlotOf, TotalsAgree, LocalsInv
<1> QED
  BY <1>1, <1>2, <1>3, <1>4, <1>5, <1>6, <1>7, <1>8
  DEF Next, sys_produce, sys_consume

\* The inductive invariant holds in every reachable state, for every BUFFER_SIZE.
THEOREM Invariance == Spec => []IInv
BY InitIInv, StepIInv, PTL DEF Spec

\* For all parameters: the ring's indices never drift from its count, and the
\* slots that hold items are exactly the ones between out and in.
THEOREM RingCorrect == Spec => []RingInv
BY Invariance, PTL DEF IInv

\* For all parameters: the running totals and every buffer_status() snapshot
\* satisfy produced - consumed = count, also after the totals have wrapped.
THEOREM TotalsCorrect == Spec => []TotalsAgree
BY Invariance, PTL DEF IInv

-----------------------------------------------------------------------------
\* The items between out and in, oldest first, form a sequence of values.
LEMMA ContentsSeq ==
  ASSUME TypeOK, RingInv
  PROVE  /\ Contents \in Seq(Items)
         /\ Len(Contents) = count
         /\ \A k \in 1 .. count : Contents[k] = buffer[SlotOf(k)]
BY BufferSizeAssumption DEF TypeOK, RingInv, Contents

\* The initial buffer is the empty queue.
LEMMA InitQueue == Init => Queue!Init
<1> SUFFICES ASSUME Init PROVE Queue!Init
  OBVIOUS
<1>1. Contents = <<>>
  BY DEF Init, Contents
<1> QED
  BY <1>1 DEF Init, Queue!Init

\* Every step of the ring is a step of the bounded queue or a stutter.
LEMMA StepQueue == IInv /\ IInv' /\ [Next]_vars => [Queue!Next]_(Queue!vars)
<1> SUFFICES ASSUME IInv, IInv', [Next]_vars PROVE [Queue!Next]_(Queue!vars)
  OBVIOUS
<1> USE BufferSizeAssumption, ItemsAssumption
<1>0. /\ Contents \in Seq(Items) /\ Len(Contents) = count
      /\ Contents' \in Seq(Items) /\ Len(Contents') = count'
      /\ \A k \in 1 .. count : Contents[k] = buffer[SlotOf(k)]
      /\ \A k \in 1 .. count' : Contents'[k] = buffer'[SlotOf(k)']
  <2>1. /\ Contents \in Seq(Items) /\ Len(Contents) = count
        /\ \A k \in 1 .. count : Contents[k] = buffer[SlotOf(k)]
    BY ContentsSeq DEF IInv
  <2>2. /\ Contents' \in Seq(Items) /\ Len(Contents') = count'
        /\ \A k \in 1 .. count' : Contents'[k] = buffer'[SlotOf(k)']
    <3>1. count' \in Nat
      BY DEF IInv, TypeOK
    <3>2. \A k \in 1 .. count' : buffer'[SlotOf(k)'] \in Items
      BY DEF IInv, RingInv
    <3>3. Contents' = [k \in 1 .. count' |-> buffer'[SlotOf(k)']]
      BY DEF Contents
    <3> QED
      BY <3>1, <3>2, <3>3
  <2> QED
    BY <2>1, <2>2
<1>1. ASSUME NEW p \in Procs, buffer_init(p) PROVE Queue!Next
  <2>1. Contents' = <<>> /\ item' = item
    BY <1>0, <1>1 DEF buffer_init
  <2> QED
    BY <2>1 DEF Queue!Next, Queue!Reset
<1>2. ASSUME NEW p \in Procs, NEW i \in Items, Produce(p, i) PROVE Queue!Next
  <2>1. /\ count' = count + 1 /\ count \in 0 .. BUFFER_SIZE - 1
        /\ out' = out /\ out \in 0 .. BUFFER_SIZE - 1
        /\ in = SlotOf(count + 1) /\ in \in 0 .. BUFFER_SIZE - 1
        /\ buffer' = [buffer EXCEPT ![in] = i] /\ item' = item
        /\ DOMAIN buffer = 0 .. BUFFER_SIZE - 1
    BY <1>2 DEF Produce, IInv, TypeOK, RingInv, Slots
  <2>2. \A k \in 1 .. count : Contents'[k] = Contents[k]
    <3> SUFFICES ASSUME NEW k \in 1 .. count PROVE Contents'[k] = Contents[k]
      OBVIOUS
    <3>1. SlotOf(k)' = SlotOf(k) /\ SlotOf(k) # in
          /\ SlotOf(k) \in 0 .. BUFFER_SIZE - 1 /\ k \in 1 .. count'
      BY <2>1 DEF SlotOf
    <3> QED
      BY <1>0, <2>1, <3>1
  <2>3. Contents'[count + 1] = i
    <3>1. count + 1 \in 1 .. count' /\ buffer'[in] = i
      BY <2>1
    <3>2. \A k \in 1 .. count' : SlotOf(k)' = SlotOf(k)
      BY <2>1 DEF SlotOf
    <3> QED
      BY <1>0, <2>1, <3>1, <3>2
  <2>4. Contents' = Append(Contents, i)
    BY <1>0, <2>1, <2>2, <2>3
  <2> QED
    BY <1>0, <2>1, <2>4 DEF Queue!Next, Queue!Put
<1>3. ASSUME NEW p \in Procs, ConsumeTake(p) PROVE Queue!Next
  <2>1. /\ count' = count - 1 /\ count \in 1 .. BUFFER_SIZE
        /\ out \in 0 .. BUFFER_SIZE - 1 /\ buffer' = buffer
        /\ item' = [item EXCEPT ![p] = buffer[out]] /\ item[p] = NoItem
    BY <1>3 DEF ConsumeTake, IInv, TypeOK, LocalsInv, Slots
  <2>2. out' = (IF out + 1 = BUFFER_SIZE THEN 0 ELSE out + 1)
    BY <1>3, <2>1, ModStep DEF ConsumeTake
  <2>3. Head(Contents) = buffer[out] /\ Contents # <<>>
    <3>1. SlotOf(1) = out /\ 1 \in 1 .. count
      BY <2>1 DEF SlotOf
    <3> QED
      BY <1>0, <3>1
  <2>4. \A k \in 1 .. count' : Contents'[k] = Contents[k + 1]
    <3> SUFFICES ASSUME NEW k \in 1 .. count' PROVE Contents'[k] = Contents[k + 1]
      OBVIOUS
    <3>1. SlotOf(k)' = SlotOf(k + 1) /\ k + 1 \in 1 .. count
      BY <2>1, <2>2 DEF SlotOf
    <3> QED
      BY <1>0, <2>1, <3>1
  <2>5. Contents' = Tail(Contents)
    BY <1>0, <2>1, <2>3, <2>4
  <2> QED
    BY <2>1, <2>3, <2>5 DEF Queue!Next, Queue!Take
<1>4. ASSUME NEW p \in Procs, ConsumeCopyout(p) PROVE Queue!Next
  <2>1. Contents' = Contents
    BY <1>4 DEF ConsumeCopyout, shared, Contents, SlotOf
  <2>2. item[p] # NoItem /\ item' = [item EXCEPT ![p] = NoItem]
    BY <1>4 DEF ConsumeCopyout, IInv, LocalsInv
  <2> QED
    BY <2>1, <2>2 DEF Queue!Next, Queue!HandOver
<1>5. ASSUME NEW p \in Procs, NEW b,
             Refuse(p, b) \/ sys_buffer_status(p) \/ StatusCopyout(p)
      PROVE  UNCHANGED (Queue!vars)
  BY <1>5 DEF Refuse, sys_buffer_status, StatusCopyout, shared, Contents,
              SlotOf, Queue!vars
<1>6. CASE UNCHANGED vars
  BY <1>6 DEF vars, shared, Contents, SlotOf, Queue!vars
<1> QED
  BY <1>1, <1>2, <1>3, <1>4, <1>5, <1>6 DEF Next, sys_produce, sys_consume

\* For all parameters: the shared ring behind produce() and consume() behaves
\* as one bounded first-in first-out queue, whatever the interleaving.
THEOREM Refinement == Spec => ImplementsQueue
BY InitQueue, StepQueue, Invariance, PTL DEF Spec, ImplementsQueue, Queue!Spec
=============================================================================
