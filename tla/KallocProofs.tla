---------------------------- MODULE KallocProofs ----------------------------
(***************************************************************************)
(* The allocator for every number of pages and threads.  The inductive     *)
(* invariant is the shape of the list (ListOK) together with who owns what:*)
(* a page on its way into or out of the list is in nobody else's hands     *)
(* (OneOwner) and, like a page in use, was freed by kinit() (Booted).      *)
(***************************************************************************)
EXTENDS Kalloc, TLAPS

\* Only pages that kinit() has reached are in use or on their way.
Booted ==
  /\ \A p \in used : p < boot
  /\ \A t \in Threads : pc[t] # "idle" => r[t] \in Pages /\ r[t] < boot

IInv == TypeOK /\ ListOK /\ OneOwner /\ Booted

\* kinit() starts with an empty list.
LEMMA InitIInv == Init => IInv
<1> SUFFICES ASSUME Init PROVE IInv
  OBVIOUS
<1> USE DEF Init, Pages, None, Junk
<1>1. TypeOK
  BY KallocAssumption DEF TypeOK
<1>2. FreePages = {} /\ InTransit = {}
  BY DEF FreePages, InTransit
<1>3. ListOK
  <2> DEFINE s == [i \in 1 .. nfree |-> 1]
  <2>1. s \in [1 .. nfree -> Pages] /\ 1 .. nfree = {}
    OBVIOUS
  <2>2. IsFreeList(s)
    BY <2>1 DEF IsFreeList
  <2>3. \A i \in 1 .. nfree : FALSE
    BY <2>1
  <2> QED
    BY <2>1, <2>2, <2>3, <1>2 DEF ListOK
<1> QED
  BY <1>1, <1>2, <1>3 DEF IInv, OneOwner, Booted

\* A step that leaves the list, the free pages and their first words alone
\* keeps the list in shape.
LEMMA ListFrame ==
  ASSUME TypeOK, ListOK, freelist' = freelist, nfree' = nfree,
         FreePages' = FreePages, \A p \in FreePages : next'[p] = next[p]
  PROVE  ListOK'
<1>1. PICK s \in [1 .. nfree -> Pages] :
        /\ IsFreeList(s)
        /\ \A i, j \in 1 .. nfree : s[i] = s[j] => i = j
        /\ \A p \in Pages : p \in FreePages <=> \E i \in 1 .. nfree : s[i] = p
  BY DEF ListOK
<1>2. \A i \in 1 .. nfree : next'[s[i]] = next[s[i]]
  BY <1>1
<1>3. IsFreeList(s)'
  BY <1>1, <1>2 DEF IsFreeList
<1>4. s \in [1 .. nfree' -> Pages'] /\ \A i, j \in 1 .. nfree' : s[i] = s[j] => i = j
  BY <1>1 DEF Pages
<1>5. \A p \in Pages' : p \in FreePages' <=> \E i \in 1 .. nfree' : s[i] = p
  BY <1>1 DEF Pages
<1> QED
  BY <1>3, <1>4, <1>5, Zenon DEF ListOK

\* kfree() before the lock: the page changes from one owner to another.
LEMMA StepFree ==
  ASSUME IInv, NEW t \in Threads,
         freerange(t) \/ \E p \in Pages : FreePage(t, p)
  PROVE  IInv' /\ FreePages' = FreePages /\ ret' = ret
<1> USE DEF IInv
<1>1. PICK p \in Pages :
        /\ kfree(t, p)
        /\ \/ /\ p = boot /\ boot' = boot + 1 /\ used' = used
              /\ \A u \in Threads : pc[u] = "idle"
           \/ p \in used /\ used' = used \ {p} /\ boot' = boot /\ boot > N
  BY KallocAssumption DEF freerange, FreePage, TypeOK, Pages
<1>2. /\ pc[t] = "idle" /\ next' = [next EXCEPT ![p] = Junk]
      /\ r' = [r EXCEPT ![t] = p] /\ pc' = [pc EXCEPT ![t] = "link"]
      /\ UNCHANGED <<freelist, nfree, nalloc, ret>>
  BY <1>1 DEF kfree
<1>3. TypeOK'
  <2>1. next' \in [Pages -> Pages \cup {None, Junk}] /\ r' \in [Threads -> Pages \cup {None}]
    BY <1>1, <1>2 DEF TypeOK
  <2>2. pc' \in [Threads -> {"idle", "link", "fill"}] /\ used' \subseteq Pages
    BY <1>1, <1>2 DEF TypeOK
  <2>3. boot' \in 1 .. N + 1
    BY <1>1, KallocAssumption DEF TypeOK, Pages
  <2> QED
    BY <1>2, <2>1, <2>2, <2>3 DEF TypeOK
<1>4. p \notin FreePages /\ p \notin InTransit
  <2>1. CASE p = boot /\ \A u \in Threads : pc[u] = "idle"
    BY <2>1, KallocAssumption DEF FreePages, InTransit, TypeOK
  <2>2. CASE p \in used
    BY <2>2 DEF FreePages, OneOwner
  <2> QED
    BY <1>1, <2>1, <2>2
<1>5. InTransit' = InTransit \cup {p}
  BY <1>2 DEF InTransit, TypeOK
<1>6. FreePages' = FreePages
  BY <1>1, <1>4, <1>5 DEF FreePages, TypeOK, Pages
<1>7. ListOK'
  BY <1>2, <1>4, <1>6, ListFrame DEF TypeOK
<1>8. OneOwner'
  <2>1. (InTransit \cap used = {})'
    BY <1>1, <1>4, <1>5 DEF OneOwner, Booted, TypeOK
  <2>2. \A u, v \in Threads : u # v /\ pc'[u] # "idle" /\ pc'[v] # "idle" => r'[u] # r'[v]
    BY <1>2, <1>4 DEF OneOwner, InTransit, TypeOK
  <2> QED
    BY <2>1, <2>2 DEF OneOwner
<1>9. Booted'
  <2>1. boot \in Int /\ boot' \in Int /\ boot <= boot' /\ p < boot'
    BY <1>1, KallocAssumption DEF Booted, TypeOK, Pages
  <2>2. ASSUME NEW u \in used' PROVE u < boot'
    <3>1. u \in used
      BY <1>1, <2>2
    <3>2. u \in Int
      BY <3>1, KallocAssumption DEF TypeOK, Pages
    <3> QED
      BY <3>1, <3>2, <2>1 DEF Booted
  <2>3. \A u \in Threads : pc'[u] # "idle" => r'[u] \in Pages /\ r'[u] < boot'
    BY <1>1, <1>2, <2>1 DEF Booted, TypeOK, Pages
  <2> QED
    BY <2>2, <2>3 DEF Booted, Pages
<1> QED
  BY <1>2, <1>3, <1>6, <1>7, <1>8, <1>9

\* kfree() under the lock puts its page in front of the list.
LEMMA StepLink ==
  ASSUME IInv, NEW t \in Threads, kfree_link(t)
  PROVE  IInv' /\ r[t] \in Pages \ FreePages /\ FreePages' = FreePages \cup {r[t]}
<1> USE DEF IInv
<1>0. PICK p : p = r[t]
  OBVIOUS
<1>1. p \in Pages /\ p < boot /\ p \in InTransit
  BY <1>0 DEF Booted, kfree_link, InTransit
<1>2. /\ next' = [next EXCEPT ![p] = freelist] /\ freelist' = p /\ nfree' = nfree + 1
      /\ pc[t] = "link" /\ pc' = [pc EXCEPT ![t] = "idle"] /\ r' = [r EXCEPT ![t] = None]
      /\ UNCHANGED <<nalloc, used, boot, ret>>
  BY <1>0 DEF kfree_link
<1>3. TypeOK'
  BY <1>1, <1>2 DEF TypeOK, None
<1>4. InTransit' = InTransit \ {p}
  BY <1>0, <1>2 DEF InTransit, TypeOK, OneOwner
<1>5. p \notin FreePages /\ p \notin used /\ FreePages' = FreePages \cup {p}
  BY <1>1, <1>2, <1>4 DEF FreePages, OneOwner, Pages
<1>6. ListOK'
  <2>1. PICK s \in [1 .. nfree -> Pages] :
          /\ IsFreeList(s)
          /\ \A i, j \in 1 .. nfree : s[i] = s[j] => i = j
          /\ \A g \in Pages : g \in FreePages <=> \E i \in 1 .. nfree : s[i] = g
    BY DEF ListOK
  <2>2. nfree \in Nat
    BY DEF TypeOK
  <2>q. PICK q : q = [i \in 1 .. nfree + 1 |-> IF i = 1 THEN p ELSE s[i - 1]]
    OBVIOUS
  <2>3. q \in [1 .. nfree + 1 -> Pages]
    BY <1>1, <2>2, <2>q
  <2>4. \A i \in 1 .. nfree : s[i] # p /\ q[i + 1] = s[i] /\ i + 1 \in 1 .. nfree + 1
    BY <1>5, <2>1, <2>2, <2>q
  <2>5. q[1] = p /\ 1 \in 1 .. nfree + 1
    BY <2>2, <2>q
  <2>6. \A i \in 1 .. nfree + 1 : i = 1 \/ (i - 1 \in 1 .. nfree /\ q[i] = s[i - 1])
    BY <2>2, <2>q
  <2>7. ASSUME NEW i \in 1 .. nfree + 1, NEW j \in 1 .. nfree + 1, q[i] = q[j]
        PROVE  i = j
    <3>1. CASE i = 1 /\ j # 1
      BY <3>1, <2>7, <2>4, <2>5, <2>6
    <3>2. CASE i # 1 /\ j = 1
      BY <3>2, <2>7, <2>4, <2>5, <2>6
    <3>3. CASE i # 1 /\ j # 1
      <4>1. i - 1 \in 1 .. nfree /\ j - 1 \in 1 .. nfree /\ s[i - 1] = s[j - 1]
        BY <3>3, <2>7, <2>6
      <4>2. i - 1 = j - 1
        BY <4>1, <2>1
      <4> QED
        BY <4>2
    <3> QED
      BY <3>1, <3>2, <3>3
  <2>8. \A x \in Pages : x \in FreePages \cup {p} <=> \E i \in 1 .. nfree + 1 : q[i] = x
    <3>1. ASSUME NEW x \in FreePages PROVE \E i \in 1 .. nfree + 1 : q[i] = x
      <4>1. x \in Pages
        BY DEF FreePages
      <4>2. PICK i \in 1 .. nfree : s[i] = x
        BY <4>1, <2>1
      <4> QED
        BY <4>2, <2>4
    <3>2. ASSUME NEW i \in 1 .. nfree + 1 PROVE q[i] \in FreePages \cup {p}
      BY <2>1, <2>5, <2>6
    <3> QED
      BY <3>1, <3>2, <2>5
  <2>9. ASSUME NEW i \in 1 .. nfree + 1
        PROVE  next'[q[i]] = (IF i < nfree + 1 THEN q[i + 1] ELSE None)
    <3>1. CASE i = 1
      <4>1. next'[q[1]] = freelist
        BY <1>1, <1>2, <2>5 DEF TypeOK
      <4>2. freelist = (IF nfree = 0 THEN None ELSE s[1])
        BY <2>1 DEF IsFreeList
      <4> QED
        BY <3>1, <4>1, <4>2, <2>2, <2>4
    <3>2. CASE i # 1
      <4>1. i - 1 \in 1 .. nfree /\ q[i] = s[i - 1]
        BY <3>2, <2>6
      <4>2. next'[q[i]] = next[s[i - 1]]
        BY <4>1, <1>2, <2>4 DEF TypeOK
      <4>3. next[s[i - 1]] = (IF i - 1 < nfree THEN s[(i - 1) + 1] ELSE None)
        BY <4>1, <2>1 DEF IsFreeList
      <4>4. i < nfree + 1 => q[i + 1] = s[i] /\ i - 1 < nfree /\ (i - 1) + 1 = i
        BY <2>2, <2>4, <3>2
      <4>5. ~(i < nfree + 1) => ~(i - 1 < nfree)
        BY <2>2
      <4> QED
        BY <4>2, <4>3, <4>4, <4>5
    <3> QED
      BY <3>1, <3>2
  <2>10. IsFreeList(q)'
    <3>1. freelist' = q[1] /\ nfree' = nfree + 1 /\ nfree' # 0
      BY <1>2, <2>2, <2>5
    <3> QED
      BY <3>1, <2>9 DEF IsFreeList
  <2>11. q \in [1 .. nfree' -> Pages'] /\ \A i, j \in 1 .. nfree' : q[i] = q[j] => i = j
    BY <1>2, <2>3, <2>7 DEF Pages
  <2>12. \A x \in Pages' : x \in FreePages' <=> \E i \in 1 .. nfree' : q[i] = x
    BY <1>2, <1>5, <2>8 DEF Pages
  <2> QED
    BY <2>10, <2>11, <2>12, Zenon DEF ListOK
<1>7. OneOwner'
  <2>1. (InTransit \cap used = {})'
    BY <1>2, <1>4 DEF OneOwner
  <2> QED
    BY <1>2, <2>1 DEF OneOwner, TypeOK
<1>8. Booted'
  BY <1>2 DEF Booted, TypeOK, Pages
<1> QED
  BY <1>0, <1>1, <1>3, <1>5, <1>6, <1>7, <1>8

\* kalloc() under the lock takes the first page off the list, which was free.
LEMMA StepAlloc ==
  ASSUME IInv, NEW t \in Threads, kalloc(t)
  PROVE  IInv' /\ freelist \in FreePages /\ FreePages' = FreePages \ {freelist}
<1> USE DEF IInv
<1>0. PICK p : p = freelist
  OBVIOUS
<1>1. /\ p \in Pages /\ pc[t] = "idle" /\ boot > N
      /\ r' = [r EXCEPT ![t] = p] /\ ret' = [ret EXCEPT ![t] = p]
      /\ freelist' = next[p] /\ nfree' = nfree - 1 /\ nalloc' = (nalloc + 1) % CountMod
      /\ pc' = [pc EXCEPT ![t] = "fill"]
      /\ UNCHANGED <<next, used, boot>>
  BY <1>0 DEF kalloc, TypeOK
<1>2. PICK s \in [1 .. nfree -> Pages] :
        /\ IsFreeList(s)
        /\ \A i, j \in 1 .. nfree : s[i] = s[j] => i = j
        /\ \A x \in Pages : x \in FreePages <=> \E i \in 1 .. nfree : s[i] = x
  BY DEF ListOK
<1>3. nfree \in Nat /\ nfree # 0 /\ p = s[1] /\ 1 \in 1 .. nfree
  BY <1>0, <1>2 DEF IsFreeList, TypeOK, kalloc
<1>4. p \in FreePages
  BY <1>1, <1>2, <1>3
<1>5. next[p] = (IF 1 < nfree THEN s[2] ELSE None)
  BY <1>2, <1>3 DEF IsFreeList
<1>6. p < boot /\ p \notin used /\ p \notin InTransit
  BY <1>4 DEF FreePages
<1>7. TypeOK'
  <2>1. freelist' \in Pages \cup {None} /\ nfree' \in Nat
    <3>1. nfree' \in Nat
      BY <1>1, <1>3
    <3>2. 1 < nfree => 2 \in 1 .. nfree
      BY <1>3
    <3>3. 1 < nfree => s[2] \in Pages
      BY <3>2
    <3> QED
      BY <1>1, <1>5, <3>1, <3>3
  <2>2. nalloc' \in 0 .. CountMod - 1
    BY <1>1, KallocAssumption DEF TypeOK
  <2> QED
    BY <1>1, <2>1, <2>2 DEF TypeOK
<1>8. InTransit' = InTransit \cup {p}
  BY <1>1 DEF InTransit, TypeOK
<1>9. FreePages' = FreePages \ {p}
  BY <1>1, <1>8 DEF FreePages
<1>10. ListOK'
  <2>1. PICK q : q = [i \in 1 .. nfree - 1 |-> s[i + 1]]
    OBVIOUS
  <2>2. \A i \in 1 .. nfree - 1 : i \in 1 .. nfree /\ i + 1 \in 1 .. nfree /\ q[i] = s[i + 1]
    BY <1>3, <2>1
  <2>3. q \in [1 .. nfree - 1 -> Pages]
    BY <2>1, <2>2
  <2>4. ASSUME NEW i \in 1 .. nfree - 1, NEW j \in 1 .. nfree - 1, q[i] = q[j]
        PROVE  i = j
    <3>1. i + 1 = j + 1
      BY <2>2, <2>4, <1>2
    <3> QED
      BY <3>1
  <2>5. ASSUME NEW x \in Pages
        PROVE  x \in FreePages' <=> \E i \in 1 .. nfree - 1 : q[i] = x
    <3>1. ASSUME x \in FreePages, x # p PROVE \E i \in 1 .. nfree - 1 : q[i] = x
      <4>1. PICK j \in 1 .. nfree : s[j] = x
        BY <3>1, <1>2
      <4>2. j - 1 \in 1 .. nfree - 1 /\ (j - 1) + 1 = j
        BY <3>1, <4>1, <1>3
      <4> QED
        BY <4>1, <4>2, <2>2
    <3>2. ASSUME NEW i \in 1 .. nfree - 1, q[i] = x PROVE x \in FreePages /\ x # p
      <4>1. i + 1 # 1
        OBVIOUS
      <4> QED
        BY <3>2, <4>1, <2>2, <1>2, <1>3
    <3> QED
      BY <3>1, <3>2, <1>9
  <2>6. freelist' = (IF nfree' = 0 THEN None ELSE q[1])
    <3>1. CASE nfree = 1
      BY <3>1, <1>1, <1>3, <1>5
    <3>2. CASE nfree # 1
      <4>1. 1 < nfree /\ 1 \in 1 .. nfree - 1 /\ nfree - 1 # 0
        BY <3>2, <1>3
      <4> QED
        BY <4>1, <1>1, <1>5, <2>2
    <3> QED
      BY <3>1, <3>2
  <2>7. ASSUME NEW i \in 1 .. nfree - 1
        PROVE  next'[q[i]] = (IF i < nfree - 1 THEN q[i + 1] ELSE None)
    <3>1. next'[q[i]] = (IF i + 1 < nfree THEN s[(i + 1) + 1] ELSE None)
      BY <1>1, <1>2, <2>2 DEF IsFreeList
    <3>2. i < nfree - 1 <=> i + 1 < nfree
      BY <1>3
    <3>3. i < nfree - 1 => i + 1 \in 1 .. nfree - 1
      BY <1>3
    <3> QED
      BY <3>1, <3>2, <3>3, <2>2
  <2>8. IsFreeList(q)'
    BY <1>1, <2>6, <2>7 DEF IsFreeList
  <2>9. q \in [1 .. nfree' -> Pages'] /\ \A i, j \in 1 .. nfree' : q[i] = q[j] => i = j
    BY <1>1, <2>3, <2>4 DEF Pages
  <2>10. \A x \in Pages' : x \in FreePages' <=> \E i \in 1 .. nfree' : q[i] = x
    BY <1>1, <2>5 DEF Pages
  <2> QED
    BY <2>8, <2>9, <2>10, Zenon DEF ListOK
<1>11. OneOwner'
  <2>1. (InTransit \cap used = {})'
    BY <1>1, <1>6, <1>8 DEF OneOwner
  <2>2. \A u, v \in Threads : u # v /\ pc'[u] # "idle" /\ pc'[v] # "idle" => r'[u] # r'[v]
    BY <1>1, <1>6 DEF OneOwner, InTransit, TypeOK
  <2> QED
    BY <2>1, <2>2 DEF OneOwner
<1>12. Booted'
  BY <1>1, <1>6 DEF Booted, TypeOK, Pages
<1> QED
  BY <1>0, <1>4, <1>7, <1>9, <1>10, <1>11, <1>12

\* kalloc() outside the lock, and whatever an owner writes: no free page is
\* touched.
LEMMA StepOwner ==
  ASSUME IInv,
         \/ \E t \in Threads : kalloc_fill(t) \/ kalloc_fail(t)
         \/ \E p \in Pages, v \in Pages \cup {None} : Write(p, v)
  PROVE  IInv' /\ FreePages' = FreePages
<1> USE DEF IInv
<1>1. ASSUME NEW t \in Threads, kalloc_fill(t)
      PROVE  IInv' /\ FreePages' = FreePages
  <2>0. PICK p : p = r[t]
    OBVIOUS
  <2>1. /\ p \in Pages /\ p < boot /\ p \in InTransit /\ pc[t] = "fill"
        /\ next' = [next EXCEPT ![p] = Junk] /\ used' = used \cup {p}
        /\ pc' = [pc EXCEPT ![t] = "idle"] /\ r' = [r EXCEPT ![t] = None]
        /\ UNCHANGED <<freelist, nfree, nalloc, boot, ret>>
    BY <1>1, <2>0 DEF kalloc_fill, Booted, InTransit
  <2>2. TypeOK'
    BY <2>1 DEF TypeOK
  <2>3. InTransit' = InTransit \ {p}
    BY <2>0, <2>1 DEF InTransit, TypeOK, OneOwner
  <2>4. FreePages' = FreePages /\ p \notin FreePages
    BY <2>1, <2>3 DEF FreePages, Pages
  <2>5. ListOK'
    BY <2>1, <2>4, ListFrame DEF TypeOK
  <2>6. OneOwner'
    <3>1. (InTransit \cap used = {})'
      BY <2>1, <2>3 DEF OneOwner
    <3> QED
      BY <2>1, <3>1 DEF OneOwner, TypeOK
  <2>7. Booted'
    BY <2>1 DEF Booted, TypeOK, Pages
  <2> QED
    BY <2>2, <2>4, <2>5, <2>6, <2>7
<1>2. ASSUME NEW t \in Threads, kalloc_fail(t)
      PROVE  IInv' /\ FreePages' = FreePages
  <2>1. TypeOK' /\ FreePages' = FreePages /\ InTransit' = InTransit
    BY <1>2 DEF kalloc_fail, TypeOK, FreePages, InTransit, Pages, None
  <2>2. ListOK'
    BY <1>2, <2>1, ListFrame DEF kalloc_fail
  <2> QED
    BY <1>2, <2>1, <2>2 DEF kalloc_fail, OneOwner, Booted, Pages
<1>3. ASSUME NEW p \in Pages, NEW v \in Pages \cup {None}, Write(p, v)
      PROVE  IInv' /\ FreePages' = FreePages
  <2>1. TypeOK' /\ FreePages' = FreePages /\ InTransit' = InTransit /\ p \notin FreePages
    BY <1>3 DEF Write, TypeOK, FreePages, InTransit, Pages, None
  <2>2. ListOK'
    BY <1>3, <2>1, ListFrame DEF Write, TypeOK
  <2> QED
    BY <1>3, <2>1, <2>2 DEF Write, OneOwner, Booted, Pages
<1> QED
  BY <1>1, <1>2, <1>3

\* Every step preserves the invariant.
LEMMA StepIInv == IInv /\ [Next]_vars => IInv'
<1> SUFFICES ASSUME IInv, [Next]_vars PROVE IInv'
  OBVIOUS
<1>1. CASE UNCHANGED vars
  <2>1. TypeOK' /\ FreePages' = FreePages /\ InTransit' = InTransit
    BY <1>1 DEF IInv, vars, TypeOK, FreePages, InTransit, Pages, None, Junk
  <2>2. ListOK'
    BY <1>1, <2>1, ListFrame DEF IInv, vars
  <2> QED
    BY <1>1, <2>1, <2>2 DEF IInv, vars, OneOwner, Booted, Pages
<1>2. CASE Next
  BY <1>2, StepFree, StepLink, StepAlloc, StepOwner DEF Next
<1> QED
  BY <1>1, <1>2

\* The invariant holds in every reachable state.
THEOREM Invariance == Spec => []IInv
  BY InitIInv, StepIInv, PTL DEF Spec

\* The free list is always the free pages, each once, and nfree its length.
THEOREM ListCorrect == Spec => []ListOK
<1>1. IInv => ListOK
  BY DEF IInv
<1> QED
  BY <1>1, Invariance, PTL

\* No page is ever in two hands.
THEOREM OneOwnerHolds == Spec => []OneOwner
<1>1. IInv => OneOwner
  BY DEF IInv
<1> QED
  BY <1>1, Invariance, PTL

\* An empty list means that no page is free.
LEMMA EmptyList ==
  ASSUME IInv, freelist = None
  PROVE  FreePages = {}
<1>1. PICK s \in [1 .. nfree -> Pages] :
        /\ IsFreeList(s)
        /\ \A x \in Pages : x \in FreePages <=> \E i \in 1 .. nfree : s[i] = x
  BY DEF ListOK, IInv
<1>2. nfree = 0
  BY <1>1 DEF IsFreeList, IInv, TypeOK, Pages, None
<1> QED
  BY <1>1, <1>2 DEF FreePages

\* The allocator starts as the abstract one does.
LEMMA InitAllocator == Init => A!Init
  BY DEF Init, A!Init, FreePages, InTransit, Pages, None, A!None

\* Every step of the allocator is one of the abstract one, or none.
LEMMA StepAllocator == IInv /\ [Next]_vars => [A!Next]_(A!vars)
<1> SUFFICES ASSUME IInv, [Next]_vars PROVE [A!Next]_(A!vars)
  OBVIOUS
<1>1. CASE UNCHANGED vars
  BY <1>1 DEF vars, A!vars, FreePages, InTransit, Pages
<1>2. ASSUME NEW t \in Threads, freerange(t) \/ \E p \in Pages : FreePage(t, p)
      PROVE  UNCHANGED A!vars
  BY <1>2, StepFree DEF A!vars
<1>3. ASSUME NEW t \in Threads, kfree_link(t)
      PROVE  A!Free
  BY <1>3, StepLink DEF A!Free, kfree_link
<1>4. ASSUME NEW t \in Threads, kalloc(t)
      PROVE  A!Alloc(t)
  BY <1>4, StepAlloc DEF A!Alloc, kalloc
<1>5. ASSUME NEW t \in Threads, kalloc_fail(t)
      PROVE  A!Fail(t)
  BY <1>5, StepOwner, EmptyList DEF A!Fail, kalloc_fail, A!None, None
<1>6. ASSUME NEW t \in Threads, kalloc_fill(t)
      PROVE  UNCHANGED A!vars
  BY <1>6, StepOwner DEF A!vars, kalloc_fill
<1>7. ASSUME NEW p \in Pages, NEW v \in Pages \cup {None}, Write(p, v)
      PROVE  UNCHANGED A!vars
  BY <1>7, StepOwner DEF A!vars, Write
<1> QED
  BY <1>1, <1>2, <1>3, <1>4, <1>5, <1>6, <1>7 DEF Next, A!Next

\* kalloc.c implements the abstract allocator.
THEOREM Refinement == Spec => ImplementsAllocator
  BY Invariance, InitAllocator, StepAllocator, PTL DEF Spec, ImplementsAllocator, A!Spec
=============================================================================
