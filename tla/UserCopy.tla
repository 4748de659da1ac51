------------------------------ MODULE UserCopy ------------------------------
(***************************************************************************)
(* How the kernel reaches the memory of a process: walkaddr(), vmfault(),  *)
(* copyin(), copyout() and copyinstr() of kernel/vm.c, the fetch functions *)
(* of kernel/syscall.c, and sys_encrypt(), which reads, changes and writes *)
(* back a buffer in chunks.                                                *)
(*                                                                         *)
(* The memory of one process, which waits for its system call: its pages,  *)
(* the bytes behind its addresses, and the pages kalloc() can still give.  *)
(* A call is a function of that memory and returns [ret, m] or the like.   *)
(***************************************************************************)
EXTENDS Integers, Sequences, FiniteSets

CONSTANTS PGSIZE,    \* bytes in a page
          MAXVA,     \* the first address that no page table reaches
          AddrMod,   \* 2^64: addresses wrap
          Layouts,   \* sizes and page tables of a process: [sz, pte]
          Frees,     \* how many pages kalloc() may have left
          Chunk, MaxLen,  \* the 512 and the 4096 of sys_encrypt()
          Word       \* sizeof(uint64)

Addrs == 0 .. AddrMod - 1
Pages == 0 .. MAXVA \div PGSIZE - 1
PageOf(va) == va \div PGSIZE
Plus(a, n) == (a + n) % AddrMod
MinOf(i, j) == IF i < j THEN i ELSE j

\* The size, the flags of each page ("none" where PTE_V is not set, "guard"
\* without PTE_U, "ro" without PTE_W, "rw"), the bytes, and the free pages.
VARIABLE m

Init ==
  \E l \in Layouts, f \in Frees :
    m = [sz   |-> l.sz,
         pte  |-> [g \in Pages |-> IF g \in DOMAIN l.pte THEN l.pte[g] ELSE "none"],
         byte |-> [a \in 0 .. MAXVA - 1 |-> a % 2],
         free |-> f]
-----------------------------------------------------------------------------
\* walkaddr() finds a physical page.
walkaddr(mm, va) == va < MAXVA /\ mm.pte[PageOf(va)] \in {"ro", "rw"}
ismapped(mm, va) == va < MAXVA /\ mm.pte[PageOf(va)] # "none"

\* vmfault() can map the page; the memory when it does.
CanFault(mm, va) == va < mm.sz /\ ~ismapped(mm, va) /\ mm.free > 0
vmfault(mm, va) ==
  [mm EXCEPT !.pte[PageOf(va)] = "rw",
             !.byte = [a \in DOMAIN @ |-> IF PageOf(a) = PageOf(va) THEN 0 ELSE @[a]],
             !.free = @ - 1]

\* The memory with the page of va in it, when walkaddr() or vmfault() finds one.
Reachable(mm, va) == walkaddr(mm, va) \/ CanFault(mm, va)
Faulted(mm, va) == IF walkaddr(mm, va) THEN mm ELSE vmfault(mm, va)

RECURSIVE copyin(_, _, _)
copyin(mm, srcva, len) ==
  IF len = 0 THEN [ret |-> 0, m |-> mm, dst |-> <<>>]
  ELSE IF ~Reachable(mm, PageOf(srcva) * PGSIZE) THEN [ret |-> -1, m |-> mm, dst |-> <<>>]
  ELSE LET va0 == PageOf(srcva) * PGSIZE
           f == Faulted(mm, va0)
           n == MinOf(PGSIZE - (srcva - va0), len)
           rest == copyin(f, Plus(va0, PGSIZE), len - n)
       IN  [rest EXCEPT !.dst = [i \in 1 .. n |-> f.byte[srcva + i - 1]] \o @]

RECURSIVE copyout(_, _, _)
copyout(mm, dstva, src) ==
  IF src = <<>> THEN [ret |-> 0, m |-> mm]
  ELSE IF PageOf(dstva) * PGSIZE >= MAXVA \/ ~Reachable(mm, PageOf(dstva) * PGSIZE)
       THEN [ret |-> -1, m |-> mm]
  ELSE LET va0 == PageOf(dstva) * PGSIZE
           f == Faulted(mm, va0)
           n == MinOf(PGSIZE - (dstva - va0), Len(src))
           written == [f EXCEPT !.byte = [a \in DOMAIN @ |->
                         IF a \in dstva .. dstva + n - 1 THEN src[a - dstva + 1] ELSE @[a]]]
       IN  IF f.pte[PageOf(va0)] # "rw" THEN [ret |-> -1, m |-> f]
           ELSE copyout(written, Plus(va0, PGSIZE), SubSeq(src, n + 1, Len(src)))

\* copyinstr() with its inner loop; it does not call vmfault().
RECURSIVE copyinstr(_, _, _)
copyinstr(mm, srcva, max) ==
  IF max = 0 \/ ~walkaddr(mm, srcva) THEN [ret |-> -1, dst |-> <<>>]
  ELSE IF mm.byte[srcva] = 0 THEN [ret |-> 0, dst |-> <<0>>]
  ELSE LET rest == copyinstr(mm, Plus(srcva, 1), max - 1)
       IN  [rest EXCEPT !.dst = <<mm.byte[srcva]>> \o @]

\* "both tests needed, in case of overflow"
fetchaddr(mm, addr) ==
  IF addr >= mm.sz \/ Plus(addr, Word) > mm.sz THEN [ret |-> -1, m |-> mm, dst |-> <<>>]
  ELSE copyin(mm, addr, Word)

fetchstr(mm, addr, max) ==
  LET r == copyinstr(mm, addr, max) IN IF r.ret < 0 THEN -1 ELSE Len(r.dst) - 1

\* ^ ENCRYPT_KEY, on the bit that a byte has here.
Xor(b) == 1 - b

\* The loop of sys_encrypt(), with some bytes processed.
RECURSIVE Encrypt(_, _, _, _)
Encrypt(mm, addr, len, processed) ==
  IF processed >= len THEN [ret |-> len, m |-> mm]
  ELSE LET at == Plus(addr, processed)
           in == copyin(mm, at, MinOf(len - processed, Chunk))
           out == copyout(in.m, at, [i \in 1 .. Len(in.dst) |-> Xor(in.dst[i])])
       IN  IF in.ret < 0 THEN [ret |-> -1, m |-> in.m]
           ELSE IF out.ret < 0 THEN [ret |-> -1, m |-> out.m]
           ELSE Encrypt(out.m, addr, len, processed + Len(in.dst))

\* sys_decrypt() is the same call.
sys_encrypt(mm, addr, len) ==
  IF len <= 0 \/ len > MaxLen THEN [ret |-> -1, m |-> mm] ELSE Encrypt(mm, addr, len, 0)

Lens == 0 .. MaxLen + 1

Next == \E addr \in Addrs, len \in Lens : m' = sys_encrypt(m, addr, len).m
-----------------------------------------------------------------------------
Span(addr, len) == {Plus(addr, i) : i \in 0 .. len - 1}

\* The process may use every byte of a range: its pages are mapped as the copy
\* needs them, or below the size, not mapped, and there is memory for them all.
Usable(S, flags) ==
  LET lazy == {PageOf(a) : a \in {b \in S : b < MAXVA /\ m.pte[PageOf(b)] = "none"}}
  IN  /\ \A a \in S : a < MAXVA /\ (m.pte[PageOf(a)] \in flags
                                    \/ (PageOf(a) \in lazy /\ PageOf(a) * PGSIZE < m.sz))
      /\ Cardinality(lazy) <= m.free

\* The byte a process sees at an address, with lazy pages zero.
Seen(mm, a) == IF mm.pte[PageOf(a)] = "none" THEN 0 ELSE mm.byte[a]
SeenAll(mm) == [a \in 0 .. MAXVA - 1 |-> Seen(mm, a)]
Flipped(k, addr) ==
  [a \in 0 .. MAXVA - 1 |-> IF a \in Span(addr, k) THEN Xor(Seen(m, a)) ELSE Seen(m, a)]

\* copyin(), copyinstr() and fetchaddr() succeed exactly when the process may
\* use all of the bytes, also next to the ends of the address space, and give
\* back what the process would see there.
CopiesExact ==
  \A addr \in Addrs, len \in Lens :
    LET in == copyin(m, addr, len)
        word == fetchaddr(m, addr)
        str == copyinstr(m, addr, len)
        nul == {i \in 0 .. len - 1 : Usable(Span(addr, i + 1), {"ro", "rw"})
                                     /\ Seen(m, Plus(addr, i)) = 0}
    IN  /\ (in.ret = 0) = Usable(Span(addr, len), {"ro", "rw"})
        /\ in.ret = 0 => in.dst = [i \in 1 .. len |-> Seen(m, addr + i - 1)]
        /\ SeenAll(in.m) = SeenAll(m)
        /\ (word.ret = 0) = (addr + Word <= m.sz /\ Usable(Span(addr, Word), {"ro", "rw"}))
        /\ str.ret = 0 => /\ Len(str.dst) - 1 \in nul
                          /\ \A i \in 1 .. Len(str.dst) - 1 : str.dst[i] # 0
                          /\ fetchstr(m, addr, len) = Len(str.dst) - 1
        /\ nul # {} /\ (\A a \in Span(addr, len) : walkaddr(m, a)) => str.ret = 0

\* sys_encrypt() changes the bytes of its buffer and no other.  When it fails
\* it has changed a prefix that ends between two chunks or between two pages,
\* and encrypting what it has accepted twice gives back the buffer.
EncryptExact ==
  \A addr \in Addrs, len \in Lens :
    LET r == sys_encrypt(m, addr, len)
        ok == len \in 1 .. MaxLen /\ Usable(Span(addr, len), {"rw"})
        twice == sys_encrypt(r.m, addr, len)
    IN  /\ (r.ret = len) = ok
        /\ ok => SeenAll(r.m) = Flipped(len, addr) /\ SeenAll(twice.m) = SeenAll(m)
        /\ ~ok => /\ r.ret = -1
                  /\ \E k \in 0 .. len : /\ SeenAll(r.m) = Flipped(k, addr)
                                         /\ (k % Chunk = 0 \/ Plus(addr, k) % PGSIZE = 0)
        /\ Cardinality({g \in Pages : r.m.pte[g] = "none"}) - r.m.free
             = Cardinality({g \in Pages : m.pte[g] = "none"}) - m.free
=============================================================================
