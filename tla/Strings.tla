------------------------------ MODULE Strings ------------------------------
(***************************************************************************)
(* The loops of kernel/string.c and of the user library: user/ulib.c and   *)
(* printint() of the two printf.c.  Memory is a function from addresses to *)
(* bytes; a function that writes returns the new memory.  Where kernel and *)
(* library have the same loop there is one definition; memmove() differs,  *)
(* and the library's is u_memmove.                                         *)
(***************************************************************************)
EXTENDS Integers, Sequences, FiniteSets

CONSTANTS NBYTES,   \* bytes of memory
          Bytes,    \* their values, with the NUL 0
          Inputs    \* what read() may find before gets()

newline == 1    \* the byte that ends a line of input
Addr == 0 .. NBYTES - 1
UintMax == 31   \* 2^5 - 1 for the 2^64 - 1 of printint()

VARIABLE mem

Init == mem = [a \in Addr |-> 0]
-----------------------------------------------------------------------------
RECURSIVE memset(_, _, _, _)
memset(m, dst, c, n) == IF n = 0 THEN m ELSE memset([m EXCEPT ![dst] = c], dst + 1, c, n - 1)

RECURSIVE memcmp(_, _, _, _)
memcmp(m, s1, s2, n) ==
  IF n = 0 THEN 0 ELSE IF m[s1] # m[s2] THEN m[s1] - m[s2] ELSE memcmp(m, s1 + 1, s2 + 1, n - 1)

\* while(n-- > 0) *d++ = *s++;
RECURSIVE Forward(_, _, _, _)
Forward(m, d, s, n) ==
  IF n = 0 THEN m ELSE Forward([m EXCEPT ![d] = m[s]], d + 1, s + 1, n - 1)

\* d += n; s += n; while(n-- > 0) *--d = *--s;
RECURSIVE Backward(_, _, _, _)
Backward(m, d, s, n) ==
  IF n = 0 THEN m ELSE Backward([m EXCEPT ![d + n - 1] = m[s + n - 1]], d, s, n - 1)

\* Mutant: the test for an overlap is off by one.
memmove_late(m, dst, src, n) ==
  IF src < dst /\ src + n > dst + 1 THEN Backward(m, dst, src, n) ELSE Forward(m, dst, src, n)

memmove(m, dst, src, n) ==
  IF src < dst /\ src + n > dst THEN Backward(m, dst, src, n) ELSE Forward(m, dst, src, n)

u_memmove(m, dst, src, n) ==
  IF src > dst THEN Forward(m, dst, src, n) ELSE Backward(m, dst, src, n)

RECURSIVE strncmp(_, _, _, _)
strncmp(m, p, q, n) ==
  IF n > 0 /\ m[p] # 0 /\ m[p] = m[q] THEN strncmp(m, p + 1, q + 1, n - 1)
  ELSE IF n = 0 THEN 0 ELSE m[p] - m[q]

RECURSIVE strcmp(_, _, _)
strcmp(m, p, q) ==
  IF m[p] # 0 /\ m[p] = m[q] THEN strcmp(m, p + 1, q + 1) ELSE m[p] - m[q]

\* while(n-- > 0 && (*s++ = *t++) != 0); with n, s and the memory at its end.
RECURSIVE CopyString(_, _, _, _)
CopyString(m, s, t, n) ==
  IF n = 0 THEN [mem |-> m, s |-> s, n |-> 0]
  ELSE LET next == [m EXCEPT ![s] = m[t]]
       IN  IF m[t] = 0 THEN [mem |-> next, s |-> s + 1, n |-> n - 1]
           ELSE CopyString(next, s + 1, t + 1, n - 1)

strncpy(m, s, t, n) ==
  LET r == CopyString(m, s, t, n) IN memset(r.mem, r.s, 0, r.n)

\* --n > 0 leaves a byte for the NUL, which goes behind the copied one, if any.
safestrcpy(m, s, t, n) ==
  IF n <= 0 THEN m
  ELSE LET r == CopyString(m, s, t, n - 1) IN [r.mem EXCEPT ![r.s] = 0]

strcpy(m, s, t) == CopyString(m, s, t, NBYTES).mem

RECURSIVE strlen(_, _)
strlen(m, s) == IF m[s] = 0 THEN 0 ELSE 1 + strlen(m, s + 1)

\* The null pointer is -1 here.
RECURSIVE strchr(_, _, _)
strchr(m, s, c) == IF m[s] = 0 THEN -1 ELSE IF m[s] = c THEN s ELSE strchr(m, s + 1, c)

\* The loop of gets(), with i bytes read and the rest of the input to come.
RECURSIVE Line(_, _, _, _, _)
Line(m, buf, i, max, input) ==
  IF i + 1 >= max \/ input = <<>> THEN [m EXCEPT ![buf + i] = 0]
  ELSE LET next == [m EXCEPT ![buf + i] = input[1]]
       IN  IF input[1] = newline THEN [next EXCEPT ![buf + i + 1] = 0]
           ELSE Line(next, buf, i + 1, max, Tail(input))

gets(m, buf, max, input) == Line(m, buf, 0, max, input)

\* The digits that printint() writes to its buffer, the last one first.
RECURSIVE Digits(_, _)
Digits(x, base) == <<x % base>> \o IF x \div base = 0 THEN <<>> ELSE Digits(x \div base, base)

\* printint() of the xx whose bits are those of the unsigned x: the sign, and
\* the digits in the order they are printed.
printint(x, base, sign) ==
  LET neg == sign /\ x > UintMax \div 2
      d == Digits(IF neg THEN UintMax + 1 - x ELSE x, base)
  IN  [neg |-> neg, digits |-> [i \in 1 .. Len(d) |-> d[Len(d) + 1 - i]]]
-----------------------------------------------------------------------------
\* Ranges that lie in the memory, and addresses of strings that end in it.
Fits(a, n) == a + n <= NBYTES
IsString(m, s) == \E a \in s .. NBYTES - 1 : m[a] = 0
Apart(s, t, n) == s + n <= t \/ t + n <= s

Next ==
  \E d, s \in Addr, n \in 0 .. NBYTES :
    /\ Fits(d, n) /\ Fits(s, n)
    /\ \/ \E c \in Bytes : mem' = memset(mem, d, c, n)
       \/ mem' = memmove(mem, d, s, n)
       \/ mem' = u_memmove(mem, d, s, n)
       \/ Apart(d, s, n) /\ mem' = strncpy(mem, d, s, n)
       \/ Apart(d, s, n) /\ mem' = safestrcpy(mem, d, s, n)
       \/ n > 0 /\ \E input \in Inputs : mem' = gets(mem, d, n, input)
       \/ /\ IsString(mem, s) /\ Apart(d, s, strlen(mem, s) + 1)
          /\ Fits(d, strlen(mem, s) + 1) /\ mem' = strcpy(mem, d, s)
-----------------------------------------------------------------------------
Least(S) == CHOOSE i \in S : \A j \in S : i <= j

\* The string at an address.
Str(m, s) == [i \in 1 .. Least({a \in s .. NBYTES - 1 : m[a] = 0}) - s |-> m[s + i - 1]]
\* Memory with a sequence of bytes written at an address.
Put(m, d, bytes) == [a \in Addr |-> IF a \in d .. d + Len(bytes) - 1 THEN bytes[a - d + 1] ELSE m[a]]
Range(m, s, n) == [i \in 1 .. n |-> m[s + i - 1]]
Zeros(n) == [i \in 1 .. n |-> 0]
MinOf(i, j) == IF i < j THEN i ELSE j
\* The first place where two ranges differ, or where a string ends, decides.
Order(m, a, b, D) == IF D = {} THEN 0 ELSE m[a + Least(D)] - m[b + Least(D)]

\* memset(), memcpy() and both memmove()s move what was there before, however
\* the two ranges overlap, and touch nothing else; memcmp() looks at the first
\* byte that differs.
MovesExact ==
  \A d, s \in Addr, n \in 0 .. NBYTES : Fits(d, n) /\ Fits(s, n) =>
    /\ memmove(mem, d, s, n) = Put(mem, d, Range(mem, s, n))
    /\ u_memmove(mem, d, s, n) = Put(mem, d, Range(mem, s, n))
    /\ \A c \in Bytes : memset(mem, d, c, n) = Put(mem, d, [i \in 1 .. n |-> c])
    /\ memcmp(mem, d, s, n) = Order(mem, d, s, {i \in 0 .. n - 1 : mem[d + i] # mem[s + i]})

\* strncpy() pads to n bytes and may leave no NUL, safestrcpy() always leaves
\* one, and neither writes more than n bytes; strings compare as they should.
StringsExact ==
  \A d, s \in Addr : IsString(mem, s) =>
    LET t == Str(mem, s)
        len == Len(t)
    IN  /\ strlen(mem, s) = len
        /\ \A c \in Bytes \ {0} :
             LET at == {i \in 1 .. len : t[i] = c}
             IN  strchr(mem, s, c) = IF at = {} THEN -1 ELSE s + Least(at) - 1
        /\ Fits(d, len + 1) /\ Apart(d, s, len + 1) => strcpy(mem, d, s) = Put(mem, d, Append(t, 0))
        /\ IsString(mem, d) =>
             LET D == {i \in 0 .. MinOf(len, Len(Str(mem, d))) :
                         mem[d + i] # mem[s + i] \/ mem[d + i] = 0}
             IN  /\ strcmp(mem, d, s) = Order(mem, d, s, D)
                 /\ \A n \in 0 .. NBYTES :
                      strncmp(mem, d, s, n) = Order(mem, d, s, {i \in D : i < n})
        /\ \A n \in 1 .. NBYTES : Fits(d, n) /\ Fits(s, n) /\ Apart(d, s, n) =>
             LET k == MinOf(len, n)
                 safe == safestrcpy(mem, d, s, n)
             IN  /\ strncpy(mem, d, s, n) = Put(mem, d, SubSeq(t, 1, k) \o Zeros(n - k))
                 /\ IsString(safe, d) /\ Str(safe, d) = SubSeq(t, 1, MinOf(len, n - 1))
                 /\ \A a \in Addr \ (d .. d + n - 1) : safe[a] = mem[a]

\* gets() keeps the input up to and with the first newline, cut to max - 1.
GetsExact ==
  \A d \in Addr, max \in 1 .. NBYTES, input \in Inputs : Fits(d, max) =>
    LET ends == {i \in 1 .. Len(input) : input[i] = newline}
        line == IF ends = {} THEN input ELSE SubSeq(input, 1, Least(ends))
    IN  gets(mem, d, max, input) = Put(mem, d, SubSeq(line, 1, MinOf(Len(line), max - 1)) \o <<0>>)

RECURSIVE Value(_, _)
Value(d, base) == IF d = <<>> THEN 0 ELSE Value(SubSeq(d, 1, Len(d) - 1), base) * base + d[Len(d)]

\* printint() prints the number it is given, the most negative one included,
\* without leading zeros.
PrintsExact ==
  \A x \in 0 .. UintMax, base \in {2, 10, 16}, sign \in BOOLEAN :
    LET r == printint(x, base, sign)
        v == Value(r.digits, base)
    IN  /\ (IF r.neg THEN -v ELSE v) = IF sign /\ x > UintMax \div 2 THEN x - UintMax - 1 ELSE x
        /\ r.digits[1] = 0 => Len(r.digits) = 1
=============================================================================
