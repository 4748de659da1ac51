----------------------------- MODULE ByteFiles -----------------------------
(***************************************************************************)
(* What readi() and writei() promise to read() and write(): a file is a    *)
(* sequence of bytes with an offset; a write puts bytes at the offset, a   *)
(* read takes bytes from there, up to the end, and both move the offset    *)
(* past them in the same step.  A write may stop early.                    *)
(***************************************************************************)
EXTENDS Integers, Sequences

CONSTANTS Files, Bytes,
          MaxLen   \* bound on a request

VARIABLES contents,   \* the bytes of each file
          off         \* the offset of each open file

vars == <<contents, off>>

Init ==
  /\ contents = [f \in Files |-> <<>>]
  /\ off = [f \in Files |-> 0]

\* c with the bytes s in place of, or after, those from offset o on.
Overwrite(c, o, s) ==
  SubSeq(c, 1, o) \o s \o SubSeq(c, o + Len(s) + 1, Len(c))

\* A write of k bytes of value v.
Write(f, v, k) ==
  /\ off[f] <= Len(contents[f])
  /\ contents' = [contents EXCEPT ![f] = Overwrite(@, off[f], [i \in 1 .. k |-> v])]
  /\ off' = [off EXCEPT ![f] = @ + k]

\* A read of at most n bytes, and of none past the end.
Read(f, n) ==
  /\ off[f] + n <= Len(contents[f])
  /\ off' = [off EXCEPT ![f] = @ + n]
  /\ UNCHANGED contents

Truncate(f) ==
  /\ contents' = [contents EXCEPT ![f] = <<>>]
  /\ UNCHANGED off

Reopen(f) ==
  /\ off' = [off EXCEPT ![f] = 0]
  /\ UNCHANGED contents

Next ==
  \E f \in Files :
    \/ \E v \in Bytes, k \in 0 .. MaxLen : Write(f, v, k)
    \/ \E n \in 0 .. MaxLen : Read(f, n)
    \/ Truncate(f)
    \/ Reopen(f)

\* A step that shows nothing outside.
Same == UNCHANGED vars

Spec == Init /\ [][Next]_vars
=============================================================================
