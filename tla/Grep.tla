-------------------------------- MODULE Grep --------------------------------
(***************************************************************************)
(* user/grep.c: the loop that reads a file into a buffer piece by piece    *)
(* and takes complete lines out of it, and the matcher for ^ . * $.  Texts *)
(* and patterns are sequences of characters; "n" is the newline.           *)
(***************************************************************************)
EXTENDS Integers, Sequences, FiniteSets

CONSTANTS Patterns, Files,
          Texts,     \* what the matcher is compared on
          BufSize    \* sizeof(buf)

VARIABLES pattern, file, unread, buf, out, pc

vars == <<pattern, file, unread, buf, out, pc>>

Init ==
  /\ pattern \in Patterns /\ file \in Files
  /\ unread = file
  /\ buf = <<>> /\ out = <<>>
  /\ pc = "read"
-----------------------------------------------------------------------------
\* The character at a place, "" for the NUL behind the last.
Char(s, i) == IF i > Len(s) THEN "" ELSE s[i]
From(s, i) == SubSeq(s, i, Len(s))

RECURSIVE matchhere(_, _)
RECURSIVE matchstar(_, _, _)
matchhere(re, text) ==
  \/ re = <<>>
  \/ /\ re # <<>>
     /\ IF Char(re, 2) = "*" THEN matchstar(re[1], From(re, 3), text)
        ELSE IF re = <<"$">> THEN text = <<>>
        ELSE text # <<>> /\ re[1] \in {".", text[1]} /\ matchhere(Tail(re), Tail(text))

matchstar(c, re, text) ==
  \/ matchhere(re, text)
  \/ text # <<>> /\ c \in {".", text[1]} /\ matchstar(c, re, Tail(text))

\* "must look at empty string": also at the one behind the last character.
match(re, text) ==
  IF Char(re, 1) = "^" THEN matchhere(Tail(re), text)
  ELSE \E i \in 1 .. Len(text) + 1 : matchhere(re, From(text, i))

\* The lines of a text that end in a newline, and what is behind the last.
Newlines(s) == {i \in 1 .. Len(s) : s[i] = "n"}
LastNewline(s) == CHOOSE i \in Newlines(s) \cup {0} : \A j \in Newlines(s) : j <= i

RECURSIVE Lines(_)
Lines(s) ==
  IF Newlines(s) = {} THEN <<>>
  ELSE LET q == CHOOSE i \in Newlines(s) : \A j \in Newlines(s) : i <= j
       IN  <<SubSeq(s, 1, q - 1)>> \o Lines(From(s, q + 1))

Matching(s) == SelectSeq(Lines(s), LAMBDA line : match(pattern, line))

\* The body of the loop of grep(), after a read() of n characters.
grep(n) ==
  /\ unread' = From(unread, n + 1)
  /\ LET text == buf \o SubSeq(unread, 1, n)
     IN  /\ out' = out \o Matching(text)
         /\ buf' = From(text, LastNewline(text) + 1)

\* read() may give less than it is asked for, and nothing at the end of the
\* file or when the buffer has no room left.
grep_read ==
  /\ pc = "read"
  /\ LET room == BufSize - Len(buf) - 1
     IN  IF unread = <<>> \/ room = 0
         THEN pc' = "done" /\ UNCHANGED <<unread, buf, out>>
         ELSE /\ \E n \in 1 .. room : n <= Len(unread) /\ grep(n)
              /\ UNCHANGED pc
  /\ UNCHANGED <<pattern, file>>

Next == grep_read
-----------------------------------------------------------------------------
\* A pattern as its items: which characters, and whether starred.
RECURSIVE PatternItems(_)
PatternItems(re) ==
  IF re = <<>> THEN <<>>
  ELSE IF Char(re, 2) = "*" THEN <<[c |-> re[1], star |-> TRUE]>> \o PatternItems(From(re, 3))
  ELSE <<[c |-> re[1], star |-> FALSE]>> \o PatternItems(Tail(re))

Accepts(item, s) ==
  /\ item.star \/ Len(s) = 1
  /\ \A i \in 1 .. Len(s) : item.c \in {".", s[i]}

\* A text matches when it can be cut into pieces, one for each item, between a
\* beginning and an end that ^ and $ tie down.
Matches(re, text) ==
  LET hat == Char(re, 1) = "^"
      all == PatternItems(IF hat THEN Tail(re) ELSE re)
      k == Len(all)
      dollar == k > 0 /\ all[k] = [c |-> "$", star |-> FALSE]
      items == IF dollar THEN SubSeq(all, 1, k - 1) ELSE all
      n == Len(text)
  IN  \E cut \in [1 .. Len(items) + 1 -> 0 .. n] :
        /\ hat => cut[1] = 0
        /\ dollar => cut[Len(items) + 1] = n
        /\ \A i \in 1 .. Len(items) :
             cut[i] <= cut[i + 1] /\ Accepts(items[i], SubSeq(text, cut[i] + 1, cut[i + 1]))

\* match() accepts what its pattern describes, and grep() writes exactly the
\* matching lines of the file, in order, however read() cuts it into pieces,
\* when each of them fits into the buffer.
GrepExact ==
  /\ unread = file /\ pc = "read" => \A t \in Texts : match(pattern, t) = Matches(pattern, t)
  /\ LET ends == Newlines(file) \cup {Len(file) + 1}
         short == \A i \in 1 .. Len(file) + 1 : \E j \in ends : i <= j /\ j - i <= BufSize - 2
     IN  pc = "done" /\ short =>
           out = SelectSeq(Lines(file), LAMBDA line : Matches(pattern, line))
=============================================================================
