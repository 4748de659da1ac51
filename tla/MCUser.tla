------------------------------- MODULE MCUser -------------------------------
(***************************************************************************)
(* The shared buffer, the copies between kernel and user, the user library *)
(* and the programs, side by side.  `part' names the component that runs;  *)
(* the others stand still, with the ring empty and the rest None.          *)
(*                                                                         *)
(* The buffer: two interchangeable processes, each producer and consumer,  *)
(* on a ring of three slots; the totals wrap at five, so that indices and  *)
(* counters both pass their limits.                                        *)
(***************************************************************************)
EXTENDS SharedBuf, TLC

CONSTANT None

VARIABLES part, m, mem, upc, gout, pattern, file, unread, buf, line,
          cmd, fds, pfd, parent, shell, nline, job, bg, failed, halted,
          din, sect, freeinode, freeblock, inum, left, bitmap, entries

grepping == <<pattern, file, unread, buf>>
running == <<cmd, fds, pfd, parent, shell, nline, job, bg, failed, halted>>
image == <<din, sect, freeinode, freeblock, inum, left, bitmap, entries>>

NoGrep == pattern = None /\ file = None /\ unread = None /\ buf = None
NoShell == /\ cmd = None /\ fds = None /\ pfd = None /\ parent = None /\ shell = None
           /\ nline = None /\ job = None /\ bg = None /\ failed = None /\ halted = None
NoImage == /\ din = None /\ sect = None /\ freeinode = None /\ freeblock = None
           /\ inum = None /\ left = None /\ bitmap = None /\ entries = None

SeqsUpTo(S, k) == UNION {[1 .. i -> S] : i \in 0 .. k}

\* Text, guard page, stack and heap; a lazy heap; text between data; an odd size.
Layout(n, a, b, c, d) == [sz |-> n, pte |-> [g \in 0 .. 3 |-> <<a, b, c, d>>[g + 1]]]
Copy == INSTANCE UserCopy WITH
  PGSIZE <- 2, MAXVA <- 12, AddrMod <- 16, Frees <- 0 .. 2, Chunk <- 3, MaxLen <- 5, Word <- 2,
  Layouts <- {Layout(7, "ro", "guard", "rw", "none"), Layout(8, "rw", "rw", "none", "none"),
              Layout(8, "rw", "ro", "rw", "rw"), Layout(6, "rw", "rw", "rw", "none")}

Str == INSTANCE Strings WITH
  NBYTES <- 5, Bytes <- 0 .. 2, Inputs <- SeqsUpTo({1, 2}, 3)

Find == INSTANCE Grep WITH
  Patterns <- SeqsUpTo({"a", "^", ".", "*", "$"}, 3), Texts <- SeqsUpTo({"a", "b"}, 3),
  Files <- {<<"n", "a", "b", "n">>, <<"a", "n", "b", "a", "n", "a">>,
            <<"b", "b", "b", "n", "a", "n">>, <<"b", "b", "b", "b", "n", "a", "n">>},
  BufSize <- 5, pc <- upc, out <- gout

\* A blank line, cd, a pipeline, redirections, a group, the background, an error.
Sh == INSTANCE Shell WITH
  MAXARGS <- 3, NPROC <- 8, MaxLines <- 1, Nothing <- None, p <- pfd, pc <- upc,
  Lines <- {<<>>, <<"cd", "d">>, <<"x", "|", "y", "|", "z">>,
            <<"x", "<", "f", ">", "g", ">>", "h">>, <<"(", "x", ";", "y", ")", "|", "z">>,
            <<"x", "|", "y", "&", ";", "z">>, <<"x", ")">>}

\* Two lines, the first of which may leave a job in the background.
Jobs == INSTANCE Shell WITH
  MAXARGS <- 3, NPROC <- 7, MaxLines <- 2, Nothing <- None, p <- pfd, pc <- upc,
  Lines <- {<<"x", "&">>, <<"y", "|", "z">>, <<"y", ";", "z">>}

Image == INSTANCE Mkfs WITH
  BSIZE <- 2, NDIRECT <- 1, NINDIRECT <- 2, nmeta <- 3, BPB <- 13, NFILES <- 5, MaxSize <- 7,
  MaxBlock <- 12,
  pc <- upc

MaxTokens == 5
Tokens == {"x", "|", "(", ")", ";", "&", "<", ">"}

MCInit ==
  /\ Init
  /\ \/ /\ part = "ring"
        /\ m = None /\ mem = None /\ line = None /\ upc = None /\ gout = None
        /\ NoGrep /\ NoShell /\ NoImage
     \/ /\ part = "copy" /\ Copy!Init
        /\ mem = None /\ line = None /\ upc = None /\ gout = None
        /\ NoGrep /\ NoShell /\ NoImage
     \/ /\ part = "strings" /\ Str!Init
        /\ m = None /\ line = None /\ upc = None /\ gout = None
        /\ NoGrep /\ NoShell /\ NoImage
     \/ /\ part = "grep" /\ Find!Init
        /\ m = None /\ mem = None /\ line = None /\ NoShell /\ NoImage
     \/ /\ part = "parse" /\ line = <<>>
        /\ m = None /\ mem = None /\ upc = None /\ gout = None
        /\ NoGrep /\ NoShell /\ NoImage
     \/ /\ \/ part = "shell" /\ Sh!Init
           \/ part = "jobs" /\ Jobs!Init
        /\ m = None /\ mem = None /\ line = None /\ gout = None /\ NoGrep /\ NoImage
     \/ /\ part = "mkfs" /\ Image!Init
        /\ m = None /\ mem = None /\ line = None /\ gout = None /\ NoGrep /\ NoShell

\* grep and mkfs come to an end, and so does the kernel when init exits.
Finished ==
  /\ \/ part = "grep" /\ upc = "done"
     \/ part = "parse" /\ Len(line) = MaxTokens
     \/ part \in {"shell", "jobs"} /\ halted
     \/ part = "mkfs" /\ upc \in {"done", "assert"}
  /\ UNCHANGED <<m, mem, line, upc, gout, grepping, running, image>>

Programs ==
  \/ part = "copy" /\ Copy!Next
     /\ UNCHANGED <<mem, line, upc, gout, grepping, running, image>>
  \/ part = "strings" /\ Str!Next
     /\ UNCHANGED <<m, line, upc, gout, grepping, running, image>>
  \/ part = "grep" /\ Find!Next /\ UNCHANGED <<m, mem, line, running, image>>
  \/ /\ part = "parse" /\ Len(line) < MaxTokens
     /\ \E t \in Tokens : line' = Append(line, t)
     /\ UNCHANGED <<m, mem, upc, gout, grepping, running, image>>
  \/ /\ (part = "shell" /\ Sh!Next) \/ (part = "jobs" /\ Jobs!Next)
     /\ UNCHANGED <<m, mem, line, gout, grepping, image>>
  \/ part = "mkfs" /\ Image!Next /\ UNCHANGED <<m, mem, line, gout, grepping, running>>
  \/ Finished

MCNext ==
  /\ UNCHANGED part
  /\ \/ part = "ring" /\ Next
        /\ UNCHANGED <<m, mem, line, upc, gout, grepping, running, image>>
     \/ Programs /\ UNCHANGED vars

MCSpec ==
  MCInit /\ [][MCNext]_<<part, m, mem, line, upc, gout, grepping, running, image, vars>>

ProcSymmetry == Permutations(Procs)
-----------------------------------------------------------------------------
\* What crosses the border between kernel and user, or is moved, cut, compared
\* and printed by the two libraries, is what the caller asked for to the byte,
\* and a copy that fails has done a prefix of it; grep writes the lines that its
\* pattern describes.
BytesExact ==
  /\ part = "copy" => Copy!CopiesExact /\ Copy!EncryptExact
  /\ part = "strings" => Str!MovesExact /\ Str!StringsExact /\ Str!GetsExact /\ Str!PrintsExact
  /\ part = "grep" => Find!GrepExact

\* The shell reads a line as its grammar says, starts each program with the
\* files that the line gives it and no others, waits for what it should wait
\* for and never for itself, and init keeps one shell running.
LinesRun ==
  /\ part = "parse" => Sh!parsecmd(line) = Sh!Grammar(line)
  /\ part = "shell" =>
       Sh!ProgramsWired /\ Sh!ForegroundDone /\ Sh!NoDeadlock /\ Sh!OneShell
  /\ part = "jobs" =>
       Jobs!ProgramsWired /\ Jobs!ForegroundDone /\ Jobs!NoDeadlock /\ Jobs!OneShell

\* The image that mkfs builds is one that the kernel can start from.
ImageSound == part = "mkfs" => Image!ImageBuilt /\ Image!ImageFinished
=============================================================================
