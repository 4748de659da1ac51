------------------------------- MODULE Shell -------------------------------
(***************************************************************************)
(* The parser of user/sh.c, and init.c and the processes of sh.c: init     *)
(* starts the shell again whenever it exits, the shell forks a process for *)
(* each line, and runcmd() forks and wires up the processes of the         *)
(* command.                                                                *)
(*                                                                         *)
(* The parser is a recursive descent over the tokens of a line.  A line is *)
(* a sequence of symbols and words; white space is left out, and with it   *)
(* the pointers into the line and nulterminate(), which writes the ends of *)
(* words over it.  A parser returns the command and the place it stopped   *)
(* at; panic() ends the process that parses, so that one failure is the    *)
(* result of the whole.                                                    *)
(*                                                                         *)
(* A step of a process goes from one fork(), wait(), exec() or exit() to   *)
(* the next; the descriptors that it opens and closes on the way are its   *)
(* own.  fork(), pipe(), open() and exec() may fail.  A program that reads *)
(* from a pipe runs until the end of file: that is the worst case for      *)
(* whoever waits for it.                                                   *)
(***************************************************************************)
EXTENDS Integers, Sequences, FiniteSets

CONSTANT MAXARGS

Symbols == {"|", "(", ")", ";", "&", "<", ">", ">>"}
Redirections == {"<", ">", ">>"}

\* The token at a place of the line: 'a' for a word, "" at the end.
gettoken(s, at) == IF at > Len(s) THEN "" ELSE IF s[at] \in Symbols THEN s[at] ELSE "a"
peek(s, at, toks) == gettoken(s, at) \in toks

execcmd == [type |-> "EXEC", argv |-> <<>>]
redircmd(sub, file, tok) ==
  [type |-> "REDIR", cmd |-> sub, file |-> file, mode |-> tok, fd |-> IF tok = "<" THEN 0 ELSE 1]
pipecmd(left, right) == [type |-> "PIPE", left |-> left, right |-> right]
listcmd(left, right) == [type |-> "LIST", left |-> left, right |-> right]
backcmd(sub) == [type |-> "BACK", cmd |-> sub]

Panic == [cmd |-> [type |-> "panic"], at |-> 0]

\* Go on after a parser unless it has panicked.
Then(r, Rest(_, _)) == IF r = Panic THEN Panic ELSE Rest(r.cmd, r.at)

\* parseexec() keeps a pointer to the EXEC below the redirections read so far.
RECURSIVE AddArg(_, _)
AddArg(c, word) ==
  IF c.type = "REDIR" THEN [c EXCEPT !.cmd = AddArg(@, word)]
                      ELSE [c EXCEPT !.argv = Append(@, word)]
-----------------------------------------------------------------------------
RECURSIVE parseline(_, _)
RECURSIVE parsepipe(_, _)
RECURSIVE parseredirs(_, _, _)
RECURSIVE parseargs(_, _, _, _)
RECURSIVE Backs(_, _, _)

parseredirs(cmd, s, at) ==
  IF ~peek(s, at, Redirections) THEN [cmd |-> cmd, at |-> at]
  ELSE IF gettoken(s, at + 1) # "a" THEN Panic
  ELSE parseredirs(redircmd(cmd, s[at + 1], s[at]), s, at + 2)

parseblock(s, at) ==
  Then(parseline(s, at + 1),
       LAMBDA cmd, to : IF ~peek(s, to, {")"}) THEN Panic ELSE parseredirs(cmd, s, to + 1))

\* The loop of parseexec(), with argc arguments found.
parseargs(ret, argc, s, at) ==
  IF peek(s, at, {"|", ")", "&", ";", ""}) THEN [cmd |-> ret, at |-> at]
  ELSE IF gettoken(s, at) # "a" \/ argc + 1 >= MAXARGS THEN Panic
  ELSE Then(parseredirs(AddArg(ret, s[at]), s, at + 1),
            LAMBDA cmd, to : parseargs(cmd, argc + 1, s, to))

parseexec(s, at) ==
  IF peek(s, at, {"("}) THEN parseblock(s, at)
  ELSE Then(parseredirs(execcmd, s, at), LAMBDA cmd, to : parseargs(cmd, 0, s, to))

parsepipe(s, at) ==
  Then(parseexec(s, at),
       LAMBDA cmd, to :
         IF ~peek(s, to, {"|"}) THEN [cmd |-> cmd, at |-> to]
         ELSE Then(parsepipe(s, to + 1),
                   LAMBDA right, end : [cmd |-> pipecmd(cmd, right), at |-> end]))

\* The loop of parseline() over the &s behind a command.
Backs(cmd, s, at) ==
  IF peek(s, at, {"&"}) THEN Backs(backcmd(cmd), s, at + 1) ELSE [cmd |-> cmd, at |-> at]

parseline(s, at) ==
  Then(parsepipe(s, at),
       LAMBDA pipe, p :
         Then(Backs(pipe, s, p),
              LAMBDA cmd, to :
                IF ~peek(s, to, {";"}) THEN [cmd |-> cmd, at |-> to]
                ELSE Then(parseline(s, to + 1),
                          LAMBDA right, end : [cmd |-> listcmd(cmd, right), at |-> end])))

parsecmd(s) ==
  Then(parseline(s, 1),
       LAMBDA cmd, to : IF to # Len(s) + 1 THEN Panic ELSE [cmd |-> cmd, at |-> to]).cmd
-----------------------------------------------------------------------------
(* The grammar, by splitting a line at its outermost operators: ; binds    *)
(* least, then &, then |, all to the right.                                *)

Depth(s, n) ==
  Cardinality({i \in 1 .. n : s[i] = "("}) - Cardinality({i \in 1 .. n : s[i] = ")"})

Balanced(s) == Depth(s, Len(s)) = 0 /\ \A n \in 1 .. Len(s) : Depth(s, n) >= 0

\* The places of an operator outside all parentheses.
Top(s, op) == {i \in 1 .. Len(s) : s[i] = op /\ Depth(s, i) = 0}
First(S) == CHOOSE i \in S : \A j \in S : i <= j
Bad == Panic.cmd

RECURSIVE Wrap(_, _)
Wrap(cmd, redirs) ==
  IF redirs = <<>> THEN cmd
  ELSE IF Len(redirs) = 1 \/ redirs[1] \notin Redirections \/ redirs[2] \in Symbols THEN Bad
  ELSE Wrap(redircmd(cmd, redirs[2], redirs[1]), SubSeq(redirs, 3, Len(redirs)))

\* A place of a simple command holds the file of a redirection.
IsFile(s, i) == i > 1 /\ s[i - 1] \in Redirections

Words(s) == SelectSeq([i \in 1 .. Len(s) |-> <<i, s[i]>>],
                      LAMBDA w : w[2] \notin Symbols /\ ~IsFile(s, w[1]))
Redirs(s) == SelectSeq([i \in 1 .. Len(s) |-> <<i, s[i]>>],
                       LAMBDA w : w[2] \in Redirections \/ IsFile(s, w[1]))
Second(pairs) == [i \in 1 .. Len(pairs) |-> pairs[i][2]]

RECURSIVE Grammar(_)
Grammar(s) ==
  LET n == Len(s)
      Left(i) == SubSeq(s, 1, i - 1)
      Right(i) == SubSeq(s, i + 1, n)
      Pair(Build(_, _), i) ==
        LET l == Grammar(Left(i)) r == Grammar(Right(i))
        IN  IF Bad \in {l, r} THEN Bad ELSE Build(l, r)
      Of(Build(_), c) == IF c = Bad THEN Bad ELSE Build(c)
      close == First({i \in 2 .. n : Depth(s, i) = 0})
  IN  IF ~Balanced(s) THEN Bad
      ELSE IF Top(s, ";") # {} THEN Pair(listcmd, First(Top(s, ";")))
      ELSE IF n > 0 /\ s[n] = "&" THEN Of(backcmd, Grammar(SubSeq(s, 1, n - 1)))
      ELSE IF Top(s, "|") # {}
           THEN IF Top(s, "&") # {} THEN Bad ELSE Pair(pipecmd, First(Top(s, "|")))
      ELSE IF n > 0 /\ s[1] = "(" THEN Of(LAMBDA c : Wrap(c, SubSeq(s, close + 1, n)),
                                          Grammar(SubSeq(s, 2, close - 1)))
      ELSE IF {s[i] : i \in 1 .. n} \cap {"(", "&"} # {} \/ Len(Words(s)) >= MAXARGS THEN Bad
      ELSE Wrap([execcmd EXCEPT !.argv = Second(Words(s))], Second(Redirs(s)))
-----------------------------------------------------------------------------
(* init and the processes of the shell.                                    *)

CONSTANTS NPROC,     \* process slots; 1 is init
          Lines,     \* the lines that are typed, each word in a line its own
          MaxLines,  \* bound: lines before the end of file
          Nothing    \* no process, no command, no open file

Slots == 1 .. NPROC
Fds == 0 .. 5
init == 1

VARIABLES pc,      \* where each process is; "unused" for a free slot
          cmd,     \* the command it runs
          fds,     \* its open files
          p,       \* the descriptors that pipe() has given it
          parent,
          shell,   \* the local variable pid of init
          nline,   \* lines read so far
          job,     \* the line each process works for: <<number, command>>
          bg,      \* it was started with & (for the properties)
          failed,  \* a fork() has failed for the current line (likewise)
          halted   \* init has exited: the kernel has panicked

vars == <<pc, cmd, fds, p, parent, shell, nline, job, bg, failed, halted>>

console == <<"console">>
Std == [d \in Fds |-> IF d <= 2 THEN console ELSE Nothing]
Closed == [d \in Fds |-> Nothing]

Live == {q \in Slots : pc[q] # "unused"}
Children(q) == {c \in Live : parent[c] = q}
Zombies(q) == {c \in Children(q) : pc[c] = "zombie"}

Init ==
  /\ pc = [q \in Slots |-> IF q = init THEN "init_fork" ELSE "unused"]
  /\ cmd = [q \in Slots |-> Nothing]
  /\ fds = [q \in Slots |-> IF q = init THEN Std ELSE Closed]
  /\ p = [q \in Slots |-> <<>>]
  /\ parent = [q \in Slots |-> Nothing]
  /\ shell = Nothing
  /\ nline = 0
  /\ job = [q \in Slots |-> <<>>]
  /\ bg = [q \in Slots |-> FALSE]
  /\ failed = FALSE /\ halted = FALSE

Goto(q, l) == pc' = [pc EXCEPT ![q] = l]

\* open(), dup() and pipe() take the lowest descriptors that are free.
Lowest(f) == CHOOSE d \in Fds : f[d] = Nothing /\ \A e \in Fds : f[e] = Nothing => d <= e
Open(f, file) == [f EXCEPT ![Lowest(f)] = file]
Close(f, S) == [d \in Fds |-> IF d \in S THEN Nothing ELSE f[d]]
-----------------------------------------------------------------------------
(* The system calls.                                                       *)

\* fork() by q: the child c starts at one place, the parent goes on at another.
fork(q, l, c, first, of, work, back) ==
  /\ pc' = [pc EXCEPT ![q] = l, ![c] = first]
  /\ parent' = [parent EXCEPT ![c] = q]
  /\ fds' = [fds EXCEPT ![c] = fds[q]]
  /\ p' = [p EXCEPT ![c] = p[q]]
  /\ cmd' = [cmd EXCEPT ![c] = of]
  /\ job' = [job EXCEPT ![c] = work]
  /\ bg' = [bg EXCEPT ![c] = back]

\* allocproc() takes the first free slot.
FreeSlot(c) == pc[c] = "unused" /\ \A d \in Slots : pc[d] = "unused" => c <= d

\* exit(): files closed, children given to init.
exit(q) ==
  /\ Goto(q, "zombie")
  /\ fds' = [fds EXCEPT ![q] = Closed]
  /\ p' = [p EXCEPT ![q] = <<>>]
  /\ cmd' = [cmd EXCEPT ![q] = Nothing]
  /\ parent' = [c \in Slots |-> IF parent[c] = q THEN init ELSE parent[c]]
  /\ UNCHANGED <<job, bg>>

\* wait() that reaps c, or finds no children.
wait(q, l, c) ==
  /\ \/ c \in Zombies(q)
     \/ Children(q) = {} /\ c = Nothing
  /\ pc' = [s \in Slots |-> CASE s = q -> l [] s = c -> "unused" [] OTHER -> pc[s]]
  /\ parent' = [s \in Slots |-> IF s = c THEN Nothing ELSE parent[s]]
  /\ job' = [s \in Slots |-> IF s = c THEN <<>> ELSE job[s]]
  /\ bg' = [s \in Slots |-> s # c /\ bg[s]]
  /\ UNCHANGED <<cmd, fds, p>>

\* fork1(): panic() exits when fork() fails.
fork1(q, l, first, of, back) ==
  \/ /\ \E c \in Slots : FreeSlot(c) /\ fork(q, l, c, first, of, job[q], back)
     /\ UNCHANGED failed
  \/ exit(q) /\ failed' = TRUE
-----------------------------------------------------------------------------
(* init.                                                                   *)

init_fork ==
  /\ pc[init] = "init_fork"
  /\ \/ /\ \E c \in Slots : /\ FreeSlot(c)
                            /\ fork(init, "init_wait", c, "exec_sh", Nothing, <<>>, FALSE)
                            /\ shell' = c
        /\ UNCHANGED halted
     \/ /\ halted' = TRUE
        /\ UNCHANGED <<pc, parent, fds, p, cmd, job, bg, shell>>
  /\ UNCHANGED <<nline, failed>>

\* exec("sh"), and the start of the shell's main().
exec_sh(q) ==
  /\ pc[q] = "exec_sh"
  /\ \/ exit(q)
     \/ /\ Goto(q, "getcmd")
        /\ fds' = [fds EXCEPT ![q] = [d \in Fds |-> IF d <= 2 /\ @[d] = Nothing
                                                    THEN console ELSE @[d]]]
        /\ UNCHANGED <<parent, p, cmd, job, bg>>
  /\ UNCHANGED <<shell, nline, failed, halted>>

init_wait ==
  /\ pc[init] = "init_wait"
  /\ \E c \in Slots \cup {Nothing} :
       /\ wait(init, IF c = shell THEN "init_fork" ELSE "init_wait", c)
       /\ halted' = (c = Nothing)
  /\ UNCHANGED <<shell, nline, failed>>
-----------------------------------------------------------------------------
(* main() of the shell.                                                    *)

\* A line is read: blank, cd, which the shell does itself, or one to fork for.
getcmd(q) ==
  /\ pc[q] = "getcmd" /\ nline < MaxLines
  /\ nline' = nline + 1
  /\ failed' = FALSE
  /\ \E s \in Lines :
       IF s = <<>> \/ s[1] = "cd"
       THEN UNCHANGED <<pc, cmd, job>>
       ELSE /\ Goto(q, "main_fork")
            /\ cmd' = [cmd EXCEPT ![q] = parsecmd(s)]
            /\ job' = [job EXCEPT ![q] = <<nline', parsecmd(s)>>]
  /\ UNCHANGED <<fds, p, parent, shell, bg, halted>>

getcmd_eof(q) ==
  /\ pc[q] = "getcmd" /\ exit(q)
  /\ UNCHANGED <<shell, nline, failed, halted>>

\* The child parses the line: panic() in the parser ends only the child.
main_fork(q) ==
  /\ pc[q] = "main_fork"
  /\ fork1(q, "main_wait", "runcmd", cmd[q], FALSE)
  /\ UNCHANGED <<shell, nline, halted>>

main_wait(q) ==
  /\ pc[q] = "main_wait"
  /\ \E c \in Slots \cup {Nothing} : wait(q, "getcmd", c)
  /\ UNCHANGED <<shell, nline, failed, halted>>
-----------------------------------------------------------------------------
(* runcmd().                                                               *)

At(q, type) == pc[q] = "runcmd" /\ cmd[q].type = type

\* exec() fails, or the program takes over.
runcmd_exec(q) ==
  /\ At(q, "EXEC")
  /\ \/ exit(q)
     \/ /\ cmd[q].argv # <<>>
        /\ Goto(q, "program")
        /\ UNCHANGED <<fds, p, cmd, parent, job, bg>>
  /\ UNCHANGED <<shell, nline, failed, halted>>

\* The line did not parse.
runcmd_syntax(q) ==
  /\ At(q, "panic") /\ exit(q)
  /\ UNCHANGED <<shell, nline, failed, halted>>

runcmd_redir(q) ==
  /\ At(q, "REDIR")
  /\ \/ exit(q)
     \/ /\ fds' = [fds EXCEPT ![q] = Open(Close(@, {cmd[q].fd}),
                                          <<"file", cmd[q].file, cmd[q].mode>>)]
        /\ cmd' = [cmd EXCEPT ![q] = @.cmd]
        /\ UNCHANGED <<pc, p, parent, job, bg>>
  /\ UNCHANGED <<shell, nline, failed, halted>>

runcmd_list(q) ==
  /\ At(q, "LIST")
  /\ fork1(q, "list_wait", "runcmd", cmd[q].left, bg[q])
  /\ UNCHANGED <<shell, nline, halted>>

list_wait(q) ==
  /\ pc[q] = "list_wait"
  /\ \E c \in Slots \cup {Nothing} : wait(q, "list_right", c)
  /\ UNCHANGED <<shell, nline, failed, halted>>

list_right(q) ==
  /\ pc[q] = "list_right"
  /\ Goto(q, "runcmd")
  /\ cmd' = [cmd EXCEPT ![q] = @.right]
  /\ UNCHANGED <<fds, p, parent, job, bg, shell, nline, failed, halted>>

\* pipe(), which may fail; the pipe is known by its place in the command.
runcmd_pipe(q) ==
  /\ At(q, "PIPE")
  /\ \/ exit(q)
     \/ LET pipe == <<job[q][1], cmd[q]>>
            r == Lowest(fds[q])
            f == Open(fds[q], <<"read", pipe>>)
        IN  /\ fds' = [fds EXCEPT ![q] = Open(f, <<"write", pipe>>)]
            /\ p' = [p EXCEPT ![q] = <<r, Lowest(f)>>]
            /\ Goto(q, "pipe_left")
            /\ UNCHANGED <<cmd, parent, job, bg>>
  /\ UNCHANGED <<shell, nline, failed, halted>>

pipe_fork(q) ==
  \/ /\ pc[q] = "pipe_left"
     /\ fork1(q, "pipe_right", "wire_left", cmd[q].left, bg[q])
     /\ UNCHANGED <<shell, nline, halted>>
  \/ /\ pc[q] = "pipe_right"
     /\ fork1(q, "pipe_close", "wire_right", cmd[q].right, bg[q])
     /\ UNCHANGED <<shell, nline, halted>>

\* Mutant: the reader keeps the write end of the pipe.
pipe_wire_keeps(q) ==
  /\ pc[q] \in {"wire_left", "wire_right"}
  /\ LET left == pc[q] = "wire_left"
         std == IF left THEN 1 ELSE 0
         end == IF left THEN p[q][2] ELSE p[q][1]
     IN  fds' = [fds EXCEPT ![q] = Close(Open(Close(@, {std}), @[end]),
                                         {p[q][1]} \cup IF left THEN {p[q][2]} ELSE {})]
  /\ p' = [p EXCEPT ![q] = <<>>]
  /\ Goto(q, "runcmd")
  /\ UNCHANGED <<cmd, parent, job, bg, shell, nline, failed, halted>>

\* The child: close(1); dup(p[1]), or close(0); dup(p[0]); then both ends closed.
pipe_wire(q) ==
  /\ pc[q] \in {"wire_left", "wire_right"}
  /\ LET left == pc[q] = "wire_left"
         std == IF left THEN 1 ELSE 0
         end == IF left THEN p[q][2] ELSE p[q][1]
     IN  fds' = [fds EXCEPT ![q] = Close(Open(Close(@, {std}), @[end]), {p[q][1], p[q][2]})]
  /\ p' = [p EXCEPT ![q] = <<>>]
  /\ Goto(q, "runcmd")
  /\ UNCHANGED <<cmd, parent, job, bg, shell, nline, failed, halted>>

pipe_close(q) ==
  /\ pc[q] = "pipe_close"
  /\ fds' = [fds EXCEPT ![q] = Close(@, {p[q][1], p[q][2]})]
  /\ p' = [p EXCEPT ![q] = <<>>]
  /\ Goto(q, "wait2")
  /\ UNCHANGED <<cmd, parent, job, bg, shell, nline, failed, halted>>

pipe_wait(q) ==
  /\ \/ pc[q] = "wait2" /\ \E c \in Slots \cup {Nothing} : wait(q, "wait1", c)
     \/ pc[q] = "wait1" /\ \E c \in Slots \cup {Nothing} : wait(q, "done", c)
  /\ UNCHANGED <<shell, nline, failed, halted>>

runcmd_back(q) ==
  /\ At(q, "BACK")
  /\ fork1(q, "done", "runcmd", cmd[q].cmd, TRUE)
  /\ UNCHANGED <<shell, nline, halted>>

\* exit(0) at the end of runcmd().
runcmd_done(q) ==
  /\ pc[q] = "done" /\ exit(q)
  /\ UNCHANGED <<shell, nline, failed, halted>>

\* The processes that hold the write end of the pipe that q reads from.
Writers(q) ==
  {w \in Live : \E d \in Fds :
     fds[q][0] # Nothing /\ fds[q][0][1] = "read" /\ fds[w][d] = <<"write", fds[q][0][2]>>}

\* A program ends, one that reads from a pipe at the end of file.
program_exit(q) ==
  /\ pc[q] = "program" /\ Writers(q) = {}
  /\ exit(q)
  /\ UNCHANGED <<shell, nline, failed, halted>>

Step(q) ==
  \/ exec_sh(q) \/ getcmd(q) \/ getcmd_eof(q) \/ main_fork(q) \/ main_wait(q)
  \/ runcmd_exec(q) \/ runcmd_syntax(q) \/ runcmd_redir(q)
  \/ runcmd_list(q) \/ list_wait(q) \/ list_right(q)
  \/ runcmd_pipe(q) \/ pipe_fork(q) \/ pipe_wire(q) \/ pipe_close(q) \/ pipe_wait(q)
  \/ runcmd_back(q) \/ runcmd_done(q) \/ program_exit(q)

Next == ~halted /\ (init_fork \/ init_wait \/ \E q \in Slots \ {init} : Step(q))
-----------------------------------------------------------------------------
\* The programs that a command starts, each with its arguments, standard input
\* and standard output: an inner redirection wins over an outer one, and a
\* redirection over a pipe.
RECURSIVE Wiring(_, _, _, _)
Wiring(n, c, in, out) ==
  CASE c.type = "EXEC"  -> {<<c.argv, in, out>>}
    [] c.type = "REDIR" ->
         LET f == <<"file", c.file, c.mode>>
         IN  Wiring(n, c.cmd, IF c.fd = 0 THEN f ELSE in, IF c.fd = 1 THEN f ELSE out)
    [] c.type = "PIPE"  -> Wiring(n, c.left, in, <<"write", <<n, c>>>>)
                             \cup Wiring(n, c.right, <<"read", <<n, c>>>>, out)
    [] c.type = "LIST"  -> Wiring(n, c.left, in, out) \cup Wiring(n, c.right, in, out)
    [] c.type = "BACK"  -> Wiring(n, c.cmd, in, out)
    [] OTHER            -> {}

\* runcmd() starts every program with descriptors 0, 1 and 2 and no other, and
\* with the input and output that its line gives it.
ProgramsWired ==
  \A q \in Live : pc[q] = "program" =>
    /\ <<cmd[q].argv, fds[q][0], fds[q][1]>> \in Wiring(job[q][1], job[q][2], console, console)
    /\ fds[q][2] = console /\ \A d \in Fds : d > 2 => fds[q][d] = Nothing

\* The prompt comes back when all of the line is done but what & has put in the
\* background, unless a fork() failed half way.
ForegroundDone ==
  \A q \in Live : pc[q] = "getcmd" /\ ~failed =>
    \A r \in Live \ {q} : job[r] # <<>> /\ job[r][1] = nline => bg[r]

\* q waits for one of its children, or reads from a pipe that has writers.
WaitsFor(q) ==
  IF pc[q] \in {"main_wait", "list_wait", "wait1", "wait2"} THEN Children(q)
  ELSE IF pc[q] = "program" THEN Writers(q) ELSE {}

\* No set of processes waits for nothing but itself: every pipe's reader comes
\* to the end of file once the writers' programs are done.
NoDeadlock ==
  \A S \in SUBSET (Live \ {init}) \ {{}} : \E q \in S : WaitsFor(q) = {} \/ ~(WaitsFor(q) \subseteq S)

\* init exits only when it cannot fork: there is always one shell, and init's
\* wait() never comes back without a child.
OneShell ==
  /\ pc[init] = "init_wait" => shell \in Live /\ parent[shell] = init
  /\ Cardinality({q \in Live : pc[q] \in {"exec_sh", "getcmd", "main_fork", "main_wait"}}) <= 1
=============================================================================
