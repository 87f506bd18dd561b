------------------------------ MODULE Executor ------------------------------
(* How the shell carries out a line: the shell process walks the syntax tree, *)
(* forks a process per command, wires the pipes between them and waits.       *)
(*                                                                            *)
(* A process is a record: the t_context it has (a fork copies it), its file   *)
(* descriptors, and where its C code stands.  Since exec_handler recurses     *)
(* along the tree, the call stack of a process is the path from its node to   *)
(* the root, so a process only keeps the node it is at.  The C functions that *)
(* touch nothing but their own process are operators on the record; a step is *)
(* what a process does between two effects other processes can see.           *)
EXTENDS ShellAst

CONSTANTS Lines,             \* roots of the trees typed lines parse to, 0 for a
                             \* line with a syntax error
          MaxLines,          \* bound: lines typed in a session
          NProc,             \* bound: process slots, the shell is one
          MaxFd,             \* highest descriptor number (the rlimit)
          NPipe,             \* bound: pipes that exist at the same time
          PipeCap,           \* chunks a pipe holds before a writer blocks
          MaxProcessCount    \* MAX_PROCESS_COUNT

Proc  == 1 .. NProc
Shell == 1
FD    == 0 .. MaxFd
Pipe  == 1 .. NPipe

STDIN_FILENO  == 0
STDOUT_FILENO == 1
EXIT_FAILURE  == 1
SIGPIPE       == 13

ASSUME BoundsAssumption ==
    /\ NProc \in Nat \ {0}
    /\ MaxFd \in Nat /\ MaxFd >= 2
    /\ NPipe \in Nat
    /\ PipeCap \in Nat \ {0}
    /\ MaxProcessCount \in Nat \ {0}
    /\ MaxLines \in Nat
    /\ Lines \subseteq NodeOrNull
    /\ \A root \in Lines \ {0} : Parent[root] = 0

VARIABLES proc,     \* the processes
          pipe,     \* chunks in each pipe
          typed     \* lines typed so far

vars == <<proc, pipe, typed>>

(***************************************************************************)
(* Descriptors.  What a descriptor refers to is a kind and, for the ends   *)
(* of a pipe, the pipe.                                                    *)
(***************************************************************************)
Closed == <<"closed", 0>>
Tty    == <<"tty", 0>>
File   == <<"file", 0>>
ReadEnd(k)  == <<"r", k>>
WriteEnd(k) == <<"w", k>>

Desc == ({"closed", "tty", "file"} \X {0}) \cup ({"r", "w"} \X Pipe)
FdOrNone == FD \cup {-1}

PC == {"free", "zombie", "program",               \* no shell code runs
       "prompt", "heredoc",                       \* read_command, heredoc_handler
       "exec", "child", "cmd", "redirect", "builtin",
       "return", "wait", "decide"}

Process ==
    [pc : PC, parent : Proc \cup {0}, node : NodeOrNull, i : Nat,
     ret : 0 .. 255, c_status : 0 .. 255, todo : Nat, eof : BOOLEAN,
     fds : [FD -> Desc], fd_num : [RedirectNode -> FdOrNone],
     in_pipe_fd : FdOrNone, out_pipe_fd : FdOrNone, pre_in_pipe_fd : FdOrNone,
     stored_stdin : FdOrNone, stored_stdout : FdOrNone,
     pids : Seq(Proc \cup {0}), last_status : 0 .. 255,
     is_exec_in_child_ps : BOOLEAN, is_in_round_bracket : BOOLEAN,
     head_node : NodeOrNull]

NoHeredocs == [n \in RedirectNode |-> -1]

NoProcess ==
    [pc |-> "free", parent |-> 0, node |-> 0, i |-> 0,
     ret |-> 0, c_status |-> 0, todo |-> 0, eof |-> FALSE,
     fds |-> [fd \in FD |-> Closed], fd_num |-> NoHeredocs,
     in_pipe_fd |-> -1, out_pipe_fd |-> -1, pre_in_pipe_fd |-> -1,
     stored_stdin |-> -1, stored_stdout |-> -1,
     pids |-> << >>, last_status |-> 0,
     is_exec_in_child_ps |-> FALSE, is_in_round_bracket |-> FALSE,
     head_node |-> 0]

init_ctx == [NoProcess EXCEPT
    !.pc = "prompt",
    !.fds = [fd \in FD |-> IF fd <= 2 THEN Tty ELSE Closed]]

\* What exec_handler and the functions it calls take for granted of the node
\* they are given.
AtItsNode(P) ==
    /\ P.pc \in {"heredoc", "exec", "child", "cmd", "redirect", "builtin",
                 "program", "return"} => P.node \in Node
    /\ P.pc \in {"child", "cmd", "builtin", "program"} => Ast[P.node].kind = "ND_CMD"
    /\ P.pc = "redirect" => Ast[P.node].kind \in {"ND_CMD", "ND_REDIRECTS"}
    /\ P.pc = "program" => Ast[P.node].cmd.word # "builtin"

\* The type invariant.  Every process is where the tree lets it be, and no pipe
\* holds more than it can.
TypeOK == /\ proc \in [Proc -> Process]
          /\ \A p \in Proc : AtItsNode(proc[p])
          /\ pipe \in [Pipe -> 0 .. PipeCap]
          /\ typed \in 0 .. MaxLines

Init == /\ proc = [p \in Proc |-> IF p = Shell THEN init_ctx ELSE NoProcess]
        /\ pipe = [k \in Pipe |-> 0]
        /\ typed = 0

(***************************************************************************)
(* System calls.                                                           *)
(***************************************************************************)
IsOpen(P, fd) == fd \in FD /\ P.fds[fd] # Closed
FreeFds(P) == {fd \in FD : P.fds[fd] = Closed}

\* The c-th lowest descriptor that is free.
NthFree(P, c) == CHOOSE fd \in FreeFds(P) :
                    Cardinality({g \in FreeFds(P) : g < fd}) = c - 1

Close(P, fd) == IF fd \in FD THEN [P EXCEPT !.fds[fd] = Closed] ELSE P

Dup2(P, from, to) ==
    IF IsOpen(P, from) THEN [P EXCEPT !.fds[to] = P.fds[from]] ELSE P

HasEnd(p, end) == \E fd \in FD : proc[p].fds[fd] = end
Readers(k) == {p \in Proc : HasEnd(p, ReadEnd(k))}
Writers(k) == {p \in Proc : HasEnd(p, WriteEnd(k))}
UnusedPipes == {k \in Pipe : Readers(k) = {} /\ Writers(k) = {}}
NewPipe == CHOOSE k \in UnusedPipes : \A l \in UnusedPipes : k <= l

FreeSlots == {p \in Proc \ {Shell} : proc[p].pc = "free"}
NewProcess == CHOOSE q \in FreeSlots : \A r \in FreeSlots : q <= r
ChildrenOf(p) == {q \in Proc : proc[q].parent = p}

Set(p, P) == proc' = [proc EXCEPT ![p] = P]

\* exit(s) in p: its descriptors close, it stays a zombie until its parent
\* waits for it, and its children are inherited, and reaped, by init.
ExitIn(procs, p, s) ==
    [q \in Proc |->
       CASE q = p ->
              IF p = Shell \/ procs[p].parent # 0
              THEN [NoProcess EXCEPT !.pc = "zombie", !.c_status = s,
                                     !.parent = procs[p].parent]
              ELSE NoProcess
         [] q # p /\ procs[q].parent = p ->
              IF procs[q].pc = "zombie" THEN NoProcess
              ELSE [procs[q] EXCEPT !.parent = 0]
         [] OTHER -> procs[q]]

Exit(p, s) == proc' = ExitIn(proc, p, s)

(***************************************************************************)
(* The shell's own helpers.                                                *)
(***************************************************************************)
\* The two dups of backup_std_fds succeed.
CanBackup(P) == IsOpen(P, STDIN_FILENO) /\ IsOpen(P, STDOUT_FILENO)
                /\ Cardinality(FreeFds(P)) >= 2

backup_std_fds(P) ==
    LET Q == Close(Close(P, IF P.stored_stdin > 2 THEN P.stored_stdin ELSE -1),
                   IF P.stored_stdout > 2 THEN P.stored_stdout ELSE -1)
        in == NthFree(Q, 1)
        out == NthFree(Q, 2)
    IN  [Q EXCEPT !.stored_stdin = in, !.stored_stdout = out,
                  !.fds[in] = Q.fds[STDIN_FILENO], !.fds[out] = Q.fds[STDOUT_FILENO]]

\* Mutant of restore_std_fds: only standard input comes back.
RestoresStdinOnly(P) == Dup2(P, P.stored_stdin, STDIN_FILENO)

restore_std_fds(P) ==
    Dup2(Dup2(P, P.stored_stdin, STDIN_FILENO), P.stored_stdout, STDOUT_FILENO)

close_stored_fds(P) ==
    [Close(Close(P, P.stored_stdin), P.stored_stdout) EXCEPT
        !.stored_stdin = -1, !.stored_stdout = -1]

\* The descriptors of the last line are forgotten, not closed.
clear_ctx(P) == backup_std_fds(
    [P EXCEPT !.in_pipe_fd = -1, !.out_pipe_fd = -1, !.pre_in_pipe_fd = -1,
              !.pids = << >>, !.is_exec_in_child_ps = FALSE,
              !.is_in_round_bracket = FALSE, !.head_node = 0])

clear_pid_status(P) == [P EXCEPT !.pids = << >>]

\* close fails on a descriptor that is not open.
CloseFails(P, fd, std) == fd \notin {-1, std} /\ ~ IsOpen(P, fd)

ResetFails(P) == \/ CloseFails(P, P.pre_in_pipe_fd, STDIN_FILENO)
                 \/ CloseFails(P, P.out_pipe_fd, STDOUT_FILENO)

\* Mutants of reset_parent_process_fd: the write end stays open in the shell,
\* and the read end of a finished pipeline stays in pre_in_pipe_fd.
KeepsWriteEnd(P) ==
    [Close(P, P.pre_in_pipe_fd) EXCEPT
        !.pre_in_pipe_fd = P.in_pipe_fd, !.in_pipe_fd = -1, !.out_pipe_fd = -1]
KeepsPreIn(P) ==
    LET Q == Close(P, P.pre_in_pipe_fd)
        R == Close(Q, IF P.out_pipe_fd # STDOUT_FILENO THEN P.out_pipe_fd ELSE -1)
    IN  [R EXCEPT !.pre_in_pipe_fd = IF P.in_pipe_fd = -1 THEN @ ELSE P.in_pipe_fd,
                  !.in_pipe_fd = -1, !.out_pipe_fd = -1]

reset_parent_process_fd(P) ==
    LET Q == Close(P, IF P.pre_in_pipe_fd # STDIN_FILENO THEN P.pre_in_pipe_fd ELSE -1)
        R == Close(Q, IF P.out_pipe_fd # STDOUT_FILENO THEN P.out_pipe_fd ELSE -1)
    IN  [R EXCEPT !.pre_in_pipe_fd = P.in_pipe_fd, !.in_pipe_fd = -1, !.out_pipe_fd = -1]

\* fd becomes standard descriptor std.
MoveTo(P, fd, std) == Close(Dup2(P, fd, std), fd)

ConnectInput(P) ==
    IF P.pre_in_pipe_fd # -1 THEN MoveTo(P, P.pre_in_pipe_fd, STDIN_FILENO) ELSE P
ConnectOutput(P) ==
    IF P.out_pipe_fd \notin {-1, STDOUT_FILENO}
    THEN MoveTo(P, P.out_pipe_fd, STDOUT_FILENO) ELSE P

\* Mutants of setup_child_process_fd_flg: the child keeps the read end of its
\* own output pipe, and the flag is not set.
KeepsReadEnd(P) ==
    [ConnectOutput(ConnectInput(P)) EXCEPT !.is_exec_in_child_ps = TRUE]
SetsNoFlag(P) == ConnectOutput(Close(ConnectInput(P), P.in_pipe_fd))

setup_child_process_fd_flg(P) ==
    [ConnectOutput(Close(ConnectInput(P), P.in_pipe_fd)) EXCEPT
        !.is_exec_in_child_ps = TRUE]

\* The C function of the node P is at returns v.
Return(P, v) == [P EXCEPT !.pc = "return", !.ret = v]

\* run_builtin, or execve.
Launch(P) ==
    LET c == Ast[P.node].cmd
    IN  [P EXCEPT !.pc = IF c.word = "builtin" THEN "builtin" ELSE "program",
                  !.todo = c.emits, !.eof = ~ c.reads]

(***************************************************************************)
(* main_loop, read_command and start_pipeline.                             *)
(***************************************************************************)
\* EXIT_SYNTAX_ERROR
SyntaxError == 2

\* A line comes from a terminal only: files and pipes hold data, not commands.
ReadLine(p) ==
    /\ proc[p].pc = "prompt"
    /\ proc[p].fds[STDIN_FILENO] = Tty
    /\ typed < MaxLines
    /\ typed' = typed + 1
    /\ \E root \in Lines :
         LET P == clear_ctx(proc[p])
         IN  IF ~ CanBackup(proc[p]) THEN Exit(p, EXIT_FAILURE)
             ELSE IF root = 0
             THEN Set(p, [close_stored_fds(P) EXCEPT !.last_status = SyntaxError])
             ELSE Set(p, [P EXCEPT !.pc = "heredoc", !.node = root, !.i = 0])
    /\ UNCHANGED pipe

\* readline returns NULL: Ctrl-D, or the end of what stdin was redirected to.
EndOfInput(p) ==
    /\ proc[p].pc = "prompt"
    /\ Exit(p, proc[p].last_status)
    /\ UNCHANGED <<pipe, typed>>

HeredocOps(n) == {i \in DOMAIN Ast[n].redirects : Ast[n].redirects[i].op = "<<"}
InputOps(n) == {i \in DOMAIN Ast[n].redirects : Ast[n].redirects[i].op \in {"<", "<<"}}
LastOf(S) == CHOOSE i \in S : \A j \in S : j <= i
is_heredoc_end(n) == LastOf(InputOps(n)) \in HeredocOps(n)

HeredocNodes(P) ==
    {n \in RedirectNode : n > P.i /\ Root[n] = P.node /\ HeredocOps(n) # {}}

\* call_heredoc on the next redirect list: every body goes into a pipe of its
\* own; the last one is kept if it is the list's last input.  A body that the
\* pipe cannot hold blocks the shell, its only reader.
Heredoc(p) ==
    /\ proc[p].pc = "heredoc"
    /\ HeredocNodes(proc[p]) # {}
    /\ LET P == proc[p]
           n == CHOOSE n \in HeredocNodes(P) : \A m \in HeredocNodes(P) : n <= m
           c == Cardinality(HeredocOps(n))
           fd == NthFree(P, c)
           k == NewPipe
       IN  /\ \A i \in HeredocOps(n) : Ast[n].redirects[i].body <= PipeCap
           /\ IF Cardinality(FreeFds(P)) <= c
              THEN Exit(p, EXIT_FAILURE) /\ UNCHANGED pipe
              ELSE IF is_heredoc_end(n)
              THEN /\ UnusedPipes # {}
                   /\ Set(p, [P EXCEPT !.i = n, !.fds[fd] = ReadEnd(k), !.fd_num[n] = fd])
                   /\ pipe' = [pipe EXCEPT ![k] = Ast[n].redirects[LastOf(HeredocOps(n))].body]
              ELSE Set(p, [P EXCEPT !.i = n]) /\ UNCHANGED pipe
    /\ UNCHANGED typed

HeredocsRead(p) ==
    /\ proc[p].pc = "heredoc"
    /\ HeredocNodes(proc[p]) = {}
    /\ Set(p, [proc[p] EXCEPT !.pc = "exec", !.head_node = proc[p].node])
    /\ UNCHANGED <<pipe, typed>>

(***************************************************************************)
(* exec_handler on the node p is at.                                       *)
(***************************************************************************)
AtNode(p, kinds) == proc[p].pc = "exec" /\ Ast[proc[p].node].kind \in kinds

exec_pipe(p) ==
    /\ AtNode(p, {"ND_PIPE"})
    /\ LET P == proc[p]
           r == NthFree(P, 1)
           w == NthFree(P, 2)
           k == NewPipe
       IN  IF Cardinality(FreeFds(P)) < 2
           THEN Exit(p, EXIT_FAILURE) /\ UNCHANGED pipe
           ELSE /\ UnusedPipes # {}
                /\ Set(p, [P EXCEPT !.fds = [@ EXCEPT ![r] = ReadEnd(k), ![w] = WriteEnd(k)],
                                    !.is_exec_in_child_ps = TRUE,
                                    !.in_pipe_fd = r, !.out_pipe_fd = w,
                                    !.node = Ast[P.node].left])
                /\ pipe' = [pipe EXCEPT ![k] = 0]
    /\ UNCHANGED typed

\* exec_and_node and exec_or_node begin with their left side.
exec_logical(p) ==
    /\ AtNode(p, {"ND_AND_OP", "ND_OR_OP"})
    /\ Set(p, [proc[p] EXCEPT !.node = Ast[proc[p].node].left])
    /\ UNCHANGED <<pipe, typed>>

exec_round_brackets(p) ==
    /\ AtNode(p, {"ND_RND_BRACKET"})
    /\ Set(p, [proc[p] EXCEPT !.is_exec_in_child_ps = TRUE,
                              !.is_in_round_bracket = TRUE,
                              !.node = Ast[proc[p].node].left])
    /\ UNCHANGED <<pipe, typed>>

exec_redirect(p) ==
    /\ AtNode(p, {"ND_REDIRECTS"})
    /\ Set(p, [proc[p] EXCEPT !.pc = "redirect", !.i = 1])
    /\ UNCHANGED <<pipe, typed>>

\* Mutant of RunsHere: the flag is not looked at.
RunsBuiltinsHere(P) == Ast[P.node].cmd.typed

\* exec_cmd_handler: a builtin outside pipes and brackets runs in the shell,
\* every other command in a child.
RunsHere(P) == ~ P.is_exec_in_child_ps /\ Ast[P.node].cmd.typed

exec_cmd_here(p) ==
    /\ AtNode(p, {"ND_CMD"})
    /\ RunsHere(proc[p])
    /\ Set(p, [proc[p] EXCEPT !.pc = "cmd"])
    /\ UNCHANGED <<pipe, typed>>

\* Mutant of AtProcessLimit: the check allows one child too many.
PastProcessLimit(P) == Len(P.pids) >= MaxProcessCount

AtProcessLimit(P) == Len(P.pids) + 1 >= MaxProcessCount

\* The parent keeps the number of the heredoc descriptor it closes.
CloseHeredoc(P) ==
    LET l == Ast[P.node].left IN IF l = 0 THEN P ELSE Close(P, P.fd_num[l])

exec_cmd_forked(p) ==
    /\ AtNode(p, {"ND_CMD"})
    /\ ~ RunsHere(proc[p])
    /\ LET P == proc[p]
           q == NewProcess
           child == [P EXCEPT !.pc = "child", !.parent = p, !.pids = Append(@, 0)]
           forked == [P EXCEPT !.pids = Append(@, q)]
           both == [proc EXCEPT ![q] = child, ![p] = forked]
       IN  IF AtProcessLimit(P) \/ FreeSlots = {}
           THEN Exit(p, EXIT_FAILURE)
           ELSE IF ResetFails(forked)
           THEN proc' = ExitIn(both, p, EXIT_FAILURE)
           ELSE proc' = [both EXCEPT
                           ![p] = Return(CloseHeredoc(reset_parent_process_fd(forked)), 0)]
    /\ UNCHANGED <<pipe, typed>>

ChildSetup(p) ==
    /\ proc[p].pc = "child"
    /\ Set(p, [setup_child_process_fd_flg(proc[p]) EXCEPT !.pc = "cmd"])
    /\ UNCHANGED <<pipe, typed>>

(***************************************************************************)
(* exec_cmd.                                                               *)
(***************************************************************************)
HasHeredoc(P) ==
    LET l == Ast[P.node].left IN l # 0 /\ P.fd_num[l] # -1

\* What follows the expansion of the words.
AfterExpansion(p, P) ==
    LET node == Ast[P.node]
    IN  CASE node.cmd.word = "empty" ->
               IF P.is_exec_in_child_ps THEN Exit(p, 127)
               ELSE Set(p, Return([P EXCEPT !.last_status = 127], EXIT_FAILURE))
          [] node.cmd.word # "empty" /\ node.left # 0 ->
               Set(p, [P EXCEPT !.pc = "redirect", !.i = 1])
          [] OTHER -> Set(p, Launch(P))

exec_cmd(p) ==
    /\ proc[p].pc = "cmd"
    /\ ~ HasHeredoc(proc[p])
    /\ AfterExpansion(p, proc[p])
    /\ UNCHANGED <<pipe, typed>>

\* expand_heredoc_var copies the body to a new pipe; the old descriptor stays
\* open.  (pipe is assumed to succeed: its failure leaves pipe_fds unset.)
exec_cmd_with_heredoc(p) ==
    /\ proc[p].pc = "cmd"
    /\ HasHeredoc(proc[p])
    /\ LET P == proc[p]
           l == Ast[P.node].left
           old == P.fds[P.fd_num[l]]
           fd == NthFree(P, 1)
           k == NewPipe
       IN  /\ Cardinality(FreeFds(P)) >= 2
           /\ UnusedPipes # {}
           /\ pipe' = [j \in Pipe |->
                          CASE old = ReadEnd(j) -> 0
                            [] j = k /\ old[1] = "r" -> pipe[old[2]]
                            [] j = k /\ old[1] # "r" -> 0
                            [] OTHER -> pipe[j]]
           /\ AfterExpansion(p, [P EXCEPT !.fds[fd] = ReadEnd(k), !.fd_num[l] = fd])
    /\ UNCHANGED typed

\* Mutant of redirect_here_doc: the heredoc is closed without the dup2.
ClosesHereDoc(P, n) ==
    IF P.fd_num[n] > 2
    THEN [Close(P, P.fd_num[n]) EXCEPT !.last_status = 0, !.fd_num[n] = -1]
    ELSE P

redirect_here_doc(P, n) ==
    LET fd == P.fd_num[n]
    IN  IF fd > 2
        THEN [MoveTo(P, fd, STDIN_FILENO) EXCEPT
                !.last_status = 0, !.fd_num[n] = -1]
        ELSE P

\* redirect_in, redirect_out and redirect_append
OpenedAs(P, r) ==
    [P EXCEPT !.fds[IF r.op = "<" THEN STDIN_FILENO ELSE STDOUT_FILENO] = File,
              !.last_status = 0]

\* Mutant of redirect_file: a file that does not open is passed over.
IgnoresOpenError(P, r) ==
    IF r.file = "ok" /\ FreeFds(P) # {} THEN OpenedAs(P, r) ELSE P

redirect_file(P, r) ==
    IF r.file = "ok" /\ FreeFds(P) # {}
    THEN OpenedAs(P, r)
    ELSE [P EXCEPT !.last_status = EXIT_FAILURE]

\* What follows apply_redirects, in exec_redirect and in exec_cmd.  A failure is
\* what exec_cmd returns; in a child exec_cmd_handler goes on to return 0.
AfterRedirects(P) ==
    CASE Ast[P.node].kind = "ND_REDIRECTS" -> Return(restore_std_fds(P), P.last_status)
      [] Ast[P.node].kind # "ND_REDIRECTS" /\ P.last_status # 0 ->
           Return(P, IF P.is_exec_in_child_ps THEN 0 ELSE EXIT_FAILURE)
      [] OTHER -> Launch(P)

\* One turn of the loop in apply_redirects; the loop ends on any last_status
\* but 0, also one that redirect_here_doc did not set.
apply_redirects(p) ==
    /\ proc[p].pc = "redirect"
    /\ LET P == proc[p]
           n == IF Ast[P.node].kind = "ND_CMD" THEN Ast[P.node].left ELSE P.node
           r == Ast[n].redirects[P.i]
           Q == IF r.op = "<<" THEN redirect_here_doc(P, n) ELSE redirect_file(P, r)
       IN  IF r.op # "<<" /\ Q.last_status # 0 /\ P.is_exec_in_child_ps
           THEN Exit(p, EXIT_FAILURE)
           ELSE Set(p, IF Q.last_status # 0 \/ P.i = Len(Ast[n].redirects)
                       THEN AfterRedirects(Q)
                       ELSE [Q EXCEPT !.i = P.i + 1])
    /\ UNCHANGED <<pipe, typed>>

\* What the builtin's function returns.  (Mutant: ERROR for a failure.)
ReturnsError(P) == IF Ast[P.node].cmd.status > 0 THEN -1 ELSE 0
BuiltinStatus(P) ==
    LET s == Ast[P.node].cmd.status IN IF s = Stale THEN P.last_status ELSE s

\* exec_builtin once the builtin's function is done.  Only a builtin that
\* succeeds has its redirects undone.
run_builtin(p) ==
    /\ proc[p].pc = "builtin"
    /\ proc[p].todo = 0
    /\ LET P == proc[p]
           s == BuiltinStatus(P)
           Q == [P EXCEPT !.last_status = s]
       IN  IF Ast[P.node].cmd.exits \/ P.is_exec_in_child_ps
           THEN Exit(p, s)
           ELSE Set(p, Return(IF s = 0 THEN restore_std_fds(Q) ELSE Q, s))
    /\ UNCHANGED <<pipe, typed>>

(***************************************************************************)
(* The programs (external), and the writes of builtins.                    *)
(***************************************************************************)
Write(p) ==
    /\ proc[p].pc \in {"program", "builtin"}
    /\ proc[p].todo > 0
    /\ LET out == proc[p].fds[STDOUT_FILENO]
           wrote == Set(p, [proc[p] EXCEPT !.todo = @ - 1])
       IN  IF out[1] # "w" THEN wrote /\ UNCHANGED pipe
           ELSE IF Readers(out[2]) = {} THEN Exit(p, 128 + SIGPIPE) /\ UNCHANGED pipe
           ELSE /\ pipe[out[2]] < PipeCap
                /\ pipe' = [pipe EXCEPT ![out[2]] = @ + 1]
                /\ wrote
    /\ UNCHANGED typed

Reading(p) == proc[p].pc = "program" /\ proc[p].todo = 0 /\ ~ proc[p].eof

Read(p) ==
    /\ Reading(p)
    /\ proc[p].fds[STDIN_FILENO][1] = "r"
    /\ LET k == proc[p].fds[STDIN_FILENO][2]
       IN  /\ pipe[k] > 0
           /\ pipe' = [pipe EXCEPT ![k] = @ - 1]
    /\ Set(p, [proc[p] EXCEPT !.todo = IF Ast[proc[p].node].cmd.copies THEN 1 ELSE 0])
    /\ UNCHANGED typed

\* The user ends a program's terminal input with Ctrl-D.
ReadEof(p) ==
    /\ Reading(p)
    /\ LET in == proc[p].fds[STDIN_FILENO]
       IN  in[1] = "r" => pipe[in[2]] = 0 /\ Writers(in[2]) = {}
    /\ Set(p, [proc[p] EXCEPT !.eof = TRUE])
    /\ UNCHANGED <<pipe, typed>>

ProgramExit(p) ==
    /\ proc[p].pc = "program"
    /\ proc[p].todo = 0
    /\ proc[p].eof
    /\ Exit(p, Ast[proc[p].node].cmd.status)
    /\ UNCHANGED <<pipe, typed>>

(***************************************************************************)
(* Back from exec_handler.  pc is "wait" in wait_children_status and       *)
(* "decide" after it; node is then the caller, 0 for start_pipeline.       *)
(***************************************************************************)
\* return (exec_handler(node->right, ctx))
ReturnFromRight(p) ==
    LET n == proc[p].node
    IN  /\ proc[p].pc = "return"
        /\ Parent[n] # 0
        /\ Ast[Parent[n]].right = n
        /\ Set(p, [proc[p] EXCEPT !.node = Parent[n]])
        /\ UNCHANGED <<pipe, typed>>

\* The second half of exec_pipe.
ReturnFromPipeLeft(p) ==
    LET n == proc[p].node
    IN  /\ proc[p].pc = "return"
        /\ Parent[n] # 0
        /\ Ast[Parent[n]].left = n
        /\ Ast[Parent[n]].kind = "ND_PIPE"
        /\ Set(p, [proc[p] EXCEPT !.pc = "exec", !.node = Ast[Parent[n]].right,
                                  !.out_pipe_fd = STDOUT_FILENO])
        /\ UNCHANGED <<pipe, typed>>

\* In exec_or_node, exec_and_node, exec_round_brackets and start_pipeline.
ReturnAndWait(p) ==
    LET P == proc[p]
        m == Parent[P.node]
        bracket == m # 0 /\ Ast[m].kind = "ND_RND_BRACKET"
    IN  /\ P.pc = "return"
        /\ m # 0 => Ast[m].left = P.node /\ Ast[m].kind # "ND_PIPE"
        /\ Set(p, [P EXCEPT !.node = m, !.i = 1, !.c_status = 0,
                            !.pc = IF P.pids = << >> THEN "decide" ELSE "wait",
                            !.last_status = IF bracket THEN P.ret ELSE @])
        /\ UNCHANGED <<pipe, typed>>

\* waitpid(pids[i]) may be answered by any of these children of p.
Awaited(p) == {q \in ChildrenOf(p) : proc[p].pids[proc[p].i] \in {0, q}}

\* Mutant of AfterWaitpid: the loop leaves the last child out.
WaitEndsEarly(P, s) ==
    IF P.i + 1 < Len(P.pids) THEN [P EXCEPT !.i = @ + 1, !.c_status = s]
    ELSE [P EXCEPT !.pc = "decide", !.c_status = s, !.last_status = s]

\* The loop of wait_children_status goes on, s being what waitpid reported.
AfterWaitpid(P, s) ==
    IF P.i < Len(P.pids) THEN [P EXCEPT !.i = @ + 1, !.c_status = s]
    ELSE [P EXCEPT !.pc = "decide", !.c_status = s, !.last_status = s]

WaitChild(p) ==
    /\ proc[p].pc = "wait"
    /\ \E q \in Awaited(p) :
         /\ proc[q].pc = "zombie"
         /\ proc' = [proc EXCEPT ![q] = NoProcess,
                                 ![p] = AfterWaitpid(proc[p], proc[q].c_status)]
    /\ UNCHANGED <<pipe, typed>>

\* ECHILD: the status of the last child awaited stands.
WaitNoChild(p) ==
    /\ proc[p].pc = "wait"
    /\ Awaited(p) = {}
    /\ Set(p, AfterWaitpid(proc[p], proc[p].c_status))
    /\ UNCHANGED <<pipe, typed>>

Deciding(p, kinds) ==
    /\ proc[p].pc = "decide"
    /\ proc[p].node # 0
    /\ Ast[proc[p].node].kind \in kinds

\* Mutant of Succeeded: only what exec_handler returned counts.
ReturnedZero(P) == P.ret = 0

Succeeded(P) == P.last_status = 0 /\ P.ret = 0

exec_and_node(p) ==
    /\ Deciding(p, {"ND_AND_OP"})
    /\ LET P == clear_pid_status(proc[p])
       IN  Set(p, IF Succeeded(P)
                  THEN [P EXCEPT !.pc = "exec", !.node = Ast[P.node].right,
                                 !.is_exec_in_child_ps = @ /\ P.is_in_round_bracket]
                  ELSE Return(P, IF P.last_status # 0 THEN P.last_status ELSE EXIT_FAILURE))
    /\ UNCHANGED <<pipe, typed>>

exec_or_node(p) ==
    /\ Deciding(p, {"ND_OR_OP"})
    /\ LET P == clear_pid_status(proc[p])
       IN  Set(p, IF Succeeded(P)
                  THEN Return(P, 0)
                  ELSE [P EXCEPT !.pc = "exec", !.node = Ast[P.node].right,
                                 !.is_exec_in_child_ps = @ /\ P.is_in_round_bracket])
    /\ UNCHANGED <<pipe, typed>>

EndOfBrackets(p) ==
    /\ Deciding(p, {"ND_RND_BRACKET"})
    /\ LET P == clear_pid_status(proc[p])
       IN  Set(p, Return([P EXCEPT !.is_in_round_bracket = FALSE,
                                   !.is_exec_in_child_ps = FALSE], P.last_status))
    /\ UNCHANGED <<pipe, typed>>

\* The end of start_pipeline: the tree is freed and main_loop asks for a line.
EndOfLine(p) ==
    /\ proc[p].pc = "decide"
    /\ proc[p].node = 0
    /\ Set(p, [close_stored_fds(proc[p]) EXCEPT
                 !.pc = "prompt", !.head_node = 0, !.fd_num = NoHeredocs,
                 !.ret = 0, !.c_status = 0, !.i = 0])
    /\ UNCHANGED <<pipe, typed>>

(***************************************************************************)
(* The specification.                                                      *)
(***************************************************************************)
Step(p) ==
    \/ Heredoc(p) \/ HeredocsRead(p)
    \/ exec_pipe(p) \/ exec_logical(p) \/ exec_round_brackets(p)
    \/ exec_redirect(p) \/ exec_cmd_here(p) \/ exec_cmd_forked(p)
    \/ ChildSetup(p) \/ exec_cmd(p) \/ exec_cmd_with_heredoc(p)
    \/ apply_redirects(p) \/ run_builtin(p)
    \/ Write(p) \/ Read(p) \/ ReadEof(p) \/ ProgramExit(p)
    \/ ReturnFromRight(p) \/ ReturnFromPipeLeft(p) \/ ReturnAndWait(p)
    \/ WaitChild(p) \/ WaitNoChild(p)
    \/ exec_and_node(p) \/ exec_or_node(p) \/ EndOfBrackets(p) \/ EndOfLine(p)

\* The shell is gone and so is everything it started.
Ended ==
    /\ proc[Shell].pc = "zombie"
    /\ \A p \in Proc \ {Shell} : proc[p].pc = "free"
    /\ UNCHANGED vars

Next == (\E p \in Proc : Step(p) \/ ReadLine(p) \/ EndOfInput(p)) \/ Ended

\* The kernel runs every process that can run; nobody has to type.
Spec == Init /\ [][Next]_vars /\ \A p \in Proc : WF_vars(Step(p))

(***************************************************************************)
(* Properties.                                                             *)
(***************************************************************************)
RunsShellCode(p) == proc[p].pc \notin {"free", "zombie", "program"}

\* The shell never loses track of a child: every child it has is in pids, and
\* not yet passed by the loop of wait_children_status; when it clears pids or
\* is back at the prompt it has none.  (A lost child stays a zombie for ever,
\* and && goes on before its left side is over.)
NoLostChild ==
    \A p \in Proc : RunsShellCode(p) =>
        /\ proc[p].pc \in {"prompt", "heredoc", "decide"} => ChildrenOf(p) = {}
        /\ \A q \in ChildrenOf(p) : \E j \in DOMAIN proc[p].pids :
              /\ proc[p].pids[j] = q
              /\ proc[p].pc = "wait" => proc[p].i <= j

\* A forked child never comes back as a second shell: the one process that
\* asks for lines is the one that was started.  (exec_cmd_handler relies on
\* every path through exec_cmd to exit in a child.)
OneShell == \A p \in Proc : proc[p].pc = "prompt" => p = Shell

\* Between two lines the shell has the terminal on 0, 1 and 2 and no other
\* descriptor: redirects of builtins are undone, pipes, heredocs and the saved
\* descriptors are closed.
CleanPrompt ==
    proc[Shell].pc = "prompt" =>
        \A fd \in FD : proc[Shell].fds[fd] = IF fd <= 2 THEN Tty ELSE Closed

\* A builtin in brackets or in a pipeline cannot change the shell itself.
SubshellIsolation ==
    \A p \in Proc : proc[p].pc = "builtin" /\ InSubshell[proc[p].node] => p # Shell

Runs(p) == proc[p].pc = "program" \/ (proc[p].pc = "builtin" /\ p # Shell)

\* Neighbours in a pipeline share the pipe between them, unless a redirect
\* takes the end away, and a command holds no end of a live pipe but as its
\* standard input or output (a spare end keeps a reader from its end of file,
\* or a writer from its SIGPIPE).
PipelineWired ==
    /\ \A p, q \in Proc :
         /\ Runs(p) /\ Runs(q)
         /\ proc[p].head_node = proc[q].head_node
         /\ Feeds(proc[p].node, proc[q].node)
         /\ ~ Redirects(proc[p].node, {">", ">>"})
         /\ ~ Redirects(proc[q].node, {"<", "<<"})
         => \E k \in Pipe : /\ proc[p].fds[STDOUT_FILENO] = WriteEnd(k)
                            /\ proc[q].fds[STDIN_FILENO] = ReadEnd(k)
    /\ \A p \in Proc : Runs(p) =>
         \A fd \in FD \ {STDIN_FILENO, STDOUT_FILENO} :
            LET d == proc[p].fds[fd]
            IN  d[1] # "w" /\ (d[1] = "r" => Writers(d[2]) = {})

\* While the shell waits it holds no end of a pipe that a child it waits for
\* uses the other end of: the child would wait for the shell.  (Brackets left
\* of a pipe are the exception: exec_round_brackets waits before there is a
\* reader to give the pipe to.)
NoPipeHeldInWait ==
    \A p \in Proc :
        /\ proc[p].pc = "wait"
        /\ proc[p].node # 0 => Ast[proc[p].node].kind # "ND_RND_BRACKET"
        => \A fd \in FD :
            LET d == proc[p].fds[fd]
            IN  d[1] # "w" /\ (d[1] = "r" => Writers(d[2]) = {})

\* The number of pids stays below the size of their array: the check in
\* exec_cmd_handler comes before the write, and pids is forgotten only where no
\* child is left, so the children of who runs the shell's code are never more.
PidsInBounds ==
    \A p \in Proc : /\ Len(proc[p].pids) < MaxProcessCount
                    /\ RunsShellCode(p) => Cardinality(ChildrenOf(p)) <= Len(proc[p].pids)

\* A program starts with the input its last input redirect names: the file, or
\* a pipe that holds the whole heredoc.
InputGiven(p) ==
    LET l == Ast[proc[p].node].left
        in == proc[p].fds[STDIN_FILENO]
    IN  l # 0 /\ InputOps(l) # {} =>
          LET last == Ast[l].redirects[LastOf(InputOps(l))]
          IN  IF last.op = "<" THEN in = File
              ELSE /\ in[1] = "r"
                   /\ pipe[in[2]] = last.body
                   /\ Writers(in[2]) = {}

InputDelivered ==
    [][\A p \in Proc : proc[p].pc # "program" /\ proc'[p].pc = "program"
                       => InputGiven(p)']_vars

\* The shell only ends at the end of its input or in the builtin exit: no line
\* takes it down.
OnlyExitEnds ==
    [][proc[Shell].pc # "zombie" /\ proc'[Shell].pc = "zombie" =>
         \/ proc[Shell].pc = "prompt"
         \/ proc[Shell].pc = "builtin" /\ Ast[proc[Shell].node].cmd.exits]_vars

\* The executor carries out lines as CommandLine promises: the prompt always
\* comes back, with the promised status.
Promised == INSTANCE CommandLine WITH
    mode   <- CASE proc[Shell].pc = "prompt" -> "prompt"
                [] proc[Shell].pc = "zombie" -> "ended"
                [] OTHER -> "running",
    line   <- IF proc[Shell].pc = "heredoc" THEN proc[Shell].node
              ELSE proc[Shell].head_node,
    status <- CASE proc[Shell].pc = "prompt" -> proc[Shell].last_status
                [] proc[Shell].pc = "zombie" -> proc[Shell].c_status
                [] OTHER -> 0

KeepsPromise == Promised!Spec

\* What it leaves in $? is what is promised, and only an exit that the line
\* reaches, or the end of the input, ends the shell: all of KeepsPromise but
\* that the prompt comes back.
AnswersAsPromised == Promised!Init /\ [][Promised!Next]_(Promised!vars)
=============================================================================
