--------------------------- MODULE Executor_proofs ---------------------------
(* Type correctness of the executor, and that it loses no child.  First what  *)
(* its operators return: each keeps the record of a process typed, and most   *)
(* leave it where it was in the tree.  Then each action is shown to be of one *)
(* of few shapes (Moves, Clears, a fork, a wait), and each shape to preserve  *)
(* TypeOK.  The proofs about children rest on the same shapes.                *)
EXTENDS Executor, NatSetTheorems

(***************************************************************************)
(* Descriptors.                                                            *)
(***************************************************************************)
\* The three standard descriptors exist, and the table of descriptors is finite.
LEMMA Standard == {0, 1, 2} \subseteq FD /\ FD \subseteq Nat /\ IsFiniteSet(FD)
BY BoundsAssumption, FS_Interval DEF FD

\* The kernel's choice of the c-th lowest free descriptor is one, if there are c.
LEMMA NthFreeType ==
    ASSUME NEW P, NEW c \in Nat, c > 0, c <= Cardinality(FreeFds(P))
    PROVE  NthFree(P, c) \in FD
<1>1. FreeFds(P) \subseteq FD
  BY DEF FreeFds
<1>2. FreeFds(P) \subseteq Nat /\ IsFiniteSet(FreeFds(P))
  BY <1>1, Standard, FS_Subset
<1>3. c - 1 \in Nat /\ c - 1 < Cardinality(FreeFds(P))
  BY <1>2, FS_CardinalityType
<1>4. \E fd \in FreeFds(P) : Cardinality({g \in FreeFds(P) : g < fd}) = c - 1
  BY <1>2, <1>3, NthExists
<1> QED BY <1>1, <1>4 DEF NthFree

\* The descriptions the code puts in its table are descriptions.
LEMMA DescTypes ==
    /\ Closed \in Desc /\ Tty \in Desc /\ File \in Desc
    /\ \A k \in Pipe : ReadEnd(k) \in Desc /\ WriteEnd(k) \in Desc
BY DEF Desc, Closed, Tty, File, ReadEnd, WriteEnd

\* What a step of the shell's code leaves alone, but for the steps about its
\* children, and what an operator that only moves descriptors does.
Carries(P, Q)  == Q.parent = P.parent /\ Q.pids = P.pids
SameStep(P, Q) == Q.pc = P.pc /\ Q.node = P.node /\ Carries(P, Q)

\* Giving a descriptor a new description keeps a record typed.
LEMMA SetFdType ==
    ASSUME NEW P \in Process, NEW fd \in FD, NEW d \in Desc
    PROVE  [P EXCEPT !.fds[fd] = d] \in Process /\ SameStep(P, [P EXCEPT !.fds[fd] = d])
BY DEF Process, SameStep, Carries

\* close keeps a record typed, whatever number it is given.
LEMMA CloseType ==
    ASSUME NEW P \in Process, NEW fd
    PROVE  Close(P, fd) \in Process /\ SameStep(P, Close(P, fd))
BY SetFdType, DescTypes DEF Close, SameStep, Carries

\* dup2 keeps a record typed, also when it fails.
LEMMA Dup2Type ==
    ASSUME NEW P \in Process, NEW from, NEW to \in FD
    PROVE  Dup2(P, from, to) \in Process /\ SameStep(P, Dup2(P, from, to))
<1>1. CASE IsOpen(P, from)
  <2>1. from \in FD
    BY <1>1 DEF IsOpen
  <2>2. P.fds[from] \in Desc
    BY <2>1 DEF Process
  <2> QED BY <1>1, <2>2, SetFdType DEF Dup2
<1>2. CASE ~ IsOpen(P, from)
  BY <1>2 DEF Dup2, SameStep, Carries
<1> QED BY <1>1, <1>2

\* dup2 followed by close keeps a record typed.
LEMMA MoveToType ==
    ASSUME NEW P \in Process, NEW from, NEW to \in FD
    PROVE  MoveTo(P, from, to) \in Process /\ SameStep(P, MoveTo(P, from, to))
BY Dup2Type, CloseType DEF MoveTo, SameStep, Carries

\* setup_child_process_fd_flg keeps a record typed and where it was.
LEMMA SetupType ==
    ASSUME NEW P \in Process
    PROVE  setup_child_process_fd_flg(P) \in Process /\ SameStep(P, setup_child_process_fd_flg(P))
<1> DEFINE C == ConnectInput(P)
           Q == Close(C, P.in_pipe_fd)
           R == ConnectOutput(Q)
<1>1. STDIN_FILENO \in FD /\ STDOUT_FILENO \in FD
  BY Standard DEF STDIN_FILENO, STDOUT_FILENO
<1>2. C \in Process /\ SameStep(P, C)
  BY <1>1, MoveToType DEF ConnectInput, SameStep, Carries
<1>3. Q \in Process /\ SameStep(C, Q)
  BY <1>2, CloseType
<1>4. R \in Process /\ SameStep(Q, R)
  BY <1>1, <1>3, MoveToType DEF ConnectOutput, SameStep, Carries
<1> HIDE DEF C, Q, R
<1>5. [R EXCEPT !.is_exec_in_child_ps = TRUE] \in Process
      /\ SameStep(R, [R EXCEPT !.is_exec_in_child_ps = TRUE])
  BY <1>4 DEF Process, SameStep, Carries
<1> QED BY <1>2, <1>3, <1>4, <1>5 DEF setup_child_process_fd_flg, SameStep, Carries, C, Q, R

\* reset_parent_process_fd keeps a record typed and where it was.
LEMMA ResetType ==
    ASSUME NEW P \in Process
    PROVE  reset_parent_process_fd(P) \in Process /\ SameStep(P, reset_parent_process_fd(P))
<1> DEFINE Q == Close(P, IF P.pre_in_pipe_fd # STDIN_FILENO THEN P.pre_in_pipe_fd ELSE -1)
           R == Close(Q, IF P.out_pipe_fd # STDOUT_FILENO THEN P.out_pipe_fd ELSE -1)
           T == [R EXCEPT !.pre_in_pipe_fd = P.in_pipe_fd,
                          !.in_pipe_fd = -1, !.out_pipe_fd = -1]
<1>1. Q \in Process /\ SameStep(P, Q)
  BY CloseType
<1>2. R \in Process /\ SameStep(Q, R)
  BY <1>1, CloseType
<1>3. P.in_pipe_fd \in FdOrNone /\ -1 \in FdOrNone
  BY DEF Process, FdOrNone
<1> HIDE DEF Q, R
<1>4. T \in Process /\ SameStep(R, T)
  BY <1>2, <1>3 DEF Process, SameStep, Carries
<1> QED BY <1>1, <1>2, <1>4 DEF reset_parent_process_fd, SameStep, Carries, Q, R

\* restore_std_fds keeps a record typed and where it was.
LEMMA RestoreType ==
    ASSUME NEW P \in Process
    PROVE  restore_std_fds(P) \in Process /\ SameStep(P, restore_std_fds(P))
<1>1. STDIN_FILENO \in FD /\ STDOUT_FILENO \in FD
  BY Standard DEF STDIN_FILENO, STDOUT_FILENO
<1> QED BY <1>1, Dup2Type DEF restore_std_fds, SameStep, Carries

\* close_stored_fds keeps a record typed and where it was.
LEMMA CloseStoredType ==
    ASSUME NEW P \in Process
    PROVE  close_stored_fds(P) \in Process /\ SameStep(P, close_stored_fds(P))
<1> DEFINE Q == Close(Close(P, P.stored_stdin), P.stored_stdout)
           R == [Q EXCEPT !.stored_stdin = -1, !.stored_stdout = -1]
<1>1. Q \in Process /\ SameStep(P, Q)
  BY CloseType DEF SameStep, Carries
<1> HIDE DEF Q
<1>2. -1 \in FdOrNone
  BY DEF FdOrNone
<1>3. R \in Process /\ SameStep(Q, R)
  BY <1>1, <1>2 DEF Process, SameStep, Carries
<1> QED BY <1>1, <1>3 DEF close_stored_fds, SameStep, Carries, Q

\* backup_std_fds, if two descriptors are free, keeps a record typed and
\* where it was.
LEMMA BackupType ==
    ASSUME NEW P \in Process, Cardinality(FreeFds(P)) >= 2
    PROVE  backup_std_fds(P) \in Process /\ SameStep(P, backup_std_fds(P))
<1> DEFINE Q == Close(Close(P, IF P.stored_stdin > 2 THEN P.stored_stdin ELSE -1),
                      IF P.stored_stdout > 2 THEN P.stored_stdout ELSE -1)
           in == NthFree(Q, 1)
           out == NthFree(Q, 2)
<1>1. Q \in Process /\ SameStep(P, Q)
  BY CloseType DEF SameStep, Carries
<1>2. \A R \in Process : \A fd : FreeFds(R) \subseteq FreeFds(Close(R, fd))
  BY DEF Process, Close, FreeFds
<1>3. FreeFds(P) \subseteq FreeFds(Q)
  BY <1>2, CloseType
<1> HIDE DEF Q
<1>4. Cardinality(FreeFds(Q)) >= 2 /\ Cardinality(FreeFds(Q)) \in Nat
  <2>1. IsFiniteSet(FreeFds(Q)) /\ IsFiniteSet(FreeFds(P))
    BY Standard, FS_Subset DEF FreeFds
  <2>2. Cardinality(FreeFds(P)) <= Cardinality(FreeFds(Q))
    BY <1>3, <2>1, FS_Subset
  <2> QED BY <2>1, <2>2, FS_CardinalityType
<1>5. in \in FD /\ out \in FD
  BY <1>4, NthFreeType
<1>6. Q.fds[STDIN_FILENO] \in Desc /\ Q.fds[STDOUT_FILENO] \in Desc
  BY <1>1, Standard DEF Process, STDIN_FILENO, STDOUT_FILENO
<1> DEFINE d == Q.fds[STDIN_FILENO]
           e == Q.fds[STDOUT_FILENO]
           R == [Q EXCEPT !.stored_stdin = in, !.stored_stdout = out,
                          !.fds[in] = d, !.fds[out] = e]
<1> HIDE DEF in, out, d, e
<1>7. R \in Process /\ SameStep(Q, R)
  <2> DEFINE S == [Q EXCEPT !.fds[in] = d]
             T == [S EXCEPT !.fds[out] = e]
  <2>1. S \in Process /\ SameStep(Q, S)
    BY <1>1, <1>5, <1>6, SetFdType DEF d
  <2> HIDE DEF S
  <2>2. T \in Process /\ SameStep(S, T)
    BY <2>1, <1>5, <1>6, SetFdType DEF e
  <2> HIDE DEF T
  <2>3. [T EXCEPT !.stored_stdin = in, !.stored_stdout = out] \in Process
        /\ SameStep(T, [T EXCEPT !.stored_stdin = in, !.stored_stdout = out])
    <3>1. in \in FdOrNone /\ out \in FdOrNone
      BY <1>5 DEF FdOrNone
    <3> QED BY <2>2, <3>1 DEF Process, SameStep, Carries
  <2>4. R = [T EXCEPT !.stored_stdin = in, !.stored_stdout = out]
    BY <1>1, <1>5 DEF S, T, Process
  <2> QED BY <2>1, <2>2, <2>3, <2>4 DEF SameStep, Carries
<1> QED BY <1>1, <1>7 DEF backup_std_fds, SameStep, Carries, Q, in, out, d, e

(***************************************************************************)
(* The tree, and how a process ends, returns, and is launched.             *)
(***************************************************************************)
Good == {P \in Process : AtItsNode(P)}

\* The nodes are numbered from 1 on.
LEMMA Nodes == Node = 1 .. Len(Ast) /\ Len(Ast) \in Nat /\ NodeOrNull = 0 .. Len(Ast)
<1>1. Node = 1 .. Len(Ast) /\ Len(Ast) \in Nat
  BY AstAssumption DEF Node
<1> QED BY <1>1 DEF NodeOrNull

\* What the parser guarantees of a node, in the form the steps use.
LEMMA NodeShape ==
    ASSUME NEW n \in Node
    PROVE  /\ Ast[n].left \in NodeOrNull /\ Ast[n].right \in NodeOrNull
           /\ Ast[n].kind \in {"ND_PIPE", "ND_AND_OP", "ND_OR_OP"} =>
                Ast[n].left \in Node /\ Ast[n].right \in Node
           /\ Ast[n].kind = "ND_RND_BRACKET" => Ast[n].left \in Node
           /\ Ast[n].kind = "ND_CMD" /\ Ast[n].left # 0 => Ast[n].left \in RedirectNode
           /\ Ast[n].cmd.emits \in Nat /\ Ast[n].cmd.reads \in BOOLEAN
           /\ Ast[n].cmd.status \in 0 .. 255 \cup {Stale}
           /\ Ast[n].cmd.word # "builtin" => Ast[n].cmd.status \in 0 .. 255
           /\ Ast[n].redirects \in Seq(Redirect)
<1>1. n \in 1 .. Len(Ast) /\ Ast[n] \in AstNode
  BY AstAssumption DEF Node
<1>2. Ast[n].cmd \in Command /\ Ast[n].redirects \in Seq(Redirect)
  BY <1>1 DEF AstNode
<1>3. WellFormed(n)
  BY AstAssumption
<1>4. Ast[n].left \in 0 .. n - 1 /\ Ast[n].right \in 0 .. n - 1
  BY <1>3 DEF WellFormed
<1>5. \A l \in 0 .. n - 1 : l \in NodeOrNull /\ (l # 0 => l \in Node)
  BY Nodes
<1>6. Ast[n].cmd.word # "builtin" => Ast[n].cmd.status # Stale
  BY <1>3 DEF WellFormed
<1>7. /\ Ast[n].kind \in {"ND_PIPE", "ND_AND_OP", "ND_OR_OP"} =>
           Ast[n].left # 0 /\ Ast[n].right # 0
      /\ Ast[n].kind = "ND_RND_BRACKET" => Ast[n].left # 0
      /\ Ast[n].kind = "ND_CMD" /\ Ast[n].left # 0 => Ast[n].left \in RedirectNode
  BY <1>3 DEF WellFormed
<1> QED BY <1>2, <1>4, <1>5, <1>6, <1>7 DEF Command

\* The parent of a node is a node or none.
LEMMA ParentType ==
    \A n \in Node : Parent[n] \in NodeOrNull
BY DEF Parent, NodeOrNull

\* A slot with no process is typed.
LEMMA NoProcessType == NoProcess \in Process
<1>1. NoHeredocs \in [RedirectNode -> FdOrNone]
  BY DEF NoHeredocs, FdOrNone
<1>2. [fd \in FD |-> Closed] \in [FD -> Desc]
  BY DescTypes
<1> QED BY <1>1, <1>2 DEF NoProcess, Process, PC, NodeOrNull, FdOrNone

\* What exit leaves of a process is typed and at its node.
LEMMA ZombieType ==
    ASSUME NEW s \in 0 .. 255, NEW r \in Proc \cup {0}
    PROVE  /\ [NoProcess EXCEPT !.pc = "zombie", !.c_status = s, !.parent = r] \in Good
           /\ NoProcess \in Good
<1>1. [NoProcess EXCEPT !.pc = "zombie", !.c_status = s, !.parent = r] \in Process
  BY NoProcessType DEF Process, PC
<1>2. AtItsNode([NoProcess EXCEPT !.pc = "zombie", !.c_status = s, !.parent = r])
      /\ AtItsNode(NoProcess)
  BY DEF AtItsNode, NoProcess
<1> QED BY <1>1, <1>2, NoProcessType DEF Good

\* exit keeps every process typed: the one that ends and its orphans.
LEMMA ExitInType ==
    ASSUME NEW f \in [Proc -> Good], NEW p \in Proc, NEW s \in 0 .. 255
    PROVE  ExitIn(f, p, s) \in [Proc -> Good]
<1>1. \A q \in Proc : f[q].parent \in Proc \cup {0}
  BY DEF Good, Process
<1>2. ASSUME NEW q \in Proc PROVE [f[q] EXCEPT !.parent = 0] \in Good
  <2> DEFINE Q == [f[q] EXCEPT !.parent = 0]
  <2>1. f[q] \in Process /\ AtItsNode(f[q])
    BY DEF Good
  <2>2. Q \in Process /\ Q.pc = f[q].pc /\ Q.node = f[q].node
    BY <2>1 DEF Process
  <2> QED BY <2>1, <2>2 DEF Good, AtItsNode
<1> DEFINE Left(q) == [f[q] EXCEPT !.parent = 0]
           Zombie(q) == [NoProcess EXCEPT !.pc = "zombie", !.c_status = s,
                                        !.parent = f[q].parent]
<1>3. \A q \in Proc : Zombie(q) \in Good /\ Left(q) \in Good /\ NoProcess \in Good /\ f[q] \in Good
  BY <1>1, <1>2, ZombieType
<1>4. ExitIn(f, p, s) =
        [q \in Proc |->
           CASE q = p -> IF p = Shell \/ f[p].parent # 0 THEN Zombie(p) ELSE NoProcess
             [] q # p /\ f[q].parent = p -> IF f[q].pc = "zombie" THEN NoProcess ELSE Left(q)
             [] OTHER -> f[q]]
  BY DEF ExitIn
<1> HIDE DEF Left, Zombie
<1> QED BY <1>3, <1>4

\* Returning from exec_handler keeps a record typed and at its node.
LEMMA ReturnType ==
    ASSUME NEW P \in Process, P.node \in Node, NEW v \in 0 .. 255
    PROVE  /\ Return(P, v) \in Good
           /\ Return(P, v).pc = "return" /\ Carries(P, Return(P, v))
<1> DEFINE Q == Return(P, v)
<1>1. Q \in Process /\ Q.pc = "return" /\ Q.node = P.node /\ Carries(P, Q)
  BY DEF Return, Process, PC, Carries
<1> HIDE DEF Q
<1>2. AtItsNode(Q)
  BY <1>1 DEF AtItsNode
<1> QED BY <1>1, <1>2 DEF Good, Q

\* A program's end-of-input flag may be set to either value.
LEMMA EofType ==
    ASSUME NEW P \in Process, NEW b \in BOOLEAN
    PROVE  [P EXCEPT !.eof = b] \in Process
BY DEF Process

\* Entering a builtin or a program keeps a record typed and at its node.
LEMMA LaunchType ==
    ASSUME NEW P \in Process, P.node \in Node, Ast[P.node].kind = "ND_CMD"
    PROVE  /\ Launch(P) \in Good
           /\ Launch(P).pc \in {"builtin", "program"} /\ Carries(P, Launch(P))
<1> DEFINE c == Ast[P.node].cmd
           e == c.emits
           v == IF c.word = "builtin" THEN "builtin" ELSE "program"
           R == [P EXCEPT !.pc = v, !.todo = e]
           Q == Launch(P)
<1>1. e \in Nat /\ v \in PC /\ (~ c.reads) \in BOOLEAN
  BY NodeShape DEF PC
<1>2. Q = [R EXCEPT !.eof = ~ c.reads]
  BY DEF Launch
<1> HIDE DEF e, v, Q
<1>3. R \in Process /\ R.pc = v /\ R.node = P.node /\ Carries(P, R)
  BY <1>1 DEF Process, Carries
<1> HIDE DEF R
<1>4. Q \in Process
  BY <1>1, <1>2, <1>3, EofType, Zenon
<1>5. Q.pc = v /\ Q.node = P.node /\ Carries(P, Q)
  BY <1>2, <1>3 DEF Process, Carries
<1>6. AtItsNode(Q)
  BY <1>5 DEF AtItsNode, v
<1> QED BY <1>4, <1>5, <1>6 DEF Good, Q, v

(***************************************************************************)
(* The shapes of the steps.                                                *)
(***************************************************************************)
\* A state in which every process is typed and at its node, and p is one of them.
LEMMA ProcType ==
    TypeOK <=> /\ proc \in [Proc -> Good]
               /\ pipe \in [Pipe -> 0 .. PipeCap]
               /\ typed \in 0 .. MaxLines
BY DEF TypeOK, Good

\* Replacing one process by a good one leaves all of them good.
LEMMA SetType ==
    ASSUME NEW f \in [Proc -> Good], NEW p \in Proc, NEW Q \in Good
    PROVE  [f EXCEPT ![p] = Q] \in [Proc -> Good]
OBVIOUS

\* Where nothing is asked of the node, a process is at its node if it is typed.
LEMMA QuietType ==
    ASSUME NEW P \in Process,
           P.pc \in {"free", "zombie", "prompt", "wait", "decide"}
    PROVE  P \in Good
BY DEF Good, AtItsNode

\* The state main starts the loop in is typed.
LEMMA InitType == Init => TypeOK
<1> SUFFICES ASSUME Init PROVE TypeOK
  OBVIOUS
<1>1. [fd \in FD |-> IF fd <= 2 THEN Tty ELSE Closed] \in [FD -> Desc]
  BY DescTypes
<1>2. init_ctx \in Process /\ init_ctx.pc = "prompt"
  <2>1. ASSUME NEW P \in Process, NEW f \in [FD -> Desc]
        PROVE  LET Q == [P EXCEPT !.pc = "prompt", !.fds = f]
               IN  Q \in Process /\ Q.pc = "prompt"
    BY ZenonT(60) DEF Process, PC
  <2> QED BY <1>1, <2>1, NoProcessType DEF init_ctx
<1>3. init_ctx \in Good
  BY <1>2, QuietType
<1>4. NoProcess \in Good
  BY NoProcessType DEF NoProcess, Good, AtItsNode
<1>5. typed \in 0 .. MaxLines
  BY BoundsAssumption DEF Init
<1>6. pipe \in [Pipe -> 0 .. PipeCap]
  BY BoundsAssumption DEF Init
<1>7. proc \in [Proc -> Good]
  BY <1>3, <1>4 DEF Init
<1> QED BY <1>5, <1>6, <1>7, ProcType

\* What most steps of a process p amount to: p goes on, with the same parent and
\* the same children, or it exits.  It does not come to a point where the shell
\* counts on having no children.
Busy == {"exec", "cmd", "redirect", "builtin", "program", "return"}

GoesOn(P, Q) == /\ Q \in Good
                /\ Carries(P, Q)
                /\ Q.pc \in Busy \/ (Q.pc = P.pc /\ P.pc # "wait")
                /\ P.pc = "program" => Q.pc = "program"

Moves(p) == /\ (\E Q : GoesOn(proc[p], Q) /\ Set(p, Q)) \/ (\E s \in 0 .. 255 : Exit(p, s))
            /\ pipe' \in [Pipe -> 0 .. PipeCap]
            /\ UNCHANGED typed

\* What the other steps of one process amount to: p, at a point where the shell
\* counts on having no children, forgets the children it had.
Childless == {"prompt", "heredoc", "decide"}

Clears(p) == /\ proc[p].pc \in Childless
             /\ \/ \E Q \in Good : /\ Set(p, Q)
                                   /\ Q.parent = proc[p].parent
                                   /\ Q.pids \in {<< >>, proc[p].pids}
                                   /\ Q.pc \notin {"free", "zombie"}
                \/ \E s \in 0 .. 255 : Exit(p, s)
             /\ pipe' \in [Pipe -> 0 .. PipeCap]
             /\ typed' \in 0 .. MaxLines

\* A step that leaves the pipes alone leaves them within their capacity.
LEMMA PipesType == UNCHANGED pipe /\ TypeOK => pipe' \in [Pipe -> 0 .. PipeCap]
BY DEF TypeOK

\* A step that replaces one process, or ends one, preserves TypeOK.
LEMMA Preserved ==
    ASSUME TypeOK, typed' \in 0 .. MaxLines, pipe' \in [Pipe -> 0 .. PipeCap], NEW p \in Proc,
           (\E Q \in Good : Set(p, Q)) \/ (\E s \in 0 .. 255 : Exit(p, s))
    PROVE  TypeOK'
<1>1. proc \in [Proc -> Good]
  BY ProcType
<1>2. ASSUME NEW Q \in Good, Set(p, Q) PROVE proc' \in [Proc -> Good]
  BY <1>1, <1>2, SetType DEF Set
<1>3. ASSUME NEW s \in 0 .. 255, Exit(p, s) PROVE proc' \in [Proc -> Good]
  BY <1>1, <1>3, ExitInType DEF Exit
<1>4. proc' \in [Proc -> Good]
  BY <1>2, <1>3
<1> QED BY <1>4 DEF TypeOK, Good

\* main_loop reads a line: the children of the line before are forgotten.
LEMMA ReadLineClears ==
    ASSUME TypeOK, NEW p \in Proc, ReadLine(p)
    PROVE  Clears(p)
<1> DEFINE P == proc[p]
           C == clear_ctx(P)
           E == [close_stored_fds(C) EXCEPT !.last_status = SyntaxError]
           H(root) == [C EXCEPT !.pc = "heredoc", !.node = root, !.i = 0]
<1>1. P \in Process /\ P.pc = "prompt"
  BY ProcType DEF Good, ReadLine
<1>2. typed' \in 0 .. MaxLines /\ pipe' \in [Pipe -> 0 .. PipeCap]
  BY BoundsAssumption DEF TypeOK, ReadLine
<1>3. ASSUME CanBackup(P) PROVE /\ C \in Process /\ C.pc = "prompt"
                                  /\ C.parent = P.parent /\ C.pids = << >>
  <2> DEFINE Q == [P EXCEPT !.in_pipe_fd = -1, !.out_pipe_fd = -1, !.pre_in_pipe_fd = -1,
                            !.pids = << >>, !.is_exec_in_child_ps = FALSE,
                            !.is_in_round_bracket = FALSE, !.head_node = 0]
  <2>1. Q \in Process /\ Q.pc = "prompt" /\ Q.fds = P.fds
        /\ Q.parent = P.parent /\ Q.pids = << >>
    <3>1. -1 \in FdOrNone /\ 0 \in NodeOrNull /\ << >> \in Seq(Proc \cup {0})
      BY DEF FdOrNone, NodeOrNull
    <3> QED BY <1>1, <3>1, ZenonT(60) DEF Process
  <2>2. Cardinality(FreeFds(Q)) >= 2
    BY <1>3, <2>1 DEF CanBackup, FreeFds
  <2>3. backup_std_fds(Q) \in Process /\ SameStep(Q, backup_std_fds(Q))
    BY <2>1, <2>2, BackupType
  <2> QED BY <2>1, <2>3 DEF clear_ctx, SameStep, Carries
<1>4. ASSUME CanBackup(P) PROVE /\ E \in Good /\ E.pc = "prompt"
                                  /\ E.parent = P.parent /\ E.pids = << >>
  <2> DEFINE R == close_stored_fds(C)
  <2>1. R \in Process /\ R.pc = "prompt" /\ R.parent = P.parent /\ R.pids = << >>
    BY <1>3, <1>4, CloseStoredType DEF SameStep, Carries
  <2>2. SyntaxError \in 0 .. 255
    BY DEF SyntaxError
  <2> HIDE DEF C, R
  <2>3. E \in Process /\ E.pc = "prompt" /\ E.parent = P.parent /\ E.pids = << >>
    BY <2>1, <2>2 DEF Process, R
  <2> QED BY <2>3, QuietType
<1>5. ASSUME CanBackup(P), NEW root \in Lines, root # 0
      PROVE  /\ H(root) \in Good /\ H(root).pc = "heredoc"
            /\ H(root).parent = P.parent /\ H(root).pids = << >>
  <2> DEFINE Q == H(root)
  <2>1. root \in Node
    BY <1>5, BoundsAssumption DEF NodeOrNull
  <2>2. C \in Process /\ C.parent = P.parent /\ C.pids = << >>
    BY <1>3, <1>5
  <2> HIDE DEF C
  <2>3. /\ Q \in Process /\ Q.pc = "heredoc" /\ Q.node = root
        /\ Q.parent = P.parent /\ Q.pids = << >>
    BY <2>1, <2>2, ZenonT(60) DEF Process, PC, NodeOrNull
  <2> HIDE DEF Q
  <2> QED BY <2>1, <2>3 DEF Good, AtItsNode, Q
<1>6. Exit(p, EXIT_FAILURE)
      \/ (CanBackup(P) /\ (Set(p, E) \/ \E root \in Lines : root # 0 /\ Set(p, H(root))))
  BY DEF ReadLine
<1>7. EXIT_FAILURE \in 0 .. 255
  BY DEF EXIT_FAILURE
<1> HIDE DEF E, H, C, P
<1>8. ASSUME ~ Exit(p, EXIT_FAILURE)
      PROVE  \E Q \in Good : /\ Set(p, Q) /\ Q.parent = P.parent /\ Q.pids = << >>
                             /\ Q.pc \in {"prompt", "heredoc"}
  <2>1. CASE Set(p, E)
    BY <1>4, <1>6, <1>8, <2>1
  <2>2. CASE \E root \in Lines : root # 0 /\ Set(p, H(root))
    BY <1>5, <1>6, <1>8, <2>2
  <2> QED BY <1>6, <1>8, <2>1, <2>2
<1>9. ASSUME Exit(p, EXIT_FAILURE) PROVE Clears(p)
  BY <1>1, <1>2, <1>7, <1>9 DEF Clears, Childless, P
<1> QED BY <1>1, <1>2, <1>8, <1>9 DEF Clears, Childless, P

(***************************************************************************)
(* The heredocs, the operators of the tree, and the pipe.                  *)
(***************************************************************************)
\* In a typed state each process is typed and at its node.
LEMMA Here ==
    ASSUME TypeOK, NEW p \in Proc
    PROVE  proc[p] \in Process /\ AtItsNode(proc[p])
BY DEF TypeOK

\* Where any node of the tree will do.
LEMMA AnyNodeType ==
    ASSUME NEW P \in Process, P.pc \in {"heredoc", "exec", "return"}, P.node \in Node
    PROVE  P \in Good
BY DEF Good, AtItsNode

\* Constants the code stores in the context.
LEMMA Null == /\ -1 \in FdOrNone /\ 0 \in NodeOrNull /\ << >> \in Seq(Proc \cup {0})
              /\ EXIT_FAILURE \in 0 .. 255 /\ 0 \in 0 .. 255 /\ 127 \in 0 .. 255
              /\ NoHeredocs \in [RedirectNode -> FdOrNone]
              /\ FD \subseteq FdOrNone /\ Node \subseteq NodeOrNull
BY DEF FdOrNone, NodeOrNull, EXIT_FAILURE, NoHeredocs

\* The shell ends at the end of its input.
LEMMA EndOfInputMoves ==
    ASSUME TypeOK, NEW p \in Proc, EndOfInput(p)
    PROVE  Moves(p)
<1>1. proc[p].last_status \in 0 .. 255
  BY Here DEF Process
<1> QED BY <1>1, PipesType DEF EndOfInput, Moves

\* pipe() returns a pipe, if one is unused.
LEMMA NewPipeType == UnusedPipes # {} => NewPipe \in Pipe
<1>1. UnusedPipes \subseteq Pipe /\ Pipe \subseteq Nat
  BY BoundsAssumption DEF UnusedPipes, Pipe
<1>2. UnusedPipes # {} => \E k \in UnusedPipes : \A l \in UnusedPipes : k <= l
  BY <1>1, NatMin
<1> QED BY <1>1, <1>2 DEF NewPipe

\* The heredocs of a node are finite in number, and have a last one.
LEMMA OpsType ==
    ASSUME NEW n \in Node
    PROVE  /\ IsFiniteSet(HeredocOps(n)) /\ Cardinality(HeredocOps(n)) \in Nat
           /\ HeredocOps(n) # {} => Cardinality(HeredocOps(n)) > 0
           /\ HeredocOps(n) # {} => LastOf(HeredocOps(n)) \in HeredocOps(n)
           /\ \A i \in HeredocOps(n) : Ast[n].redirects[i].body \in Nat
<1> DEFINE len == Len(Ast[n].redirects)
<1>1. len \in Nat /\ HeredocOps(n) \subseteq 1 .. len
      /\ \A i \in 1 .. len : Ast[n].redirects[i] \in Redirect
  BY NodeShape DEF HeredocOps
<1>2. IsFiniteSet(HeredocOps(n))
  <2>1. IsFiniteSet(1 .. len)
    BY <1>1, FS_Interval
  <2> HIDE DEF len
  <2> QED BY <1>1, <2>1, FS_Subset
<1>3. HeredocOps(n) # {} => LastOf(HeredocOps(n)) \in HeredocOps(n)
  <2>1. HeredocOps(n) # {} =>
          \E i \in HeredocOps(n) : \A j \in HeredocOps(n) : j <= i
    <3>1. HeredocOps(n) \subseteq Nat /\ \A i \in HeredocOps(n) : i <= len
      BY <1>1
    <3> QED BY <1>1, <3>1, NatMax
  <2> QED BY <2>1 DEF LastOf
<1>4. \A i \in HeredocOps(n) : Ast[n].redirects[i].body \in Nat
  BY <1>1 DEF Redirect
<1>5. Cardinality(HeredocOps(n)) \in Nat
      /\ (HeredocOps(n) # {} => Cardinality(HeredocOps(n)) > 0)
  BY <1>2, FS_CardinalityType, FS_EmptySet
<1> QED BY <1>2, <1>3, <1>4, <1>5

\* call_heredoc goes on to the next node, or the shell exits.
LEMMA HeredocMoves ==
    ASSUME TypeOK, NEW p \in Proc, Heredoc(p)
    PROVE  Moves(p)
<1> DEFINE P == proc[p]
           n == CHOOSE n \in HeredocNodes(P) : \A m \in HeredocNodes(P) : n <= m
           c == Cardinality(HeredocOps(n))
           fd == NthFree(P, c)
           k == NewPipe
           body == Ast[n].redirects[LastOf(HeredocOps(n))].body
           Q == [P EXCEPT !.i = n, !.fds[fd] = ReadEnd(k), !.fd_num[n] = fd]
           R == [P EXCEPT !.i = n]
<1>1. P \in Process /\ P.pc = "heredoc" /\ P.node \in Node
  BY Here DEF Heredoc, AtItsNode
<1>2. n \in Node /\ n \in Nat /\ n \in RedirectNode /\ HeredocOps(n) # {}
  <2>1. HeredocNodes(P) \subseteq Nat /\ HeredocNodes(P) # {}
    <3>1. HeredocNodes(P) \subseteq Node
      BY DEF HeredocNodes, RedirectNode
    <3>2. HeredocNodes(P) # {}
      BY DEF Heredoc
    <3> QED BY <3>1, <3>2, Nodes
  <2>2. \E m \in HeredocNodes(P) : \A l \in HeredocNodes(P) : m <= l
    BY <2>1, NatMin
  <2>3. n \in HeredocNodes(P)
    BY <2>2
  <2> QED BY <2>1, <2>3 DEF HeredocNodes, RedirectNode
<1>3. /\ c \in Nat /\ c > 0
      /\ LastOf(HeredocOps(n)) \in HeredocOps(n)
      /\ body \in Nat
  BY <1>2, OpsType
<1>4. GoesOn(P, R)
  <2> HIDE DEF n
  <2>1. R \in Process /\ R.pc = "heredoc" /\ R.node \in Node /\ Carries(P, R)
    BY <1>1, <1>2 DEF Process, Carries
  <2> HIDE DEF R
  <2> QED BY <1>1, <2>1, AnyNodeType DEF GoesOn
<1>5. CASE Cardinality(FreeFds(P)) <= c
  <2>1. Exit(p, EXIT_FAILURE) /\ UNCHANGED <<pipe, typed>>
    BY <1>5 DEF Heredoc
  <2> QED BY <2>1, Null, PipesType DEF Moves
<1>6. CASE ~ (Cardinality(FreeFds(P)) <= c) /\ ~ is_heredoc_end(n)
  <2>1. Set(p, R) /\ UNCHANGED <<pipe, typed>>
    BY <1>6 DEF Heredoc
  <2> HIDE DEF R
  <2> QED BY <1>4, <2>1, PipesType DEF Moves
<1>7. CASE ~ (Cardinality(FreeFds(P)) <= c) /\ is_heredoc_end(n)
  <2>1. /\ Set(p, Q) /\ UNCHANGED typed /\ UnusedPipes # {} /\ body <= PipeCap
        /\ pipe' = [pipe EXCEPT ![k] = body]
    BY <1>3, <1>7 DEF Heredoc
  <2>2. k \in Pipe
    BY <2>1, NewPipeType
  <2>3. fd \in FD
    <3>1. IsFiniteSet(FreeFds(P))
      BY Standard, FS_Subset DEF FreeFds
    <3>2. c <= Cardinality(FreeFds(P))
      BY <1>3, <1>7, <3>1, FS_CardinalityType
    <3> QED BY <1>3, <3>2, NthFreeType
  <2>4. GoesOn(P, Q)
    <3> DEFINE S == [P EXCEPT !.fds[fd] = ReadEnd(k)]
    <3>1. S \in Process /\ SameStep(P, S)
      BY <1>1, <2>2, <2>3, DescTypes, SetFdType
    <3>2. Q = [S EXCEPT !.i = n, !.fd_num[n] = fd]
      <4> HIDE DEF n, fd, k
      <4> QED BY <1>1 DEF Process
    <3> HIDE DEF S, Q, fd, n
    <3>3. Q \in Process /\ SameStep(S, Q)
      <4>1. n \in Nat /\ n \in RedirectNode /\ fd \in FdOrNone
        BY <1>2, <2>3, Null
      <4> DEFINE T == [S EXCEPT !.i = n]
      <4>2. T \in Process /\ SameStep(S, T)
        BY <3>1, <4>1, ZenonT(60) DEF Process, SameStep, Carries
      <4>3. Q = [T EXCEPT !.fd_num[n] = fd]
        BY <3>1, <3>2 DEF Process
      <4> HIDE DEF T
      <4>4. /\ [T EXCEPT !.fd_num[n] = fd] \in Process
            /\ SameStep(T, [T EXCEPT !.fd_num[n] = fd])
        BY <4>1, <4>2, ZenonT(60) DEF Process, SameStep, Carries
      <4> QED BY <4>2, <4>3, <4>4 DEF SameStep, Carries
    <3>4. Q.pc = "heredoc" /\ Q.node \in Node /\ Carries(P, Q)
      BY <1>1, <3>1, <3>3 DEF SameStep, Carries
    <3> QED BY <1>1, <3>3, <3>4, AnyNodeType DEF GoesOn
  <2>5. pipe' \in [Pipe -> 0 .. PipeCap]
    <3>1. pipe \in [Pipe -> 0 .. PipeCap] /\ body \in 0 .. PipeCap
      BY <1>3, <2>1, BoundsAssumption DEF TypeOK
    <3> HIDE DEF body, k
    <3> QED BY <2>1, <2>2, <3>1
  <2> HIDE DEF Q
  <2> QED BY <2>1, <2>4, <2>5 DEF Moves
<1> QED BY <1>5, <1>6, <1>7

\* After the heredocs the shell executes the line.
LEMMA HeredocsReadMoves ==
    ASSUME TypeOK, NEW p \in Proc, HeredocsRead(p)
    PROVE  Moves(p)
<1> DEFINE P == proc[p]
           Q == [P EXCEPT !.pc = "exec", !.head_node = P.node]
<1>1. P \in Process /\ P.node \in Node /\ P.pc = "heredoc"
  BY Here DEF HeredocsRead, AtItsNode
<1>2. Q \in Process /\ Q.pc = "exec" /\ Q.node \in Node /\ Carries(P, Q)
  BY <1>1, Null, ZenonT(60) DEF Process, PC, Carries
<1>3. GoesOn(P, Q)
  <2> HIDE DEF Q
  <2> QED BY <1>1, <1>2, AnyNodeType DEF GoesOn, Busy
<1> QED BY <1>3, PipesType DEF HeredocsRead, Moves

\* exec_pipe opens a pipe and goes on with the left side.
LEMMA exec_pipeMoves ==
    ASSUME TypeOK, NEW p \in Proc, exec_pipe(p)
    PROVE  Moves(p)
<1> DEFINE P == proc[p]
           r == NthFree(P, 1)
           w == NthFree(P, 2)
           k == NewPipe
           l == Ast[P.node].left
           Q == [P EXCEPT !.fds = [@ EXCEPT ![r] = ReadEnd(k), ![w] = WriteEnd(k)],
                          !.is_exec_in_child_ps = TRUE,
                          !.in_pipe_fd = r, !.out_pipe_fd = w, !.node = l]
<1>1. P \in Process /\ P.pc = "exec" /\ P.node \in Node /\ l \in Node
  BY Here, NodeShape DEF exec_pipe, AtNode, AtItsNode
<1>2. CASE Cardinality(FreeFds(P)) < 2
  <2>1. Exit(p, EXIT_FAILURE) /\ UNCHANGED <<pipe, typed>>
    BY <1>2 DEF exec_pipe
  <2> QED BY <2>1, Null, PipesType DEF Moves
<1>3. CASE ~ (Cardinality(FreeFds(P)) < 2)
  <2>1. /\ Set(p, Q) /\ UNCHANGED typed /\ UnusedPipes # {}
        /\ pipe' = [pipe EXCEPT ![k] = 0]
    BY <1>3 DEF exec_pipe
  <2>2. k \in Pipe
    BY <2>1, NewPipeType
  <2>3. r \in FD /\ w \in FD
    <3>1. IsFiniteSet(FreeFds(P))
      BY Standard, FS_Subset DEF FreeFds
    <3>2. 2 <= Cardinality(FreeFds(P)) /\ Cardinality(FreeFds(P)) \in Nat
      BY <1>3, <3>1, FS_CardinalityType
    <3> QED BY <3>2, NthFreeType
  <2>4. GoesOn(P, Q)
    <3> DEFINE f == [P.fds EXCEPT ![r] = ReadEnd(k), ![w] = WriteEnd(k)]
    <3>1. f \in [FD -> Desc]
      BY <1>1, <2>2, DescTypes DEF Process
    <3>2. Q = [P EXCEPT !.fds = f, !.is_exec_in_child_ps = TRUE,
                        !.in_pipe_fd = r, !.out_pipe_fd = w, !.node = l]
      BY <1>1 DEF Process
    <3> HIDE DEF f, r, w, l, Q
    <3>3. r \in FdOrNone /\ w \in FdOrNone /\ l \in NodeOrNull
      BY <1>1, <2>3, Null DEF l
    <3>4. Q \in Process
      <4> DEFINE S == [P EXCEPT !.fds = f, !.is_exec_in_child_ps = TRUE]
                 T == [S EXCEPT !.in_pipe_fd = r, !.out_pipe_fd = w]
      <4>1. S \in Process
        BY <1>1, <3>1 DEF Process
      <4>2. Q = [T EXCEPT !.node = l]
        BY <1>1, <3>2 DEF Process
      <4> HIDE DEF S
      <4>3. T \in Process
        BY <3>3, <4>1 DEF Process
      <4> HIDE DEF T
      <4>4. [T EXCEPT !.node = l] \in Process
        BY <3>3, <4>3 DEF Process
      <4> QED BY <4>2, <4>4
    <3>5. Q.pc = "exec" /\ Q.node \in Node /\ Carries(P, Q)
      BY <1>1, <3>2 DEF Process, l, Carries
    <3> QED BY <1>1, <3>4, <3>5, AnyNodeType DEF GoesOn, Busy
  <2>5. pipe' \in [Pipe -> 0 .. PipeCap]
    <3>1. 0 \in 0 .. PipeCap /\ pipe \in [Pipe -> 0 .. PipeCap]
      BY BoundsAssumption DEF TypeOK
    <3> HIDE DEF k
    <3> QED BY <2>1, <2>2, <3>1
  <2> HIDE DEF Q
  <2> QED BY <2>1, <2>4, <2>5 DEF Moves
<1> QED BY <1>2, <1>3

(***************************************************************************)
(* Commands: with and without fork.                                        *)
(***************************************************************************)
\* exec_and_node and exec_or_node begin with the left side.
LEMMA exec_logicalMoves ==
    ASSUME TypeOK, NEW p \in Proc, exec_logical(p)
    PROVE  Moves(p)
<1> DEFINE P == proc[p]
           l == Ast[P.node].left
           Q == [P EXCEPT !.node = l]
<1>1. P \in Process /\ P.pc = "exec" /\ l \in Node /\ l \in NodeOrNull
  BY Here, NodeShape, Null DEF exec_logical, AtNode, AtItsNode
<1>2. Q \in Process /\ Q.pc = "exec" /\ Q.node \in Node /\ Carries(P, Q)
  <2> HIDE DEF l
  <2> QED BY <1>1, ZenonT(60) DEF Process, Carries
<1>3. GoesOn(P, Q)
  <2> HIDE DEF Q
  <2> QED BY <1>1, <1>2, AnyNodeType DEF GoesOn, Busy
<1> QED BY <1>3, PipesType DEF exec_logical, Moves

\* exec_round_brackets begins with the node inside.
LEMMA exec_round_bracketsMoves ==
    ASSUME TypeOK, NEW p \in Proc, exec_round_brackets(p)
    PROVE  Moves(p)
<1> DEFINE P == proc[p]
           l == Ast[P.node].left
           Q == [P EXCEPT !.is_exec_in_child_ps = TRUE, !.is_in_round_bracket = TRUE,
                          !.node = l]
<1>1. P \in Process /\ P.pc = "exec" /\ l \in Node /\ l \in NodeOrNull
  BY Here, NodeShape, Null DEF exec_round_brackets, AtNode, AtItsNode
<1>2. Q \in Process /\ Q.pc = "exec" /\ Q.node \in Node /\ Carries(P, Q)
  <2> HIDE DEF l
  <2> QED BY <1>1 DEF Process, Carries
<1>3. GoesOn(P, Q)
  <2> HIDE DEF Q
  <2> QED BY <1>1, <1>2, AnyNodeType DEF GoesOn, Busy
<1> QED BY <1>3, PipesType DEF exec_round_brackets, Moves

\* exec_redirect begins to apply the redirections.
LEMMA exec_redirectMoves ==
    ASSUME TypeOK, NEW p \in Proc, exec_redirect(p)
    PROVE  Moves(p)
<1> DEFINE P == proc[p]
           Q == [P EXCEPT !.pc = "redirect", !.i = 1]
<1>1. P \in Process /\ P.pc = "exec" /\ P.node \in Node
      /\ Ast[P.node].kind = "ND_REDIRECTS"
  BY Here DEF exec_redirect, AtNode, AtItsNode
<1>2. Q \in Process /\ Q.pc = "redirect" /\ Q.node = P.node /\ Carries(P, Q)
  BY <1>1, ZenonT(60) DEF Process, PC, Carries
<1>3. GoesOn(P, Q)
  <2> HIDE DEF Q
  <2> QED BY <1>1, <1>2 DEF Good, AtItsNode, GoesOn, Busy
<1> QED BY <1>3, PipesType DEF exec_redirect, Moves

\* exec_cmd_handler runs a command without fork.
LEMMA exec_cmd_hereMoves ==
    ASSUME TypeOK, NEW p \in Proc, exec_cmd_here(p)
    PROVE  Moves(p)
<1> DEFINE P == proc[p]
           Q == [P EXCEPT !.pc = "cmd"]
<1>1. P \in Process /\ P.pc = "exec" /\ P.node \in Node
      /\ Ast[P.node].kind = "ND_CMD"
  BY Here DEF exec_cmd_here, AtNode, AtItsNode
<1>2. Q \in Process /\ Q.pc = "cmd" /\ Q.node = P.node /\ Carries(P, Q)
  BY <1>1, ZenonT(60) DEF Process, PC, Carries
<1>3. GoesOn(P, Q)
  <2> HIDE DEF Q
  <2> QED BY <1>1, <1>2 DEF Good, AtItsNode, GoesOn, Busy
<1> QED BY <1>3, PipesType DEF exec_cmd_here, Moves

\* fork returns a free slot, if there is one.
LEMMA NewProcessType ==
    FreeSlots # {} => NewProcess \in Proc /\ NewProcess # Shell
                      /\ proc[NewProcess].pc = "free"
<1>1. FreeSlots \subseteq Nat
  BY BoundsAssumption DEF FreeSlots, Proc
<1>2. FreeSlots # {} => \E q \in FreeSlots : \A r \in FreeSlots : q <= r
  BY <1>1, NatMin
<1>3. FreeSlots # {} => NewProcess \in FreeSlots
  BY <1>2 DEF NewProcess
<1> QED BY <1>3 DEF FreeSlots

\* What exec_cmd_forked makes of the processes: the child, the parent after fork,
\* both of them, and the parent at the end of the step.
ForkedChild(p)  == [proc[p] EXCEPT !.pc = "child", !.parent = p, !.pids = Append(@, 0)]
ForkedParent(p) == [proc[p] EXCEPT !.pids = Append(@, NewProcess)]
AfterFork(p)    == [proc EXCEPT ![NewProcess] = ForkedChild(p), ![p] = ForkedParent(p)]
ParentDone(p)   == Return(CloseHeredoc(reset_parent_process_fd(ForkedParent(p))), 0)

\* The three outcomes of exec_cmd_handler's fork: a failure, or success with
\* or without an exit of the parent afterwards.
LEMMA ForkCases ==
    ASSUME NEW p \in Proc, exec_cmd_forked(p)
    PROVE  \/ Exit(p, EXIT_FAILURE)
           \/ /\ FreeSlots # {}
              /\ \/ proc' = ExitIn(AfterFork(p), p, EXIT_FAILURE)
                 \/ proc' = [AfterFork(p) EXCEPT ![p] = ParentDone(p)]
BY DEF exec_cmd_forked, ForkedChild, ForkedParent, AfterFork, ParentDone

\* Both sides of the fork are good, and what the parent and the child know.
LEMMA ForkType ==
    ASSUME TypeOK, NEW p \in Proc, exec_cmd_forked(p), FreeSlots # {}
    PROVE  /\ NewProcess \in Proc \ {p} /\ proc[NewProcess].pc = "free"
           /\ ForkedChild(p).pc = "child" /\ ForkedChild(p).parent = p
           /\ ForkedParent(p).pc = "exec"
           /\ ForkedParent(p).parent = proc[p].parent
           /\ ForkedParent(p).pids = Append(proc[p].pids, NewProcess)
           /\ AfterFork(p) \in [Proc -> Good]
           /\ ParentDone(p) \in Good /\ ParentDone(p).pc = "return"
           /\ Carries(ForkedParent(p), ParentDone(p))
<1> DEFINE P == proc[p]
           q == NewProcess
           child == ForkedChild(p)
           forked == ForkedParent(p)
           done == ParentDone(p)
<1>1. /\ P \in Process /\ P.pc = "exec" /\ P.node \in Node
      /\ Ast[P.node].kind = "ND_CMD" /\ proc \in [Proc -> Good]
  BY Here, ProcType DEF exec_cmd_forked, AtNode, AtItsNode
<1>2. q \in Proc \ {p} /\ proc[q].pc = "free"
  BY <1>1, NewProcessType
<1>3. child \in Good /\ child.pc = "child" /\ child.parent = p
  <2> DEFINE ids == Append(P.pids, 0)
  <2>1. child = [P EXCEPT !.pc = "child", !.parent = p, !.pids = ids]
    BY <1>1 DEF Process, ForkedChild
  <2>2. ids \in Seq(Proc \cup {0})
    BY <1>1 DEF Process
  <2> HIDE DEF ids
  <2>3. [P EXCEPT !.pc = "child", !.parent = p, !.pids = ids] \in Process
    BY <1>1, <2>2 DEF Process, PC
  <2>4. child.pc = "child" /\ child.node = P.node /\ child.parent = p
    BY <1>1 DEF Process, ForkedChild
  <2> HIDE DEF child
  <2> QED BY <1>1, <2>1, <2>3, <2>4 DEF Good, AtItsNode
<1>4. /\ forked \in Process /\ forked.pc = "exec" /\ forked.node = P.node
      /\ forked.parent = P.parent /\ forked.pids = Append(P.pids, q)
  <2> DEFINE ids == Append(P.pids, q)
  <2>1. forked = [P EXCEPT !.pids = ids]
    BY <1>1 DEF Process, ForkedParent
  <2>2. ids \in Seq(Proc \cup {0})
    BY <1>1, <1>2 DEF Process
  <2> HIDE DEF ids
  <2>3. [P EXCEPT !.pids = ids] \in Process
    BY <1>1, <2>2 DEF Process
  <2>4. /\ forked.pc = "exec" /\ forked.node = P.node
        /\ forked.parent = P.parent /\ forked.pids = ids
    BY <1>1, <2>1 DEF Process
  <2> HIDE DEF forked
  <2> QED BY <2>1, <2>3, <2>4 DEF ids
<1>5. forked \in Good
  BY <1>1, <1>4, AnyNodeType
<1>6. AfterFork(p) \in [Proc -> Good]
  <2> HIDE DEF child, forked, q
  <2>1. [proc EXCEPT ![q] = child, ![p] = forked] \in [Proc -> Good]
    BY <1>1, <1>2, <1>3, <1>5
  <2> QED BY <2>1 DEF AfterFork, child, forked, q
<1>7. done \in Good /\ done.pc = "return" /\ Carries(forked, done)
  <2> DEFINE R == reset_parent_process_fd(forked)
             C == CloseHeredoc(R)
  <2>1. done = Return(C, 0)
    BY DEF ParentDone
  <2> HIDE DEF forked, done
  <2>2. R \in Process /\ R.node = P.node /\ Carries(forked, R)
    BY <1>4, ResetType DEF SameStep
  <2> HIDE DEF R
  <2>3. C \in Process /\ C.node = P.node /\ Carries(forked, C)
    BY <2>2, CloseType DEF CloseHeredoc, SameStep, Carries
  <2> HIDE DEF C
  <2> QED BY <1>1, <2>1, <2>3, Null, ReturnType, ZenonT(60) DEF Carries
<1> QED BY <1>2, <1>3, <1>4, <1>6, <1>7

\* exec_cmd_handler's fork preserves TypeOK.
LEMMA exec_cmd_forkedType ==
    ASSUME TypeOK, NEW p \in Proc, exec_cmd_forked(p)
    PROVE  TypeOK'
<1>1. UNCHANGED <<pipe, typed>>
  BY DEF exec_cmd_forked
<1>2. proc' \in [Proc -> Good]
  <2>1. proc \in [Proc -> Good]
    BY ProcType
  <2>2. EXIT_FAILURE \in 0 .. 255
    BY DEF EXIT_FAILURE
  <2>3. CASE Exit(p, EXIT_FAILURE)
    BY <2>1, <2>2, <2>3, ExitInType DEF Exit
  <2>4. CASE FreeSlots # {} /\ proc' = ExitIn(AfterFork(p), p, EXIT_FAILURE)
    <3>1. AfterFork(p) \in [Proc -> Good]
      BY <2>4, ForkType
    <3> QED BY <2>2, <2>4, <3>1, ExitInType
  <2>5. CASE FreeSlots # {} /\ proc' = [AfterFork(p) EXCEPT ![p] = ParentDone(p)]
    <3>1. AfterFork(p) \in [Proc -> Good] /\ ParentDone(p) \in Good
      BY <2>5, ForkType
    <3> QED BY <2>5, <3>1, SetType
  <2> QED BY <2>3, <2>4, <2>5, ForkCases
<1> QED BY <1>1, <1>2 DEF TypeOK, Good

\* The forked child connects itself and goes on to exec_cmd.
LEMMA ChildSetupMoves ==
    ASSUME TypeOK, NEW p \in Proc, ChildSetup(p)
    PROVE  Moves(p)
<1> DEFINE P == proc[p]
           S == setup_child_process_fd_flg(P)
           Q == [S EXCEPT !.pc = "cmd"]
<1>1. P \in Process /\ P.pc = "child" /\ P.node \in Node
      /\ Ast[P.node].kind = "ND_CMD"
  BY Here DEF ChildSetup, AtItsNode
<1>2. S \in Process /\ S.node = P.node /\ Carries(P, S)
  BY <1>1, SetupType DEF SameStep
<1>3. Q \in Process /\ Q.pc = "cmd" /\ Q.node = P.node /\ Carries(P, Q)
  <2> HIDE DEF S
  <2> QED BY <1>2, ZenonT(60) DEF Process, PC, Carries
<1>4. GoesOn(P, Q)
  <2> HIDE DEF Q
  <2> QED BY <1>1, <1>3 DEF Good, AtItsNode, GoesOn, Busy
<1> QED BY <1>4, PipesType DEF ChildSetup, Moves

(***************************************************************************)
(* Expansion, redirections, builtins.                                      *)
(***************************************************************************)
\* What follows the expansion, from a record P that p has come to in exec_cmd.
LEMMA AfterExpansionMoves ==
    ASSUME TypeOK, NEW p \in Proc, proc[p].pc = "cmd",
           NEW P \in Process, P.node \in Node, Ast[P.node].kind = "ND_CMD",
           Carries(proc[p], P), AfterExpansion(p, P),
           UNCHANGED typed, pipe' \in [Pipe -> 0 .. PipeCap]
    PROVE  Moves(p)
<1> DEFINE R == [P EXCEPT !.last_status = 127]
           Q == [P EXCEPT !.pc = "redirect", !.i = 1]
           T == Return(R, EXIT_FAILURE)
<1>1. R \in Process /\ R.node = P.node /\ Carries(P, R)
  BY Null, ZenonT(60) DEF Process, Carries
<1>2. T \in Good /\ T.pc = "return" /\ Carries(P, T)
  <2> HIDE DEF R
  <2> QED BY <1>1, Null, ReturnType DEF Carries
<1>3. Q \in Good /\ Q.pc = "redirect" /\ Carries(P, Q)
  <2>1. Q \in Process /\ Q.pc = "redirect" /\ Q.node = P.node /\ Carries(P, Q)
    BY ZenonT(60) DEF Process, PC, Carries
  <2> HIDE DEF Q
  <2> QED BY <2>1 DEF Good, AtItsNode
<1>4. Launch(P) \in Good /\ Launch(P).pc \in {"builtin", "program"} /\ Carries(P, Launch(P))
  BY LaunchType
<1>5. Exit(p, 127) \/ Set(p, T) \/ Set(p, Q) \/ Set(p, Launch(P))
  BY DEF AfterExpansion
<1> HIDE DEF T, Q
<1>6. GoesOn(proc[p], T) /\ GoesOn(proc[p], Q) /\ GoesOn(proc[p], Launch(P))
  BY <1>2, <1>3, <1>4 DEF GoesOn, Busy, Carries
<1> QED BY <1>5, <1>6, Null DEF Moves

\* exec_cmd without a heredoc to expand.
LEMMA exec_cmdMoves ==
    ASSUME TypeOK, NEW p \in Proc, exec_cmd(p)
    PROVE  Moves(p)
<1>1. /\ proc[p] \in Process /\ proc[p].pc = "cmd" /\ proc[p].node \in Node
      /\ Ast[proc[p].node].kind = "ND_CMD" /\ Carries(proc[p], proc[p])
  BY Here DEF exec_cmd, AtItsNode, Carries
<1>2. AfterExpansion(p, proc[p]) /\ UNCHANGED <<pipe, typed>>
  BY DEF exec_cmd
<1> QED BY <1>1, <1>2, PipesType, AfterExpansionMoves

\* exec_cmd with one: expand_heredoc_var replaces the heredoc's pipe.
LEMMA exec_cmd_with_heredocMoves ==
    ASSUME TypeOK, NEW p \in Proc, exec_cmd_with_heredoc(p)
    PROVE  Moves(p)
<1> DEFINE P == proc[p]
           l == Ast[P.node].left
           old == P.fds[P.fd_num[l]]
           fd == NthFree(P, 1)
           k == NewPipe
           S == [P EXCEPT !.fds[fd] = ReadEnd(k)]
           Q == [P EXCEPT !.fds[fd] = ReadEnd(k), !.fd_num[l] = fd]
<1>1. /\ P \in Process /\ P.pc = "cmd" /\ P.node \in Node
      /\ Ast[P.node].kind = "ND_CMD" /\ l # 0 /\ P.fd_num[l] # -1
  BY Here DEF exec_cmd_with_heredoc, AtItsNode, HasHeredoc
<1>2. l \in RedirectNode
  BY <1>1, NodeShape
<1>3. old \in Desc
  <2>1. P.fd_num[l] \in FD
    BY <1>1, <1>2 DEF Process, FdOrNone
  <2> QED BY <1>1, <2>1 DEF Process
<1>4. /\ Cardinality(FreeFds(P)) >= 2 /\ UnusedPipes # {} /\ UNCHANGED typed
      /\ AfterExpansion(p, Q)
      /\ pipe' = [j \in Pipe |->
                    CASE old = ReadEnd(j) -> 0
                      [] j = k /\ old[1] = "r" -> pipe[old[2]]
                      [] j = k /\ old[1] # "r" -> 0
                      [] OTHER -> pipe[j]]
  BY DEF exec_cmd_with_heredoc
<1>5. fd \in FD /\ k \in Pipe
  <2>1. IsFiniteSet(FreeFds(P))
    BY Standard, FS_Subset DEF FreeFds
  <2>2. Cardinality(FreeFds(P)) \in Nat
    BY <2>1, FS_CardinalityType
  <2>3. Cardinality(FreeFds(P)) >= 2
    BY <1>4
  <2>4. 1 <= Cardinality(FreeFds(P))
    BY <2>2, <2>3
  <2>5. fd \in FD
    BY <2>4, NthFreeType
  <2>6. k \in Pipe
    BY <1>4, NewPipeType
  <2> QED BY <2>5, <2>6
<1>6. Q \in Process /\ Q.node = P.node /\ Carries(P, Q)
  <2>1. S \in Process /\ S.node = P.node /\ Carries(P, S)
    BY <1>1, <1>5, DescTypes, SetFdType DEF SameStep
  <2>2. Q = [S EXCEPT !.fd_num[l] = fd]
    <3> HIDE DEF l, fd, k
    <3> QED BY <1>1 DEF Process
  <2> HIDE DEF S
  <2>3. fd \in FdOrNone
    BY <1>5, Null
  <2> HIDE DEF fd, l
  <2>4. [S EXCEPT !.fd_num[l] = fd] \in Process
        /\ [S EXCEPT !.fd_num[l] = fd].node = S.node
        /\ Carries(S, [S EXCEPT !.fd_num[l] = fd])
    BY <1>2, <2>1, <2>3, ZenonT(60) DEF Process, Carries
  <2> QED BY <2>1, <2>2, <2>4 DEF Carries
<1>7. pipe' \in [Pipe -> 0 .. PipeCap]
  <2>1. pipe \in [Pipe -> 0 .. PipeCap] /\ 0 \in 0 .. PipeCap
    BY BoundsAssumption DEF TypeOK
  <2>2. old[1] = "r" => old[2] \in Pipe
    BY <1>3 DEF Desc
  <2> HIDE DEF old, k
  <2> QED BY <1>4, <2>1, <2>2
<1> HIDE DEF Q
<1> QED BY <1>1, <1>4, <1>6, <1>7, AfterExpansionMoves

\* Standard input and output can always be replaced by a file.
LEMMA OpenedAsType ==
    ASSUME NEW P \in Process, NEW r
    PROVE  OpenedAs(P, r) \in Process /\ SameStep(P, OpenedAs(P, r))
<1> DEFINE std == IF r.op = "<" THEN STDIN_FILENO ELSE STDOUT_FILENO
           S == [P EXCEPT !.fds[std] = File]
<1>1. std \in FD
  BY Standard DEF STDIN_FILENO, STDOUT_FILENO
<1>2. S \in Process /\ SameStep(P, S)
  BY <1>1, DescTypes, SetFdType
<1>3. OpenedAs(P, r) = [S EXCEPT !.last_status = 0]
  <2> HIDE DEF std
  <2>1. OpenedAs(P, r) = [P EXCEPT !.fds[std] = File, !.last_status = 0]
    BY DEF OpenedAs, std
  <2> QED BY <2>1 DEF Process
<1> HIDE DEF S
<1>4. [S EXCEPT !.last_status = 0] \in Process /\ SameStep(S, [S EXCEPT !.last_status = 0])
  BY <1>2, Null, ZenonT(60) DEF Process, SameStep, Carries
<1> QED BY <1>2, <1>3, <1>4 DEF SameStep, Carries

\* A redirection to a file keeps a record typed, if it fails too.
LEMMA redirect_fileType ==
    ASSUME NEW P \in Process, NEW r
    PROVE  redirect_file(P, r) \in Process /\ SameStep(P, redirect_file(P, r))
<1>1. [P EXCEPT !.last_status = EXIT_FAILURE] \in Process
      /\ SameStep(P, [P EXCEPT !.last_status = EXIT_FAILURE])
  BY Null DEF Process, SameStep, Carries
<1> QED BY <1>1, OpenedAsType DEF redirect_file

\* redirect_here_doc keeps a record typed.
LEMMA redirect_here_docType ==
    ASSUME NEW P \in Process, NEW n
    PROVE  redirect_here_doc(P, n) \in Process /\ SameStep(P, redirect_here_doc(P, n))
<1> DEFINE S == MoveTo(P, P.fd_num[n], STDIN_FILENO)
           Q == [S EXCEPT !.last_status = 0, !.fd_num[n] = -1]
<1>1. S \in Process /\ SameStep(P, S)
  BY Standard, MoveToType DEF STDIN_FILENO
<1> HIDE DEF S
<1>2. Q \in Process /\ SameStep(S, Q)
  BY <1>1, Null, ZenonT(60) DEF Process, SameStep, Carries
<1>3. redirect_here_doc(P, n) = Q \/ redirect_here_doc(P, n) = P
  BY DEF redirect_here_doc, S
<1> QED BY <1>1, <1>2, <1>3 DEF SameStep, Carries

\* After the last redirection a command is run or the node returns.
LEMMA AfterRedirectsType ==
    ASSUME NEW P \in Process, P.node \in Node,
           Ast[P.node].kind \in {"ND_CMD", "ND_REDIRECTS"}
    PROVE  /\ AfterRedirects(P) \in Good
           /\ AfterRedirects(P).pc \in {"return", "builtin", "program"}
           /\ Carries(P, AfterRedirects(P))
<1> DEFINE R == restore_std_fds(P)
<1>1. P.last_status \in 0 .. 255
  BY DEF Process
<1>2. R \in Process /\ R.node = P.node /\ Carries(P, R)
  BY RestoreType DEF SameStep
<1> HIDE DEF R
<1>3. CASE Ast[P.node].kind = "ND_REDIRECTS"
  <2>1. AfterRedirects(P) = Return(R, P.last_status)
    BY <1>3 DEF AfterRedirects, R
  <2> QED BY <1>1, <1>2, <2>1, ReturnType, ZenonT(60) DEF Carries
<1>4. CASE Ast[P.node].kind = "ND_CMD"
  <2> DEFINE v == IF P.is_exec_in_child_ps THEN 0 ELSE EXIT_FAILURE
  <2>1. v \in 0 .. 255
    BY Null
  <2>2. AfterRedirects(P) = Return(P, v) \/ AfterRedirects(P) = Launch(P)
    BY <1>4 DEF AfterRedirects
  <2> HIDE DEF v
  <2> QED BY <1>4, <2>1, <2>2, ReturnType, LaunchType
<1> QED BY <1>3, <1>4

\* apply_redirects goes on to the next redirection, to the command, or exits.
LEMMA apply_redirectsMoves ==
    ASSUME TypeOK, NEW p \in Proc, apply_redirects(p)
    PROVE  Moves(p)
<1> DEFINE P == proc[p]
           n == IF Ast[P.node].kind = "ND_CMD" THEN Ast[P.node].left ELSE P.node
           r == Ast[n].redirects[P.i]
           Q == IF r.op = "<<" THEN redirect_here_doc(P, n) ELSE redirect_file(P, r)
           R == [Q EXCEPT !.i = P.i + 1]
<1>1. /\ P \in Process /\ P.pc = "redirect" /\ P.node \in Node
      /\ Ast[P.node].kind \in {"ND_CMD", "ND_REDIRECTS"}
  BY Here DEF apply_redirects, AtItsNode
<1>2. Q \in Process /\ SameStep(P, Q)
  BY <1>1, redirect_here_docType, redirect_fileType
<1>3. Exit(p, EXIT_FAILURE) \/ Set(p, AfterRedirects(Q)) \/ Set(p, R)
  BY DEF apply_redirects
<1> HIDE DEF Q
<1>4. GoesOn(P, AfterRedirects(Q))
  <2>1. /\ AfterRedirects(Q) \in Good /\ Carries(Q, AfterRedirects(Q))
        /\ AfterRedirects(Q).pc \in {"return", "builtin", "program"}
    BY <1>1, <1>2, AfterRedirectsType DEF SameStep
  <2> QED BY <1>1, <1>2, <2>1 DEF SameStep, Carries, GoesOn, Busy
<1>5. GoesOn(P, R)
  <2>1. P.i + 1 \in Nat
    BY <1>1 DEF Process
  <2>2. R \in Process /\ SameStep(Q, R)
    BY <1>2, <2>1, ZenonT(60) DEF Process, SameStep, Carries
  <2> HIDE DEF R
  <2> QED BY <1>1, <1>2, <2>2 DEF SameStep, Good, AtItsNode, GoesOn, Carries, Busy
<1>6. UNCHANGED <<pipe, typed>>
  BY DEF apply_redirects
<1> HIDE DEF R
<1> QED BY <1>3, <1>4, <1>5, <1>6, Null, PipesType DEF Moves

\* run_builtin returns the builtin's status, or exits with it.
LEMMA run_builtinMoves ==
    ASSUME TypeOK, NEW p \in Proc, run_builtin(p)
    PROVE  Moves(p)
<1> DEFINE P == proc[p]
           s == BuiltinStatus(P)
           Q == [P EXCEPT !.last_status = s]
           R == IF s = 0 THEN restore_std_fds(Q) ELSE Q
<1>1. P \in Process /\ P.pc = "builtin" /\ P.node \in Node
  BY Here DEF run_builtin, AtItsNode
<1>2. s \in 0 .. 255
  BY <1>1, NodeShape DEF BuiltinStatus, Process
<1>3. Exit(p, s) \/ Set(p, Return(R, s))
  BY DEF run_builtin
<1> HIDE DEF s
<1>4. Q \in Process /\ Q.node = P.node /\ Carries(P, Q)
  BY <1>1, <1>2 DEF Process, Carries
<1> HIDE DEF Q
<1>5. R \in Process /\ R.node = P.node /\ Carries(P, R)
  BY <1>4, RestoreType DEF SameStep, Carries
<1> HIDE DEF R
<1>6. GoesOn(P, Return(R, s))
  <2>1. Return(R, s) \in Good /\ Return(R, s).pc = "return" /\ Carries(R, Return(R, s))
    BY <1>1, <1>2, <1>5, ReturnType
  <2> QED BY <1>1, <1>5, <2>1 DEF GoesOn, Busy, Carries
<1>7. UNCHANGED <<pipe, typed>>
  BY DEF run_builtin
<1> QED BY <1>2, <1>3, <1>6, <1>7, PipesType DEF Moves

(***************************************************************************)
(* Programs, the way back up the tree, and waiting.                        *)
(***************************************************************************)
\* A program or a builtin writes, or dies of SIGPIPE.
LEMMA WriteMoves ==
    ASSUME TypeOK, NEW p \in Proc, Write(p)
    PROVE  Moves(p)
<1> DEFINE P == proc[p]
           out == P.fds[STDOUT_FILENO]
           Q == [P EXCEPT !.todo = P.todo - 1]
<1>1. /\ P \in Process /\ AtItsNode(P) /\ P.pc \in {"program", "builtin"}
      /\ P.todo > 0 /\ UNCHANGED typed
  BY Here DEF Write
<1>2. GoesOn(P, Q)
  <2>1. P.todo - 1 \in Nat
    BY <1>1 DEF Process
  <2>2. Q \in Process /\ SameStep(P, Q)
    BY <1>1, <2>1 DEF Process, SameStep, Carries
  <2> HIDE DEF Q
  <2> QED BY <1>1, <2>2 DEF SameStep, Good, AtItsNode, GoesOn
<1>3. \/ Set(p, Q) /\ UNCHANGED pipe
      \/ Exit(p, 128 + SIGPIPE) /\ UNCHANGED pipe
      \/ /\ Set(p, Q) /\ out[1] = "w" /\ pipe[out[2]] < PipeCap
         /\ pipe' = [pipe EXCEPT ![out[2]] = @ + 1]
  <2>1. Q = [P EXCEPT !.todo = @ - 1]
    BY <1>1 DEF Process
  <2> HIDE DEF Q, out
  <2> QED BY <2>1 DEF Write, out
<1>4. ASSUME out[1] = "w", pipe[out[2]] < PipeCap,
             pipe' = [pipe EXCEPT ![out[2]] = @ + 1]
      PROVE  pipe' \in [Pipe -> 0 .. PipeCap]
  <2>1. out \in Desc
    BY <1>1, Standard DEF Process, STDOUT_FILENO
  <2>2. out[2] \in Pipe
    BY <1>4, <2>1 DEF Desc
  <2>3. pipe \in [Pipe -> 0 .. PipeCap]
    BY DEF TypeOK
  <2> HIDE DEF out
  <2> QED BY <1>4, <2>2, <2>3, BoundsAssumption
<1>5. 128 + SIGPIPE \in 0 .. 255
  BY DEF SIGPIPE
<1> HIDE DEF Q, out
<1> QED BY <1>1, <1>2, <1>3, <1>4, <1>5, PipesType DEF Moves

\* A program reads from a pipe.
LEMMA ReadMoves ==
    ASSUME TypeOK, NEW p \in Proc, Read(p)
    PROVE  Moves(p)
<1> DEFINE P == proc[p]
           in == P.fds[STDIN_FILENO]
           t == IF Ast[P.node].cmd.copies THEN 1 ELSE 0
           Q == [P EXCEPT !.todo = t]
<1>1. P \in Process /\ AtItsNode(P) /\ UNCHANGED typed /\ Set(p, Q)
      /\ P.pc = "program" /\ in[1] = "r" /\ pipe[in[2]] > 0 /\ pipe' = [pipe EXCEPT ![in[2]] = @ - 1]
  BY Here DEF Read, Reading
<1>2. GoesOn(P, Q)
  <2>1. t \in Nat
    OBVIOUS
  <2> HIDE DEF t
  <2>2. Q \in Process /\ SameStep(P, Q)
    BY <1>1, <2>1, ZenonT(60) DEF Process, SameStep, Carries
  <2> HIDE DEF Q
  <2> QED BY <1>1, <2>2 DEF SameStep, Good, AtItsNode, GoesOn
<1>3. pipe' \in [Pipe -> 0 .. PipeCap]
  <2>1. in \in Desc
    BY <1>1, Standard DEF Process, STDIN_FILENO
  <2>2. in[2] \in Pipe
    BY <1>1, <2>1 DEF Desc
  <2>3. pipe \in [Pipe -> 0 .. PipeCap]
    BY DEF TypeOK
  <2> HIDE DEF in
  <2> QED BY <1>1, <2>2, <2>3, BoundsAssumption
<1> HIDE DEF Q
<1> QED BY <1>1, <1>2, <1>3 DEF Moves

\* A program comes to the end of its input.
LEMMA ReadEofMoves ==
    ASSUME TypeOK, NEW p \in Proc, ReadEof(p)
    PROVE  Moves(p)
<1> DEFINE P == proc[p]
           Q == [P EXCEPT !.eof = TRUE]
<1>1. /\ P \in Process /\ AtItsNode(P) /\ P.pc = "program"
      /\ Set(p, Q) /\ UNCHANGED <<pipe, typed>>
  BY Here DEF ReadEof, Reading
<1>2. Q \in Process /\ SameStep(P, Q)
  BY <1>1, ZenonT(60) DEF Process, SameStep, Carries
<1> HIDE DEF Q
<1>3. GoesOn(P, Q)
  BY <1>1, <1>2 DEF SameStep, Good, AtItsNode, GoesOn
<1> QED BY <1>1, <1>3, PipesType DEF Moves

\* A program exits.
LEMMA ProgramExitMoves ==
    ASSUME TypeOK, NEW p \in Proc, ProgramExit(p)
    PROVE  Moves(p)
<1> DEFINE s == Ast[proc[p].node].cmd.status
<1>1. s \in 0 .. 255
  BY Here, NodeShape DEF ProgramExit, AtItsNode
<1>2. Exit(p, s) /\ UNCHANGED <<pipe, typed>>
  BY DEF ProgramExit
<1> QED BY <1>1, <1>2, PipesType DEF Moves

\* The right side of an operator returns to it.
LEMMA ReturnFromRightMoves ==
    ASSUME TypeOK, NEW p \in Proc, ReturnFromRight(p)
    PROVE  Moves(p)
<1> DEFINE P == proc[p]
           m == Parent[P.node]
           Q == [P EXCEPT !.node = m]
<1>1. P \in Process /\ P.pc = "return" /\ P.node \in Node /\ m # 0
      /\ Set(p, Q) /\ UNCHANGED <<pipe, typed>>
  BY Here DEF ReturnFromRight, AtItsNode
<1>2. m \in NodeOrNull /\ m \in Node
  BY <1>1, ParentType DEF NodeOrNull
<1> HIDE DEF m
<1>3. Q \in Process /\ Q.pc = "return" /\ Q.node = m /\ Carries(P, Q)
  BY <1>1, <1>2, ZenonT(60) DEF Process, Carries
<1> HIDE DEF Q
<1>4. GoesOn(P, Q)
  BY <1>1, <1>2, <1>3, AnyNodeType DEF GoesOn, Busy
<1> QED BY <1>1, <1>4, PipesType DEF Moves

\* exec_pipe goes on with its right side.
LEMMA ReturnFromPipeLeftMoves ==
    ASSUME TypeOK, NEW p \in Proc, ReturnFromPipeLeft(p)
    PROVE  Moves(p)
<1> DEFINE P == proc[p]
           m == Parent[P.node]
           r == Ast[m].right
           Q == [P EXCEPT !.pc = "exec", !.node = r, !.out_pipe_fd = STDOUT_FILENO]
<1>1. P \in Process /\ P.pc = "return" /\ P.node \in Node /\ m # 0
      /\ Ast[m].kind = "ND_PIPE" /\ Set(p, Q) /\ UNCHANGED <<pipe, typed>>
  BY Here DEF ReturnFromPipeLeft, AtItsNode
<1>2. m \in Node
  BY <1>1, ParentType DEF NodeOrNull
<1>3. r \in Node /\ r \in NodeOrNull
  BY <1>1, <1>2, NodeShape, Null
<1>4. STDOUT_FILENO \in FdOrNone
  BY Standard, Null DEF STDOUT_FILENO
<1> HIDE DEF m, r
<1>5. Q \in Process /\ Q.pc = "exec" /\ Q.node = r /\ Carries(P, Q)
  BY <1>1, <1>3, <1>4, ZenonT(60) DEF Process, PC, Carries
<1> HIDE DEF Q
<1>6. GoesOn(P, Q)
  BY <1>1, <1>3, <1>5, AnyNodeType DEF GoesOn, Busy
<1> QED BY <1>1, <1>6, PipesType DEF Moves

\* A process that begins to wait does so from its first child on, if it has one.
LEMMA ReturnAndWaitShape ==
    ASSUME TypeOK, NEW p \in Proc, ReturnAndWait(p)
    PROVE  /\ \E Q \in Good : /\ Set(p, Q) /\ Carries(proc[p], Q) /\ Q.i = 1
                             /\ Q.pc = IF proc[p].pids = << >> THEN "decide" ELSE "wait"
           /\ proc[p].pc = "return"
           /\ UNCHANGED <<pipe, typed>>
<1> DEFINE P == proc[p]
           m == Parent[P.node]
           v == IF P.pids = << >> THEN "decide" ELSE "wait"
           s == IF m # 0 /\ Ast[m].kind = "ND_RND_BRACKET" THEN P.ret ELSE P.last_status
           Q == [P EXCEPT !.node = m, !.i = 1, !.c_status = 0, !.pc = v, !.last_status = s]
<1>1. P \in Process /\ P.pc = "return" /\ P.node \in Node
      /\ Set(p, Q) /\ UNCHANGED <<pipe, typed>>
  <2>1. P \in Process /\ P.pc = "return" /\ P.node \in Node /\ UNCHANGED <<pipe, typed>>
    BY Here DEF ReturnAndWait, AtItsNode
  <2>2. Q = [P EXCEPT !.node = m, !.i = 1, !.c_status = 0,
                      !.pc = IF P.pids = << >> THEN "decide" ELSE "wait",
                      !.last_status = IF m # 0 /\ Ast[m].kind = "ND_RND_BRACKET"
                                      THEN P.ret ELSE @]
    BY <2>1 DEF Process
  <2> HIDE DEF Q
  <2>3. Set(p, Q)
    BY <2>2 DEF ReturnAndWait
  <2> QED BY <2>1, <2>3
<1>2. m \in NodeOrNull
  BY <1>1, ParentType
<1>3. s \in 0 .. 255 /\ v \in {"wait", "decide"} /\ v \in PC
  BY <1>1 DEF Process, PC
<1> HIDE DEF m, v, s
<1>4. Q \in Process /\ Q.pc = v /\ Q.i = 1 /\ Carries(P, Q)
  BY <1>1, <1>2, <1>3, Null, ZenonT(60) DEF Process, Carries
<1> HIDE DEF Q
<1>5. Q \in Good
  BY <1>3, <1>4, QuietType
<1> QED BY <1>1, <1>4, <1>5 DEF v

\* A turn of the loop of wait_children_status keeps a record typed.
LEMMA AfterWaitpidType ==
    ASSUME NEW P \in Process, P.pc = "wait", NEW s \in 0 .. 255
    PROVE  AfterWaitpid(P, s) \in Good
<1> DEFINE Q == [P EXCEPT !.i = P.i + 1, !.c_status = s]
           R == [P EXCEPT !.pc = "decide", !.c_status = s, !.last_status = s]
<1>1. P.i + 1 \in Nat
  BY DEF Process
<1>2. Q \in Process /\ Q.pc = "wait"
  BY <1>1, ZenonT(60) DEF Process
<1>3. R \in Process /\ R.pc = "decide"
  BY ZenonT(60) DEF Process, PC
<1>4. Q = [P EXCEPT !.i = @ + 1, !.c_status = s]
  BY DEF Process
<1> HIDE DEF Q
<1>5. AfterWaitpid(P, s) = Q \/ AfterWaitpid(P, s) = R
  BY <1>4 DEF AfterWaitpid
<1> HIDE DEF R
<1> QED BY <1>2, <1>3, <1>5, QuietType

\* Reaping a child preserves TypeOK.
LEMMA WaitChildType ==
    ASSUME TypeOK, NEW p \in Proc, WaitChild(p)
    PROVE  TypeOK'
<1>1. PICK q \in Awaited(p) :
        proc' = [proc EXCEPT ![q] = NoProcess,
                             ![p] = AfterWaitpid(proc[p], proc[q].c_status)]
  BY DEF WaitChild
<1>2. q \in Proc
  BY DEF Awaited, ChildrenOf
<1>3. proc \in [Proc -> Good] /\ NoProcess \in Good
  BY ProcType, NoProcessType DEF NoProcess, Good, AtItsNode
<1>4. proc[p] \in Process /\ proc[p].pc = "wait" /\ proc[q].c_status \in 0 .. 255
  BY <1>2, Here DEF WaitChild, Process
<1>5. AfterWaitpid(proc[p], proc[q].c_status) \in Good
  BY <1>4, AfterWaitpidType
<1>6. proc' \in [Proc -> Good]
  BY <1>1, <1>2, <1>3, <1>5
<1> QED BY <1>6, PipesType DEF WaitChild, TypeOK, Good

\* waitpid without a child to wait for preserves TypeOK.
LEMMA WaitNoChildType ==
    ASSUME TypeOK, NEW p \in Proc, WaitNoChild(p)
    PROVE  TypeOK'
<1>1. proc[p] \in Process /\ proc[p].pc = "wait"
  BY Here DEF WaitNoChild
<1>2. proc[p].c_status \in 0 .. 255
  BY <1>1 DEF Process
<1>3. AfterWaitpid(proc[p], proc[p].c_status) \in Good
  BY <1>1, <1>2, AfterWaitpidType
<1>4. Set(p, AfterWaitpid(proc[p], proc[p].c_status)) /\ UNCHANGED <<pipe, typed>>
  BY DEF WaitNoChild
<1>5. typed' \in 0 .. MaxLines
  BY <1>4 DEF TypeOK
<1> QED BY <1>3, <1>4, <1>5, PipesType, Preserved

\* clear_pid_status keeps a record typed and where it was.
LEMMA ClearType ==
    ASSUME NEW P \in Process
    PROVE  /\ clear_pid_status(P) \in Process
           /\ clear_pid_status(P).pc = P.pc /\ clear_pid_status(P).node = P.node
           /\ clear_pid_status(P).parent = P.parent
           /\ clear_pid_status(P).pids = << >>
BY Null, ZenonT(60) DEF clear_pid_status, Process

\* exec_and_node and exec_or_node go on with their right side.
LEMMA RightType ==
    ASSUME NEW P \in Process, P.node \in Node, Ast[P.node].right \in Node
    PROVE  [P EXCEPT !.pc = "exec", !.node = Ast[P.node].right,
                     !.is_exec_in_child_ps = @ /\ P.is_in_round_bracket]
             \in {Q \in Good : Q.pc = "exec" /\ Q.parent = P.parent /\ Q.pids = P.pids}
<1> DEFINE r == Ast[P.node].right
           b == P.is_exec_in_child_ps /\ P.is_in_round_bracket
           Q == [P EXCEPT !.pc = "exec", !.node = r]
           R == [P EXCEPT !.pc = "exec", !.node = r,
                          !.is_exec_in_child_ps = @ /\ P.is_in_round_bracket]
<1>1. r \in NodeOrNull /\ r \in Node
  BY Null
<1>2. Q \in Process /\ Q.pc = "exec" /\ Q.node = r /\ Q.parent = P.parent /\ Q.pids = P.pids
  <2> HIDE DEF r
  <2> QED BY <1>1, ZenonT(60) DEF Process, PC
<1>3. R = [Q EXCEPT !.is_exec_in_child_ps = b]
  <2> HIDE DEF r
  <2> QED BY DEF Process
<1> HIDE DEF Q
<1>4. b \in BOOLEAN
  OBVIOUS
<1> HIDE DEF b
<1>5. [Q EXCEPT !.is_exec_in_child_ps = b] \in Process
      /\ [Q EXCEPT !.is_exec_in_child_ps = b].pc = Q.pc
      /\ [Q EXCEPT !.is_exec_in_child_ps = b].node = Q.node
      /\ [Q EXCEPT !.is_exec_in_child_ps = b].parent = Q.parent
      /\ [Q EXCEPT !.is_exec_in_child_ps = b].pids = Q.pids
  BY <1>2, <1>4, ZenonT(60) DEF Process
<1>6. R \in Process /\ R.pc = "exec" /\ R.node \in Node /\ R.parent = P.parent /\ R.pids = P.pids
  BY <1>1, <1>2, <1>3, <1>5
<1> HIDE DEF R
<1>7. R \in Good
  BY <1>6, AnyNodeType
<1> QED BY <1>6, <1>7 DEF R

\* exec_and_node and exec_or_node decide, with the children of their left side
\* waited for.
LEMMA DecideClears ==
    ASSUME TypeOK, NEW p \in Proc, exec_and_node(p) \/ exec_or_node(p)
    PROVE  Clears(p)
<1> DEFINE P == clear_pid_status(proc[p])
           s == IF P.last_status # 0 THEN P.last_status ELSE EXIT_FAILURE
           R == [P EXCEPT !.pc = "exec", !.node = Ast[P.node].right,
                          !.is_exec_in_child_ps = @ /\ P.is_in_round_bracket]
<1>1. /\ proc[p] \in Process /\ proc[p].node \in Node /\ proc[p].pc = "decide"
      /\ Ast[proc[p].node].kind \in {"ND_AND_OP", "ND_OR_OP"}
  BY Here DEF exec_and_node, exec_or_node, Deciding, Process, NodeOrNull
<1>2. /\ P \in Process /\ P.node \in Node /\ Ast[P.node].right \in Node
      /\ P.parent = proc[p].parent /\ P.pids = << >>
  BY <1>1, ClearType, NodeShape
<1>3. Set(p, R) \/ Set(p, Return(P, s)) \/ Set(p, Return(P, 0))
  BY DEF exec_and_node, exec_or_node
<1> HIDE DEF P
<1>4. R \in Good /\ R.pc = "exec" /\ R.parent = proc[p].parent /\ R.pids = << >>
  <2>1. R \in {Q \in Good : Q.pc = "exec" /\ Q.parent = P.parent /\ Q.pids = P.pids}
    BY <1>2, RightType, Zenon
  <2> HIDE DEF R
  <2> QED BY <1>2, <2>1
<1>5. s \in 0 .. 255
  BY <1>2, Null DEF Process
<1>7. UNCHANGED <<pipe, typed>>
  BY DEF exec_and_node, exec_or_node
<1> HIDE DEF R, s
<1>6. ASSUME NEW u \in 0 .. 255
      PROVE  /\ Return(P, u) \in Good /\ Return(P, u).pc = "return"
             /\ Return(P, u).parent = proc[p].parent /\ Return(P, u).pids = << >>
  <2>1. /\ Return(P, u) \in Good /\ Return(P, u).pc = "return"
        /\ Carries(P, Return(P, u))
    BY <1>2, ReturnType
  <2> QED BY <1>2, <2>1 DEF Carries
<1>8. \E Q \in Good : /\ Set(p, Q) /\ Q.parent = proc[p].parent /\ Q.pids = << >>
                      /\ Q.pc \in {"exec", "return"}
  <2>1. CASE Set(p, R)
    BY <1>4, <2>1
  <2>2. CASE Set(p, Return(P, s))
    BY <1>5, <1>6, <2>2
  <2>3. CASE Set(p, Return(P, 0))
    <3>1. Return(P, 0) \in Good /\ Return(P, 0).pc = "return"
          /\ Return(P, 0).parent = proc[p].parent /\ Return(P, 0).pids = << >>
      BY <1>6
    <3> QED BY <2>3, <3>1, Zenon
  <2> QED BY <1>3, <2>1, <2>2, <2>3
<1>9. pipe' \in [Pipe -> 0 .. PipeCap] /\ typed' \in 0 .. MaxLines
  BY <1>7, PipesType DEF TypeOK
<1> QED BY <1>1, <1>8, <1>9 DEF Clears, Childless

\* exec_round_brackets returns the status of what was inside.
LEMMA EndOfBracketsClears ==
    ASSUME TypeOK, NEW p \in Proc, EndOfBrackets(p)
    PROVE  Clears(p)
<1> DEFINE P == clear_pid_status(proc[p])
           Q == [P EXCEPT !.is_in_round_bracket = FALSE, !.is_exec_in_child_ps = FALSE]
<1>1. proc[p] \in Process /\ proc[p].node \in Node /\ proc[p].pc = "decide"
  BY Here DEF EndOfBrackets, Deciding, Process, NodeOrNull
<1>2. P \in Process /\ P.node \in Node /\ P.parent = proc[p].parent /\ P.pids = << >>
  BY <1>1, ClearType
<1>3. Set(p, Return(Q, P.last_status)) /\ UNCHANGED <<pipe, typed>>
  BY DEF EndOfBrackets
<1> HIDE DEF P
<1>4. /\ Q \in Process /\ Q.node \in Node /\ Q.parent = proc[p].parent /\ Q.pids = << >>
      /\ P.last_status \in 0 .. 255
  BY <1>2, ZenonT(60) DEF Process
<1> HIDE DEF Q
<1> DEFINE T == Return(Q, P.last_status)
<1>5. T \in Good /\ T.pc = "return" /\ T.parent = proc[p].parent /\ T.pids = << >>
  BY <1>4, ReturnType DEF Carries
<1>6. Set(p, T)
  BY <1>3
<1> HIDE DEF T
<1> QED BY <1>1, <1>3, <1>5, <1>6, PipesType DEF Clears, Childless, TypeOK

\* start_pipeline returns to the prompt.
LEMMA EndOfLineClears ==
    ASSUME TypeOK, NEW p \in Proc, EndOfLine(p)
    PROVE  Clears(p)
<1> DEFINE P == close_stored_fds(proc[p])
           Q == [P EXCEPT !.pc = "prompt", !.head_node = 0, !.fd_num = NoHeredocs,
                          !.ret = 0, !.c_status = 0, !.i = 0]
<1>1. /\ P \in Process /\ P.parent = proc[p].parent /\ P.pids = proc[p].pids
      /\ proc[p].pc = "decide"
  BY Here, CloseStoredType DEF EndOfLine, SameStep, Carries
<1>2. Set(p, Q) /\ UNCHANGED <<pipe, typed>>
  BY DEF EndOfLine
<1> HIDE DEF P
<1>3. Q \in Process /\ Q.pc = "prompt" /\ Q.parent = P.parent /\ Q.pids = P.pids
  <2> DEFINE R == [P EXCEPT !.pc = "prompt", !.head_node = 0, !.fd_num = NoHeredocs]
             T == [R EXCEPT !.ret = 0, !.c_status = 0, !.i = 0]
  <2>1. R \in Process /\ R.pc = "prompt" /\ R.parent = P.parent /\ R.pids = P.pids
    BY <1>1, Null, ZenonT(60) DEF Process, PC
  <2>2. Q = T
    BY <1>1 DEF Process
  <2> HIDE DEF R
  <2>3. T \in Process /\ T.pc = R.pc /\ T.parent = R.parent /\ T.pids = R.pids
    BY <2>1, Null, ZenonT(60) DEF Process
  <2> QED BY <2>1, <2>2, <2>3
<1> HIDE DEF Q
<1>4. Q \in Good
  BY <1>3, QuietType
<1> QED BY <1>1, <1>2, <1>3, <1>4, PipesType DEF Clears, Childless, TypeOK

(***************************************************************************)
(* The theorem.                                                            *)
(***************************************************************************)
\* The steps that neither start nor await a child, nor count on having none.
Plain(p) ==
    \/ Heredoc(p) \/ HeredocsRead(p)
    \/ exec_pipe(p) \/ exec_logical(p) \/ exec_round_brackets(p)
    \/ exec_redirect(p) \/ exec_cmd_here(p)
    \/ ChildSetup(p) \/ exec_cmd(p) \/ exec_cmd_with_heredoc(p)
    \/ apply_redirects(p) \/ run_builtin(p)
    \/ Write(p) \/ Read(p) \/ ReadEof(p) \/ ProgramExit(p)
    \/ ReturnFromRight(p) \/ ReturnFromPipeLeft(p)
    \/ EndOfInput(p)

\* Each of them is one of the moves of GoesOn, or an exit.
LEMMA PlainMoves ==
    ASSUME TypeOK, NEW p \in Proc, Plain(p)
    PROVE  Moves(p)
BY HeredocMoves, HeredocsReadMoves, exec_pipeMoves, exec_logicalMoves,
   exec_round_bracketsMoves, exec_redirectMoves, exec_cmd_hereMoves,
   ChildSetupMoves, exec_cmdMoves, exec_cmd_with_heredocMoves,
   apply_redirectsMoves, run_builtinMoves, WriteMoves, ReadMoves, ReadEofMoves,
   ProgramExitMoves, ReturnFromRightMoves, ReturnFromPipeLeftMoves,
   EndOfInputMoves
   DEF Plain

\* Such a step preserves TypeOK.
LEMMA MovesType ==
    ASSUME TypeOK, NEW p \in Proc, Moves(p)
    PROVE  TypeOK'
<1>1. typed' \in 0 .. MaxLines
  BY DEF Moves, TypeOK
<1> QED BY <1>1, Preserved DEF Moves, GoesOn

\* A step that forgets the children preserves TypeOK.
LEMMA ClearsType ==
    ASSUME TypeOK, NEW p \in Proc, Clears(p)
    PROVE  TypeOK'
BY Preserved DEF Clears

\* The steps at which a process that has no children forgets those it had.
Clearing(p) == \/ ReadLine(p) \/ exec_and_node(p) \/ exec_or_node(p)
               \/ EndOfBrackets(p) \/ EndOfLine(p)

\* Each of them is one.
LEMMA ClearingClears ==
    ASSUME TypeOK, NEW p \in Proc, Clearing(p)
    PROVE  Clears(p)
BY ReadLineClears, DecideClears, EndOfBracketsClears, EndOfLineClears DEF Clearing

\* Beginning to wait preserves TypeOK.
LEMMA ReturnAndWaitType ==
    ASSUME TypeOK, NEW p \in Proc, ReturnAndWait(p)
    PROVE  TypeOK'
<1>1. pipe' \in [Pipe -> 0 .. PipeCap] /\ typed' \in 0 .. MaxLines
  BY ReturnAndWaitShape DEF TypeOK
<1> QED BY <1>1, ReturnAndWaitShape, Preserved

\* Next, with its disjuncts sorted.
LEMMA NextCases ==
    ASSUME Next
    PROVE  \/ UNCHANGED vars
           \/ \E p \in Proc :
                \/ Plain(p) \/ Clearing(p) \/ exec_cmd_forked(p)
                \/ ReturnAndWait(p) \/ WaitChild(p) \/ WaitNoChild(p)
BY DEF Next, Step, Plain, Clearing, Ended

\* TypeOK is inductive.
LEMMA NextType == TypeOK /\ [Next]_vars => TypeOK'
<1> SUFFICES ASSUME TypeOK, [Next]_vars PROVE TypeOK'
  OBVIOUS
<1>1. CASE UNCHANGED vars
  BY <1>1 DEF vars, TypeOK
<1>2. ASSUME NEW p \in Proc, Plain(p) PROVE TypeOK'
  BY <1>2, PlainMoves, MovesType
<1>3. ASSUME NEW p \in Proc, Clearing(p) PROVE TypeOK'
  BY <1>3, ClearingClears, ClearsType
<1>4. ASSUME NEW p \in Proc,
             exec_cmd_forked(p) \/ ReturnAndWait(p) \/ WaitChild(p) \/ WaitNoChild(p)
      PROVE  TypeOK'
  BY <1>4, exec_cmd_forkedType, ReturnAndWaitType, WaitChildType, WaitNoChildType
<1> QED BY <1>1, <1>2, <1>3, <1>4, NextCases

\* In every state the shell and all its children can reach, on every list of
\* command lines, the context of each process is well typed, no pipe holds more
\* than its capacity, and a process that is inside a node of the syntax tree is
\* inside one of the kind its code expects.
THEOREM TypeCorrect == Spec => []TypeOK
BY InitType, NextType, PTL DEF Spec

(***************************************************************************)
(* No child is lost: NoLostChild, from an inductive invariant on who is    *)
(* whose child and which of them pids still names ahead of the waiting     *)
(* loop.  With the check in front of a fork it bounds the children         *)
(* (PidsInBounds).                                                         *)
(***************************************************************************)
\* P, if it runs shell code, keeps track of the children C.
Tracks(P, C) ==
    P.pc \notin {"free", "zombie", "program"} =>
        /\ P.pc \in Childless => C = {}
        /\ \A q \in C : \E j \in DOMAIN P.pids :
              P.pids[j] = q /\ (P.pc = "wait" => P.i <= j)

Children(f, p) == {q \in Proc : f[q].parent = p}

\* The inductive invariant: besides keeping track of its children, no process
\* is its own child, and one that is gone has none.
Kept(f) ==
    \A p \in Proc :
        /\ Tracks(f[p], Children(f, p))
        /\ p \notin Children(f, p)
        /\ f[p].pc \in {"free", "zombie"} => Children(f, p) = {}

\* The invariant implies the property.
LEMMA KeptIsTracking == Kept(proc) => NoLostChild
BY DEF Kept, Tracks, Children, Childless, NoLostChild, RunsShellCode, ChildrenOf

\* Who keeps track of some children keeps track of fewer.
LEMMA FewerChildren ==
    ASSUME NEW P, NEW C, NEW D, D \subseteq C, Tracks(P, C)
    PROVE  Tracks(P, D)
BY DEF Tracks

\* A process changes and all parents stay what they are.
LEMMA KeptBySet ==
    ASSUME NEW f \in [Proc -> Good], Kept(f), NEW p \in Proc, NEW Q \in Good,
           Q.parent = f[p].parent, Q.pc \notin {"free", "zombie"},
           Tracks(Q, Children(f, p))
    PROVE  Kept([f EXCEPT ![p] = Q])
<1> DEFINE g == [f EXCEPT ![p] = Q]
<1>1. \A q \in Proc : g[q].parent = f[q].parent
  OBVIOUS
<1>2. \A q \in Proc : Children(g, q) = Children(f, q)
  BY <1>1 DEF Children
<1>3. g[p] = Q /\ \A q \in Proc \ {p} : g[q] = f[q]
  OBVIOUS
<1> HIDE DEF g
<1>4. \A q \in Proc : Tracks(g[q], Children(g, q))
  BY <1>2, <1>3 DEF Kept
<1>5. \A q \in Proc : q \notin Children(g, q)
  BY <1>2 DEF Kept
<1>6. \A q \in Proc : g[q].pc \in {"free", "zombie"} => Children(g, q) = {}
  BY <1>2, <1>3 DEF Kept
<1>7. Kept(g)
  BY <1>4, <1>5, <1>6 DEF Kept
<1> QED BY <1>7 DEF g

\* The children of a process that exits are not its children any more, and no
\* process gets a child.
LEMMA KeptByExit ==
    ASSUME NEW f \in [Proc -> Good], Kept(f), NEW p \in Proc, NEW s \in 0 .. 255
    PROVE  Kept(ExitIn(f, p, s))
<1> DEFINE g == ExitIn(f, p, s)
<1>1. NoProcess.parent = 0 /\ NoProcess.pc = "free" /\ 0 \notin Proc
  BY DEF NoProcess, Proc
<1>2. /\ g[p].pc \in {"free", "zombie"}
      /\ g[p].parent = f[p].parent \/ g[p].parent = 0
  <2> DEFINE Z == [NoProcess EXCEPT !.pc = "zombie", !.c_status = s, !.parent = f[p].parent]
  <2>1. Z.pc = "zombie" /\ Z.parent = f[p].parent
    BY DEF NoProcess
  <2>2. g[p] = Z \/ g[p] = NoProcess
    BY DEF ExitIn
  <2> HIDE DEF Z, g
  <2> QED BY <1>1, <2>1, <2>2
<1>3. ASSUME NEW q \in Proc, q # p
      PROVE  \/ g[q] = f[q] /\ f[q].parent # p
             \/ g[q].parent = 0 /\ g[q].pc = "free" /\ f[q].pc = "zombie"
             \/ g[q].parent = 0 /\ g[q].pc = f[q].pc /\ g[q].pids = f[q].pids /\ g[q].i = f[q].i
  <2> DEFINE L == [f[q] EXCEPT !.parent = 0]
  <2>1. f[q] \in Process
    BY DEF Good
  <2>2. L.parent = 0 /\ L.pc = f[q].pc /\ L.pids = f[q].pids /\ L.i = f[q].i
    BY <2>1 DEF Process
  <2>3. g[q] = (IF f[q].parent = p
                THEN IF f[q].pc = "zombie" THEN NoProcess ELSE L ELSE f[q])
    BY <1>3 DEF ExitIn
  <2> HIDE DEF L, g
  <2> QED BY <1>1, <2>2, <2>3
<1> HIDE DEF g
<1>4. \A q \in Proc : Children(g, q) \subseteq Children(f, q)
  BY <1>1, <1>2, <1>3 DEF Children
<1>5. Children(g, p) = {}
  <2>1. \A q \in Proc : q # p => g[q].parent # p
    BY <1>1, <1>3
  <2>2. g[p].parent # p
    BY <1>1, <1>2 DEF Kept, Children
  <2> QED BY <2>1, <2>2 DEF Children
<1>6. ASSUME NEW q \in Proc PROVE Tracks(g[q], Children(g, q))
  <2>1. CASE q = p
    BY <1>2, <2>1 DEF Tracks
  <2>2. CASE q # p
    <3>1. Tracks(f[q], Children(g, q))
      BY <1>4, FewerChildren DEF Kept
    <3> QED BY <1>3, <2>2, <3>1 DEF Tracks
  <2> QED BY <2>1, <2>2
<1>7. ASSUME NEW q \in Proc PROVE q \notin Children(g, q)
  BY <1>4 DEF Kept
<1>8. ASSUME NEW q \in Proc, g[q].pc \in {"free", "zombie"} PROVE Children(g, q) = {}
  <2>1. CASE q = p
    BY <1>5, <2>1
  <2>2. CASE q # p /\ f[q].pc \in {"free", "zombie"}
    BY <1>4, <2>2 DEF Kept
  <2>3. CASE q # p /\ f[q].pc \notin {"free", "zombie"}
    BY <1>3, <1>8, <2>3
  <2> QED BY <2>1, <2>2, <2>3
<1> QED BY <1>6, <1>7, <1>8 DEF Kept, g

\* A step that goes on or exits preserves the invariant.
LEMMA KeptByMoves ==
    ASSUME TypeOK, Kept(proc), NEW p \in Proc, Moves(p),
           proc[p].pc \notin {"free", "zombie"}
    PROVE  Kept(proc')
<1>1. proc \in [Proc -> Good]
  BY ProcType
<1>2. ASSUME NEW Q, GoesOn(proc[p], Q), Set(p, Q) PROVE Kept(proc')
  <2>1. /\ Q \in Good /\ Q.parent = proc[p].parent /\ Q.pids = proc[p].pids
        /\ Q.pc \notin {"free", "zombie"}
    BY <1>2 DEF GoesOn, Carries, Busy
  <2>2. Tracks(proc[p], Children(proc, p))
    BY DEF Kept
  <2>3. Tracks(Q, Children(proc, p))
    BY <1>2, <2>1, <2>2 DEF GoesOn, Busy, Tracks, Childless
  <2> QED BY <1>1, <1>2, <2>1, <2>3, KeptBySet DEF Set
<1>3. ASSUME NEW s \in 0 .. 255, Exit(p, s) PROVE Kept(proc')
  BY <1>1, <1>3, KeptByExit DEF Exit
<1> QED BY <1>2, <1>3 DEF Moves

\* A process that has no children may forget the ones it had.
LEMMA KeptByClearing ==
    ASSUME TypeOK, Kept(proc), NEW p \in Proc, proc[p].pc \in Childless,
           NEW Q \in Good, Q.parent = proc[p].parent, Q.pc \notin {"free", "zombie"},
           Set(p, Q)
    PROVE  Kept(proc')
<1>1. Children(proc, p) = {}
  BY DEF Kept, Tracks, Childless
<1>2. Tracks(Q, Children(proc, p))
  BY <1>1 DEF Tracks
<1> QED BY <1>2, ProcType, KeptBySet DEF Set

\* At the start there are no children.
LEMMA InitKept == Init => Kept(proc)
<1> SUFFICES ASSUME Init PROVE Kept(proc)
  OBVIOUS
<1>1. \A p \in Proc : proc[p].parent = 0
  <2>1. NoProcess.parent = 0 /\ init_ctx.parent = 0
    BY DEF NoProcess, init_ctx
  <2> QED BY <2>1 DEF Init
<1>2. \A p \in Proc : Children(proc, p) = {}
  BY <1>1 DEF Children, Proc
<1> QED BY <1>2 DEF Kept, Tracks

\* A pid appended to pids is kept track of, and so are those before it.
LEMMA TrackedByAppend ==
    ASSUME NEW P, NEW Q, NEW C, NEW q, P.pids \in Seq(Proc \cup {0}), q \in Proc,
           Tracks(P, C), P.pc = "exec", Q.pc = "exec", Q.pids = Append(P.pids, q)
    PROVE  Tracks(Q, C \cup {q})
<1>1. Q.pids[Len(P.pids) + 1] = q /\ Len(P.pids) + 1 \in DOMAIN Q.pids
  OBVIOUS
<1>2. ASSUME NEW j \in DOMAIN P.pids
      PROVE  j \in DOMAIN Q.pids /\ Q.pids[j] = P.pids[j]
  OBVIOUS
<1>3. \A r \in C : \E j \in DOMAIN P.pids : P.pids[j] = r
  BY DEF Tracks
<1>4. \A r \in C : \E j \in DOMAIN Q.pids : Q.pids[j] = r
  BY <1>2, <1>3
<1> QED BY <1>1, <1>4 DEF Tracks, Childless

\* The fork of exec_cmd_handler preserves the invariant: the parent appends
\* the child to pids, and the child, whose copy of pids names processes that are
\* not its own children, has none.
LEMMA AfterForkKept ==
    ASSUME TypeOK, Kept(proc), NEW p \in Proc, exec_cmd_forked(p), FreeSlots # {}
    PROVE  Kept(AfterFork(p))
<1> DEFINE q == NewProcess
           child == ForkedChild(p)
           forked == ForkedParent(p)
           both == AfterFork(p)
<1>1. /\ q \in Proc \ {p} /\ proc[q].pc = "free"
      /\ child.pc = "child" /\ child.parent = p
      /\ forked.pc = "exec" /\ forked.parent = proc[p].parent
      /\ forked.pids = Append(proc[p].pids, q)
  BY ForkType
<1>2. proc[p].pc = "exec" /\ proc[p].pids \in Seq(Proc \cup {0})
  BY Here DEF exec_cmd_forked, AtNode, Process
<1>3. /\ both[q] = child /\ both[p] = forked
      /\ \A r \in Proc \ {p, q} : both[r] = proc[r]
  <2>1. proc \in [Proc -> Good]
    BY ProcType
  <2> HIDE DEF child, forked, q
  <2>2. both = [proc EXCEPT ![q] = child, ![p] = forked]
    BY DEF AfterFork, child, forked, q
  <2> HIDE DEF both
  <2> QED BY <1>1, <2>1, <2>2
<1> HIDE DEF q, child, forked, both
<1>4. \A r \in Proc : Children(both, r) \subseteq Children(proc, r) \cup (IF r = p THEN {q} ELSE {})
  BY <1>1, <1>3 DEF Children
<1>5. Children(proc, q) = {} /\ Children(both, q) = {}
  BY <1>1, <1>4 DEF Kept
<1>6. Tracks(forked, Children(both, p))
  <2>1. Tracks(proc[p], Children(proc, p))
    BY DEF Kept
  <2>2. Tracks(forked, Children(proc, p) \cup {q})
    BY <1>1, <1>2, <2>1, TrackedByAppend
  <2> QED BY <1>4, <2>2, FewerChildren
<1>7. ASSUME NEW r \in Proc PROVE Tracks(both[r], Children(both, r))
  <2>1. CASE r = p
    BY <1>3, <1>6, <2>1
  <2>2. CASE r = q
    BY <1>1, <1>3, <1>5, <2>2 DEF Tracks, Childless
  <2>3. CASE r # p /\ r # q
    BY <1>3, <1>4, <2>3, FewerChildren DEF Kept
  <2> QED BY <2>1, <2>2, <2>3
<1>8. ASSUME NEW r \in Proc PROVE r \notin Children(both, r)
  BY <1>1, <1>4 DEF Kept
<1>9. ASSUME NEW r \in Proc, both[r].pc \in {"free", "zombie"} PROVE Children(both, r) = {}
  BY <1>1, <1>3, <1>4, <1>9 DEF Kept
<1> QED BY <1>7, <1>8, <1>9 DEF Kept, both

\* So does the whole of exec_cmd_handler's parent side.
LEMMA ForkKept ==
    ASSUME TypeOK, Kept(proc), NEW p \in Proc, exec_cmd_forked(p)
    PROVE  Kept(proc')
<1>1. EXIT_FAILURE \in 0 .. 255
  BY DEF EXIT_FAILURE
<1>2. CASE Exit(p, EXIT_FAILURE)
  BY <1>1, <1>2, ProcType, KeptByExit DEF Exit
<1>3. CASE FreeSlots # {} /\ proc' = ExitIn(AfterFork(p), p, EXIT_FAILURE)
  <2>1. AfterFork(p) \in [Proc -> Good] /\ Kept(AfterFork(p))
    BY <1>3, ForkType, AfterForkKept
  <2> QED BY <1>1, <1>3, <2>1, KeptByExit
<1>4. CASE FreeSlots # {} /\ proc' = [AfterFork(p) EXCEPT ![p] = ParentDone(p)]
  <2> DEFINE f == AfterFork(p)
             F == ForkedParent(p)
             Q == ParentDone(p)
  <2>1. /\ f \in [Proc -> Good] /\ F.pc = "exec"
        /\ Q \in Good /\ Q.pc = "return" /\ Carries(F, Q)
        /\ NewProcess \in Proc \ {p}
    BY <1>4, ForkType
  <2>2. Kept(f)
    BY <1>4, AfterForkKept
  <2>3. f[p] = F
    BY <2>1, ProcType DEF AfterFork
  <2>4. proc' = [f EXCEPT ![p] = Q]
    BY <1>4
  <2> HIDE DEF f, F, Q
  <2>5. Tracks(F, Children(f, p))
    BY <2>2, <2>3 DEF Kept
  <2>6. Tracks(Q, Children(f, p))
    BY <2>1, <2>5 DEF Tracks, Carries, Childless
  <2>7. Q.parent = f[p].parent
    BY <2>1, <2>3 DEF Carries
  <2> QED BY <2>1, <2>2, <2>4, <2>6, <2>7, KeptBySet
<1> QED BY <1>2, <1>3, <1>4, ForkCases

\* So do the steps that are not about children.
LEMMA PlainKept ==
    ASSUME TypeOK, Kept(proc), NEW p \in Proc, Plain(p)
    PROVE  Kept(proc')
<1>1. proc[p].pc \notin {"free", "zombie"}
  BY DEF Plain, Heredoc, HeredocsRead, exec_pipe, exec_logical, exec_round_brackets,
     exec_redirect, exec_cmd_here, ChildSetup, exec_cmd, exec_cmd_with_heredoc,
     apply_redirects, run_builtin, Write, Read, ReadEof, ProgramExit, Reading,
     ReturnFromRight, ReturnFromPipeLeft, EndOfInput, AtNode
<1> QED BY <1>1, PlainMoves, KeptByMoves

\* So do those that forget children: there are none left.
LEMMA ClearingKept ==
    ASSUME TypeOK, Kept(proc), NEW p \in Proc, Clearing(p)
    PROVE  Kept(proc')
<1>1. Clears(p)
  BY ClearingClears
<1>2. ASSUME NEW s \in 0 .. 255, Exit(p, s) PROVE Kept(proc')
  BY <1>2, ProcType, KeptByExit DEF Exit
<1> QED BY <1>1, <1>2, KeptByClearing DEF Clears

\* A process begins to wait from its first child on.
LEMMA ReturnAndWaitKept ==
    ASSUME TypeOK, Kept(proc), NEW p \in Proc, ReturnAndWait(p)
    PROVE  Kept(proc')
<1> DEFINE P == proc[p]
           C == Children(proc, p)
<1>1. PICK Q \in Good : /\ Set(p, Q) /\ Carries(P, Q) /\ Q.i = 1
                        /\ Q.pc = IF P.pids = << >> THEN "decide" ELSE "wait"
  BY ReturnAndWaitShape
<1>2. P.pc = "return" /\ P.pids \in Seq(Proc \cup {0})
  BY ReturnAndWaitShape, Here DEF Process
<1>3. \A q \in C : \E j \in DOMAIN P.pids : P.pids[j] = q
  BY <1>2 DEF Kept, Tracks
<1> HIDE DEF P, C
<1>4. P.pids = << >> => C = {}
  BY <1>3
<1>5. \A j \in DOMAIN P.pids : 1 <= j
  BY <1>2
<1>6. Tracks(Q, C)
  BY <1>1, <1>3, <1>4, <1>5 DEF Tracks, Carries, Childless
<1>7. Q.parent = P.parent /\ Q.pc \notin {"free", "zombie"}
  BY <1>1 DEF Carries
<1> QED BY <1>1, <1>6, <1>7, ProcType, KeptBySet DEF P, C, Set

\* The children that are left, once the one awaited is gone, come later in pids.
LEMMA AfterWaitTracks ==
    ASSUME NEW P \in Process, P.pc = "wait", NEW s \in 0 .. 255,
           NEW C, NEW D, D \subseteq C, Tracks(P, C),
           \A r \in D : P.pids[P.i] # r
    PROVE  LET Q == AfterWaitpid(P, s)
           IN  Q.parent = P.parent /\ Q.pc \in {"wait", "decide"} /\ Tracks(Q, D)
<1> DEFINE Q == AfterWaitpid(P, s)
           W == [P EXCEPT !.i = @ + 1, !.c_status = s]
           R == [P EXCEPT !.pc = "decide", !.c_status = s, !.last_status = s]
<1> SUFFICES Q.parent = P.parent /\ Q.pc \in {"wait", "decide"} /\ Tracks(Q, D)
  OBVIOUS
<1>1. \A r \in D : \E j \in DOMAIN P.pids : P.pids[j] = r /\ P.i <= j
  BY DEF Tracks
<1>2. P.pids \in Seq(Proc \cup {0}) /\ P.i \in Nat
  BY DEF Process
<1>3. \A r \in D : \E j \in DOMAIN P.pids : P.pids[j] = r /\ P.i + 1 <= j
  <2> TAKE r \in D
  <2>1. PICK j \in DOMAIN P.pids : P.pids[j] = r /\ P.i <= j
    BY <1>1
  <2>2. j # P.i
    BY <2>1
  <2> QED BY <1>2, <2>1, <2>2
<1>4. W.parent = P.parent /\ W.pc = "wait" /\ W.pids = P.pids /\ W.i = P.i + 1
  BY DEF Process
<1>5. R.parent = P.parent /\ R.pc = "decide" /\ R.pids = P.pids
  BY DEF Process
<1>6. (P.i < Len(P.pids) /\ Q = W) \/ (~ (P.i < Len(P.pids)) /\ Q = R)
  BY DEF AfterWaitpid
<1> HIDE DEF Q, W, R
<1>7. CASE P.i < Len(P.pids) /\ Q = W
  BY <1>3, <1>4, <1>7 DEF Tracks, Childless
<1>8. CASE ~ (P.i < Len(P.pids)) /\ Q = R
  <2>1. \A j \in DOMAIN P.pids : ~ (P.i + 1 <= j)
    BY <1>2, <1>8
  <2>2. D = {}
    BY <1>3, <2>1
  <2> QED BY <1>5, <1>8, <2>2 DEF Tracks
<1> QED BY <1>6, <1>7, <1>8

\* Reaping a child preserves the invariant, also when pids holds the 0 that
\* makes waitpid take any child.
LEMMA WaitChildKept ==
    ASSUME TypeOK, Kept(proc), NEW p \in Proc, WaitChild(p)
    PROVE  Kept(proc')
<1> DEFINE P == proc[p]
           C == Children(proc, p)
<1>1. PICK q \in Awaited(p) :
        /\ proc[q].pc = "zombie"
        /\ proc' = [proc EXCEPT ![q] = NoProcess, ![p] = AfterWaitpid(P, proc[q].c_status)]
  BY DEF WaitChild
<1>2. /\ P \in Process /\ P.pc = "wait" /\ Tracks(P, C)
      /\ q \in C /\ q # p /\ P.pids[P.i] \in {0, q} /\ q \in Proc
  BY Here DEF WaitChild, Awaited, ChildrenOf, Children, Kept
<1>3. proc \in [Proc -> Good] /\ proc[q].c_status \in 0 .. 255
  BY <1>2, ProcType DEF Good, Process
<1> DEFINE Q == AfterWaitpid(P, proc[q].c_status)
           f == [proc EXCEPT ![q] = NoProcess]
<1>4. Q \in Good
  BY <1>2, <1>3, AfterWaitpidType
<1>5. Q.parent = P.parent /\ Q.pc \in {"wait", "decide"} /\ Tracks(Q, C \ {q})
  <2>1. \A r \in C \ {q} : P.pids[P.i] # r
    BY <1>2 DEF Children, Proc
  <2> QED BY <1>2, <1>3, <2>1, AfterWaitTracks
<1>6. NoProcess \in Good /\ NoProcess.parent = 0 /\ NoProcess.pc = "free" /\ 0 \notin Proc
  BY NoProcessType DEF NoProcess, Good, AtItsNode, Proc
<1>7. f \in [Proc -> Good] /\ f[p] = P /\ f[q] = NoProcess
      /\ \A r \in Proc \ {q} : f[r] = proc[r]
  BY <1>2, <1>3, <1>6
<1>8. proc' = [f EXCEPT ![p] = Q]
  BY <1>1
<1> HIDE DEF Q, f, P
<1>9. /\ \A r \in Proc : Children(f, r) \subseteq Children(proc, r)
      /\ Children(f, p) \subseteq C \ {q}
  BY <1>6, <1>7 DEF Children
<1>10. Children(f, q) = {}
  BY <1>1, <1>2, <1>9 DEF Kept
<1>11. Kept(f)
  <2>1. ASSUME NEW r \in Proc PROVE Tracks(f[r], Children(f, r))
    <3>1. CASE r = q
      BY <1>6, <1>7, <3>1 DEF Tracks
    <3>2. CASE r # q
      BY <1>7, <1>9, <3>2, FewerChildren DEF Kept
    <3> QED BY <3>1, <3>2
  <2>2. ASSUME NEW r \in Proc PROVE r \notin Children(f, r)
    BY <1>9 DEF Kept
  <2>3. ASSUME NEW r \in Proc, f[r].pc \in {"free", "zombie"} PROVE Children(f, r) = {}
    BY <1>7, <1>9, <1>10, <2>3 DEF Kept
  <2> QED BY <2>1, <2>2, <2>3 DEF Kept
<1>12. Tracks(Q, Children(f, p))
  BY <1>5, <1>9, FewerChildren
<1>13. Q.parent = f[p].parent /\ Q.pc \notin {"free", "zombie"}
  BY <1>5, <1>7
<1> QED BY <1>4, <1>7, <1>8, <1>11, <1>12, <1>13, KeptBySet

\* waitpid failing with ECHILD preserves it: no child had that pid.
LEMMA WaitNoChildKept ==
    ASSUME TypeOK, Kept(proc), NEW p \in Proc, WaitNoChild(p)
    PROVE  Kept(proc')
<1> DEFINE P == proc[p]
           C == Children(proc, p)
           Q == AfterWaitpid(P, P.c_status)
<1>1. P \in Process /\ P.pc = "wait" /\ Tracks(P, C) /\ P.c_status \in 0 .. 255
  BY Here DEF WaitNoChild, Kept, Process
<1>2. \A r \in C : P.pids[P.i] # r
  BY DEF WaitNoChild, Awaited, ChildrenOf, Children
<1>3. Q \in Good
  BY <1>1, AfterWaitpidType
<1>4. Q.parent = P.parent /\ Q.pc \in {"wait", "decide"} /\ Tracks(Q, C)
  BY <1>1, <1>2, AfterWaitTracks
<1>5. proc' = [proc EXCEPT ![p] = Q]
  BY DEF WaitNoChild, Set
<1> HIDE DEF Q
<1> QED BY <1>3, <1>4, <1>5, ProcType, KeptBySet

\* With TypeOK, the invariant is inductive.
LEMMA NextKept == TypeOK /\ Kept(proc) /\ [Next]_vars => Kept(proc')
<1> SUFFICES ASSUME TypeOK, Kept(proc), [Next]_vars PROVE Kept(proc')
  OBVIOUS
<1>1. CASE UNCHANGED vars
  <2>1. proc' = proc
    BY <1>1 DEF vars
  <2> QED BY <2>1
<1>2. ASSUME NEW p \in Proc, Plain(p) PROVE Kept(proc')
  BY <1>2, PlainKept
<1>3. ASSUME NEW p \in Proc, Clearing(p) PROVE Kept(proc')
  BY <1>3, ClearingKept
<1>4. ASSUME NEW p \in Proc, exec_cmd_forked(p) PROVE Kept(proc')
  BY <1>4, ForkKept
<1>5. ASSUME NEW p \in Proc, ReturnAndWait(p) PROVE Kept(proc')
  BY <1>5, ReturnAndWaitKept
<1>6. ASSUME NEW p \in Proc, WaitChild(p) \/ WaitNoChild(p) PROVE Kept(proc')
  BY <1>6, WaitChildKept, WaitNoChildKept
<1> QED BY <1>1, <1>2, <1>3, <1>4, <1>5, <1>6, NextCases

\* No process that runs the shell's code loses a child: on every list of
\* command lines, at the prompt and where && and || decide it has none left, and
\* while it waits each child it has is one that its loop still comes to.
THEOREM ChildrenKept == Spec => []NoLostChild
<1> DEFINE Inv == TypeOK /\ Kept(proc)
<1>1. Init => Inv
  BY InitType, InitKept
<1>2. Inv /\ [Next]_vars => Inv'
  BY NextType, NextKept
<1>3. Inv => NoLostChild
  BY KeptIsTracking
<1> QED BY <1>1, <1>2, <1>3, PTL DEF Spec

(***************************************************************************)
(* The array pids does not overflow.                                       *)
(***************************************************************************)
Bounded(f) == \A p \in Proc : Len(f[p].pids) < MaxProcessCount

\* Of children that are all named in pids there are no more than it is long.
LEMMA NamedAreFew ==
    ASSUME NEW C, NEW s \in Seq(Proc \cup {0}),
           \A q \in C : \E j \in DOMAIN s : s[j] = q
    PROVE  Cardinality(C) <= Len(s)
<1> DEFINE f == [q \in C |-> CHOOSE j \in DOMAIN s : s[j] = q]
<1>1. \A q \in C : f[q] \in DOMAIN s /\ s[f[q]] = q
  <2> TAKE q \in C
  <2>1. f[q] = CHOOSE j \in DOMAIN s : s[j] = q
    OBVIOUS
  <2> QED BY <2>1, Zenon
<1>2. Len(s) \in Nat /\ DOMAIN s = 1 .. Len(s)
  OBVIOUS
<1>3. f \in Injection(C, 1 .. Len(s))
  <2>1. f \in [C -> 1 .. Len(s)]
    BY <1>1, <1>2
  <2> HIDE DEF f
  <2>2. \A a, b \in C : f[a] = f[b] => a = b
    BY <1>1
  <2> QED BY <2>1, <2>2 DEF Injection, IsInjective
<1>4. IsFiniteSet(1 .. Len(s)) /\ Cardinality(1 .. Len(s)) = Len(s)
  BY <1>2, FS_Interval
<1> HIDE DEF f
<1> QED BY <1>3, <1>4, FS_Injection

\* The invariants imply the property.
LEMMA BoundedChildren ==
    ASSUME TypeOK, Kept(proc), Bounded(proc)
    PROVE  PidsInBounds
<1> SUFFICES ASSUME NEW p \in Proc
             PROVE  /\ Len(proc[p].pids) < MaxProcessCount
                    /\ RunsShellCode(p) => Cardinality(ChildrenOf(p)) <= Len(proc[p].pids)
  BY DEF PidsInBounds
<1>1. Len(proc[p].pids) < MaxProcessCount
  BY DEF Bounded
<1>2. ASSUME RunsShellCode(p)
      PROVE  Cardinality(ChildrenOf(p)) <= Len(proc[p].pids)
  <2>1. proc[p].pids \in Seq(Proc \cup {0})
    BY Here DEF Process
  <2>2. \A q \in ChildrenOf(p) : \E j \in DOMAIN proc[p].pids : proc[p].pids[j] = q
    BY <1>2 DEF Kept, Tracks, Children, ChildrenOf, RunsShellCode
  <2> QED BY <2>1, <2>2, NamedAreFew
<1> QED BY <1>1, <1>2

\* No process and no pids are within the bound.
LEMMA NoPids == Len(NoProcess.pids) < MaxProcessCount /\ Len(<< >>) < MaxProcessCount
BY BoundsAssumption DEF NoProcess

\* An exit leaves the other processes their pids, or nothing.
LEMMA BoundedByExit ==
    ASSUME NEW f \in [Proc -> Good], Bounded(f), NEW p \in Proc, NEW s \in 0 .. 255
    PROVE  Bounded(ExitIn(f, p, s))
<1> DEFINE g == ExitIn(f, p, s)
<1>1. ASSUME NEW q \in Proc PROVE g[q].pids = f[q].pids \/ g[q].pids = NoProcess.pids
  <2> DEFINE Z == [NoProcess EXCEPT !.pc = "zombie", !.c_status = s, !.parent = f[p].parent]
             L == [f[q] EXCEPT !.parent = 0]
  <2>1. Z.pids = NoProcess.pids
    BY DEF NoProcess
  <2>2. L.pids = f[q].pids
    BY DEF Good, Process
  <2>3. g[q] \in {Z, NoProcess, L, f[q]}
    BY DEF ExitIn
  <2> HIDE DEF Z, L, g
  <2> QED BY <2>1, <2>2, <2>3
<1> HIDE DEF g
<1>2. Bounded(g)
  BY <1>1, NoPids DEF Bounded
<1> QED BY <1>2 DEF g

\* A process with pids within the bound may take the place of another.
LEMMA BoundedBySet ==
    ASSUME NEW f \in [Proc -> Good], Bounded(f), NEW p \in Proc, NEW Q,
           Len(Q.pids) < MaxProcessCount
    PROVE  Bounded([f EXCEPT ![p] = Q])
BY DEF Bounded

\* At the start nothing is in pids.
LEMMA InitBounded == Init => Bounded(proc)
<1> SUFFICES ASSUME Init, NEW p \in Proc PROVE Len(proc[p].pids) < MaxProcessCount
  BY DEF Bounded
<1>1. init_ctx.pids = NoProcess.pids
  BY DEF init_ctx, NoProcess
<1> QED BY <1>1, NoPids DEF Init

\* The steps that are not about children, and those that forget them.
LEMMA OtherBounded ==
    ASSUME TypeOK, Bounded(proc), NEW p \in Proc, Plain(p) \/ Clearing(p)
    PROVE  Bounded(proc')
<1>1. \/ \E s \in 0 .. 255 : Exit(p, s)
      \/ \E Q : Set(p, Q) /\ Q.pids \in {<< >>, proc[p].pids}
  BY PlainMoves, ClearingClears DEF Moves, GoesOn, Carries, Clears
<1>2. ASSUME NEW s \in 0 .. 255, Exit(p, s) PROVE Bounded(proc')
  BY <1>2, ProcType, BoundedByExit DEF Exit
<1>3. ASSUME NEW Q, Set(p, Q), Q.pids \in {<< >>, proc[p].pids} PROVE Bounded(proc')
  <2>1. Len(Q.pids) < MaxProcessCount
    BY <1>3, NoPids DEF Bounded
  <2> QED BY <1>3, <2>1, ProcType, BoundedBySet DEF Set
<1> QED BY <1>1, <1>2, <1>3

\* Both sides of a fork have one more entry, which the check has made room for.
LEMMA ForkBounded ==
    ASSUME TypeOK, Bounded(proc), NEW p \in Proc, exec_cmd_forked(p)
    PROVE  Bounded(proc')
<1>1. EXIT_FAILURE \in 0 .. 255
  BY DEF EXIT_FAILURE
<1>2. CASE Exit(p, EXIT_FAILURE)
  BY <1>1, <1>2, ProcType, BoundedByExit DEF Exit
<1>3. CASE ~ Exit(p, EXIT_FAILURE)
  <2> DEFINE f == AfterFork(p)
             child == ForkedChild(p)
             forked == ForkedParent(p)
  <2>1. FreeSlots # {} /\ ~ AtProcessLimit(proc[p])
    BY <1>3 DEF exec_cmd_forked
  <2>2. /\ f \in [Proc -> Good] /\ NewProcess \in Proc \ {p}
        /\ forked.pids = Append(proc[p].pids, NewProcess)
        /\ Carries(forked, ParentDone(p))
    BY <2>1, ForkType
  <2>3. proc[p].pids \in Seq(Proc \cup {0}) /\ proc[p] \in Process
    BY Here DEF Process
  <2>4. Len(proc[p].pids) + 1 < MaxProcessCount
    BY <2>1, <2>3, BoundsAssumption DEF AtProcessLimit
  <2>5. child.pids = Append(proc[p].pids, 0)
    BY <2>3 DEF ForkedChild, Process
  <2>6. Len(child.pids) < MaxProcessCount /\ Len(forked.pids) < MaxProcessCount
    BY <2>2, <2>3, <2>4, <2>5
  <2>7. Bounded(f)
    <3> HIDE DEF child, forked
    <3>1. proc \in [Proc -> Good]
      BY ProcType
    <3>2. f = [[proc EXCEPT ![NewProcess] = child] EXCEPT ![p] = forked]
      BY DEF AfterFork, child, forked
    <3> HIDE DEF f
    <3> QED BY <2>2, <2>6, <3>1, <3>2 DEF Bounded
  <2>8. CASE proc' = ExitIn(f, p, EXIT_FAILURE)
    BY <1>1, <2>2, <2>7, <2>8, BoundedByExit
  <2>9. CASE proc' = [f EXCEPT ![p] = ParentDone(p)]
    <3>1. Len(ParentDone(p).pids) < MaxProcessCount
      BY <2>2, <2>6 DEF Carries
    <3> HIDE DEF f
    <3> QED BY <2>2, <2>7, <2>9, <3>1, BoundedBySet
  <2> QED BY <1>3, <2>8, <2>9, ForkCases
<1> QED BY <1>2, <1>3

\* Waiting leaves pids alone.
LEMMA WaitBounded ==
    ASSUME TypeOK, Bounded(proc), NEW p \in Proc,
           ReturnAndWait(p) \/ WaitChild(p) \/ WaitNoChild(p)
    PROVE  Bounded(proc')
<1>1. ASSUME NEW P \in Process, NEW s PROVE AfterWaitpid(P, s).pids = P.pids
  BY DEF AfterWaitpid, Process
<1>2. proc \in [Proc -> Good] /\ proc[p] \in Process
  BY Here, ProcType
<1>3. CASE ReturnAndWait(p)
  <2>1. PICK Q \in Good : Set(p, Q) /\ Carries(proc[p], Q)
    BY <1>3, ReturnAndWaitShape
  <2>2. Len(Q.pids) < MaxProcessCount
    BY <2>1 DEF Carries, Bounded
  <2> QED BY <1>2, <2>1, <2>2, BoundedBySet DEF Set
<1>4. CASE WaitNoChild(p)
  <2> DEFINE Q == AfterWaitpid(proc[p], proc[p].c_status)
  <2>1. Len(Q.pids) < MaxProcessCount
    BY <1>1, <1>2 DEF Bounded
  <2>2. proc' = [proc EXCEPT ![p] = Q]
    BY <1>4 DEF WaitNoChild, Set
  <2> HIDE DEF Q
  <2> QED BY <1>2, <2>1, <2>2, BoundedBySet
<1>5. CASE WaitChild(p)
  <2>1. PICK q \in Awaited(p) :
          proc' = [proc EXCEPT ![q] = NoProcess,
                               ![p] = AfterWaitpid(proc[p], proc[q].c_status)]
    BY <1>5 DEF WaitChild
  <2> DEFINE Q == AfterWaitpid(proc[p], proc[q].c_status)
             f == [proc EXCEPT ![q] = NoProcess]
  <2>2. Len(Q.pids) < MaxProcessCount
    BY <1>1, <1>2 DEF Bounded
  <2>3. q \in Proc /\ f \in [Proc -> Good]
    BY <1>2, NoProcessType DEF Awaited, ChildrenOf, Good, AtItsNode, NoProcess
  <2>4. proc' = [f EXCEPT ![p] = Q]
    BY <2>1
  <2>5. Bounded(f)
    BY <1>2, <2>3, NoPids, BoundedBySet
  <2> HIDE DEF Q, f
  <2> QED BY <2>2, <2>3, <2>4, <2>5, BoundedBySet
<1> QED BY <1>3, <1>4, <1>5

\* With TypeOK, the bound is inductive.
LEMMA NextBounded == TypeOK /\ Bounded(proc) /\ [Next]_vars => Bounded(proc')
<1> SUFFICES ASSUME TypeOK, Bounded(proc), [Next]_vars PROVE Bounded(proc')
  OBVIOUS
<1>1. CASE UNCHANGED vars
  <2>1. proc' = proc
    BY <1>1 DEF vars
  <2> QED BY <2>1
<1>2. ASSUME NEW p \in Proc, Plain(p) \/ Clearing(p) PROVE Bounded(proc')
  BY <1>2, OtherBounded
<1>3. ASSUME NEW p \in Proc, exec_cmd_forked(p) PROVE Bounded(proc')
  BY <1>3, ForkBounded
<1>4. ASSUME NEW p \in Proc, ReturnAndWait(p) \/ WaitChild(p) \/ WaitNoChild(p)
      PROVE  Bounded(proc')
  BY <1>4, WaitBounded
<1> QED BY <1>1, <1>2, <1>3, <1>4, NextCases

\* The array pids never overflows, whatever the lines: each fork that
\* exec_cmd_handler allows leaves room in it, in the child as in the parent, and
\* every child that a process running the shell's code has is one of its entries.
THEOREM ChildrenBounded == Spec => []PidsInBounds
<1> DEFINE Inv == TypeOK /\ Kept(proc) /\ Bounded(proc)
<1>1. Init => Inv
  BY InitType, InitKept, InitBounded
<1>2. Inv /\ [Next]_vars => Inv'
  BY NextType, NextKept, NextBounded
<1>3. Inv => PidsInBounds
  BY BoundedChildren
<1> QED BY <1>1, <1>2, <1>3, PTL DEF Spec

=============================================================================
