-------------------------- MODULE ExecutorShell_proofs --------------------------
(* What holds of the shell's own process and of its children's, whatever the  *)
(* others do: what is in the descriptor tables, who comes to the prompt, what *)
(* a builtin may change, and which ends of which pipes a child has.  Some of  *)
(* it holds of some lines only: Alone, NoneSuperseded and Tidy say of which.  *)
EXTENDS Executor_proofs

(***************************************************************************)
(* The tree.                                                               *)
(***************************************************************************)
\* A node is called by the node it is a child of, which comes later.
LEMMA ChildParent ==
    ASSUME NEW n \in Node, NEW m \in Node, IsChildOf(n, m)
    PROVE  Parent[n] = m /\ n < m
<1>1. Parent[n] = m
  BY TreeAssumption DEF Parent
<1>2. WellFormed(m)
  BY AstAssumption
<1>3. Ast[m].left \in 0 .. m - 1 /\ Ast[m].right \in 0 .. m - 1
  BY <1>2 DEF WellFormed
<1>4. n \in Nat /\ m \in Nat
  BY Nodes
<1> QED BY <1>1, <1>3, <1>4 DEF IsChildOf

\* A node that is called is a child of the node that calls it.
LEMMA ParentChild ==
    ASSUME NEW n \in Node, Parent[n] # 0
    PROVE  Parent[n] \in Node /\ IsChildOf(n, Parent[n]) /\ n < Parent[n]
<1>1. Parent[n] \in Node /\ IsChildOf(n, Parent[n])
  BY DEF Parent
<1> QED BY <1>1, ChildParent

\* The children of a node, by their places.
LEMMA LeftChild ==
    ASSUME NEW m \in Node, Ast[m].left # 0
    PROVE  Ast[m].left \in Node /\ Parent[Ast[m].left] = m
<1>1. Ast[m].left \in Node
  BY NodeShape DEF NodeOrNull
<1> QED BY <1>1, ChildParent DEF IsChildOf

\* So is the right child, when there is one.
LEMMA RightChild ==
    ASSUME NEW m \in Node, Ast[m].right # 0
    PROVE  Ast[m].right \in Node /\ Parent[Ast[m].right] = m
<1>1. Ast[m].right \in Node
  BY NodeShape DEF NodeOrNull
<1> QED BY <1>1, ChildParent DEF IsChildOf

\* A node is of one of the kinds the parser builds.
LEMMA NodeKind ==
    ASSUME NEW n \in Node
    PROVE  Ast[n].kind \in Kind
<1>1. Ast[n] \in AstNode
  BY AstAssumption DEF Node
<1> QED BY <1>1 DEF AstNode

\* A recursion that follows the callers up the tree has a solution.
Climbs(f, base, step) ==
    \A n \in Node : f[n] = IF Parent[n] = 0 THEN base[n] ELSE step[<<n, f[Parent[n]]>>]

\* What is defined at a node from what it is at its caller exists.
LEMMA UpTheTree ==
    ASSUME NEW T, NEW base \in [Node -> T], NEW step \in [Node \X T -> T]
    PROVE  \E f \in [Node -> T] : Climbs(f, base, step)
<1> DEFINE rank == [n \in Node |-> Len(Ast) - n]
           next == [n \in Node |-> IF Parent[n] = 0 THEN n ELSE Parent[n]]
           stop == [n \in Node |-> Parent[n] = 0]
<1>1. rank \in [Node -> Nat]
  BY Nodes
<1>2. next \in [Node -> Node] /\ stop \in [Node -> BOOLEAN]
  BY ParentChild
<1>3. ASSUME NEW n \in Node, ~ stop[n] PROVE rank[next[n]] < rank[n]
  <2>1. Parent[n] \in Node /\ n < Parent[n]
    BY <1>3, ParentChild
  <2>2. next[n] = Parent[n] /\ n \in Nat /\ Parent[n] \in Nat /\ Len(Ast) \in Nat
    BY <1>3, <2>1, Nodes
  <2>3. rank[n] = Len(Ast) - n /\ rank[next[n]] = Len(Ast) - Parent[n]
    BY <2>1, <2>2
  <2> QED BY <2>1, <2>2, <2>3
<1>4. Descends(Node, rank, next, stop)
  <2> HIDE DEF rank, next, stop
  <2> QED BY <1>1, <1>2, <1>3 DEF Descends
<1>5. PICK f \in [Node -> T] : Solves(f, Node, next, stop, base, step)
  <2> HIDE DEF rank, next, stop
  <2> QED BY <1>4, Recursion, Zenon
<1> QED BY <1>5 DEF Solves, Climbs

\* The root of a node is the root of its caller.
LEMMA RootDef ==
    \A n \in Node : Root[n] = IF Parent[n] = 0 THEN n ELSE Root[Parent[n]]
<1> DEFINE base == [n \in Node |-> n]
           step == [a \in Node \X Node |-> a[2]]
           Body(f, n) == IF Parent[n] = 0 THEN n ELSE f[Parent[n]]
<1>1. base \in [Node -> Node] /\ step \in [Node \X Node -> Node]
  OBVIOUS
<1>2. PICK f \in [Node -> Node] : Climbs(f, base, step)
  <2> HIDE DEF base, step
  <2> QED BY <1>1, UpTheTree, Zenon
<1>3. \A n \in Node : f[n] = Body(f, n)
  BY <1>2, ParentChild DEF Climbs
<1>4. f = [n \in Node |-> Body(f, n)]
  BY <1>2, <1>3
<1>5. Root = CHOOSE g : g = [n \in Node |-> Body(g, n)]
  BY DEF Root
<1>6. Root = [n \in Node |-> Body(Root, n)]
  <2> HIDE DEF Body
  <2> QED BY <1>4, <1>5
<1> QED BY <1>6

\* Whether a node is below one whose kind is in K.
Below(f, n, K) == Parent[n] # 0 /\ (Ast[Parent[n]].kind \in K \/ f[Parent[n]])

\* Whether one of the callers of a node is of some kind is so defined,
LEMMA BelowExists ==
    ASSUME NEW K
    PROVE  \E f \in [Node -> BOOLEAN] : f = [n \in Node |-> Below(f, n, K)]
<1> DEFINE Makes(n) == Ast[Parent[n]].kind \in K
           base == [n \in Node |-> FALSE]
           step == [a \in Node \X BOOLEAN |-> Makes(a[1]) \/ a[2]]
<1>1. base \in [Node -> BOOLEAN] /\ step \in [Node \X BOOLEAN -> BOOLEAN]
  OBVIOUS
<1>2. PICK f \in [Node -> BOOLEAN] : Climbs(f, base, step)
  <2> HIDE DEF base, step
  <2> QED BY <1>1, UpTheTree, Zenon
<1>3. ASSUME NEW n \in Node PROVE f[n] = Below(f, n, K)
  <2>1. CASE Parent[n] = 0
    BY <1>2, <2>1 DEF Climbs, Below
  <2>2. CASE Parent[n] # 0
    <3>1. f[Parent[n]] \in BOOLEAN
      BY <1>2, <2>2, ParentChild
    <3>2. f[n] = step[<<n, f[Parent[n]]>>]
      BY <1>2, <2>2 DEF Climbs
    <3>3. step[<<n, f[Parent[n]]>>] = (Makes(n) \/ f[Parent[n]])
      <4> HIDE DEF Makes
      <4> QED BY <3>1
    <3> QED BY <2>2, <3>2, <3>3 DEF Below
  <2> QED BY <2>1, <2>2
<1>4. f = [n \in Node |-> Below(f, n, K)]
  BY <1>2, <1>3
<1> QED BY <1>2, <1>4

\* A node is in a subshell if its caller makes one or is in one.
LEMMA InSubshellDef ==
    \A n \in Node : InSubshell[n] <=> Below(InSubshell, n, {"ND_PIPE", "ND_RND_BRACKET"})
<1> DEFINE Body(f, n) == Below(f, n, {"ND_PIPE", "ND_RND_BRACKET"})
<1>1. PICK f : f = [n \in Node |-> Body(f, n)]
  BY BelowExists
<1>2. InSubshell = CHOOSE g : g = [n \in Node |-> Body(g, n)]
  BY DEF InSubshell, Below
<1>3. InSubshell = [n \in Node |-> Body(InSubshell, n)]
  <2> HIDE DEF Body
  <2> QED BY <1>1, <1>2
<1> QED BY <1>3, Zenon

\* The nodes inside brackets, brackets in brackets among them.
InBrackets[n \in Node] ==
    /\ Parent[n] # 0
    /\ Ast[Parent[n]].kind \in {"ND_RND_BRACKET"} \/ InBrackets[Parent[n]]

\* and so is whether one of them is a pair of brackets.
LEMMA InBracketsDef ==
    \A n \in Node : InBrackets[n] <=> Below(InBrackets, n, {"ND_RND_BRACKET"})
<1> DEFINE Body(f, n) == Below(f, n, {"ND_RND_BRACKET"})
<1>1. PICK f : f = [n \in Node |-> Body(f, n)]
  BY BelowExists
<1>2. InBrackets = CHOOSE g : g = [n \in Node |-> Body(g, n)]
  BY DEF InBrackets, Below
<1>3. InBrackets = [n \in Node |-> Body(InBrackets, n)]
  <2> HIDE DEF Body
  <2> QED BY <1>1, <1>2
<1> QED BY <1>3, Zenon

\* The lowest number below a node is that of its left side, if it has one.
LEMMA FirstDef ==
    \A n \in Node : First[n] = IF Ast[n].left = 0 THEN n ELSE First[Ast[n].left]
<1> DEFINE rank == [n \in Node |-> n]
           next == [n \in Node |-> IF Ast[n].left = 0 THEN n ELSE Ast[n].left]
           stop == [n \in Node |-> Ast[n].left = 0]
           base == [n \in Node |-> n]
           step == [a \in Node \X Node |-> a[2]]
           Body(f, n) == IF Ast[n].left = 0 THEN n ELSE f[Ast[n].left]
<1>1. rank \in [Node -> Nat]
  BY Nodes
<1>2. next \in [Node -> Node] /\ stop \in [Node -> BOOLEAN]
  BY LeftChild
<1>3. ASSUME NEW n \in Node, ~ stop[n] PROVE rank[next[n]] < rank[n]
  BY <1>3, LeftChild, ChildParent DEF IsChildOf
<1>4. Descends(Node, rank, next, stop)
  <2> HIDE DEF rank, next, stop
  <2> QED BY <1>1, <1>2, <1>3 DEF Descends
<1>5. base \in [Node -> Node] /\ step \in [Node \X Node -> Node]
  OBVIOUS
<1>6. PICK f \in [Node -> Node] : Solves(f, Node, next, stop, base, step)
  <2> HIDE DEF rank, next, stop, base, step
  <2> QED BY <1>4, <1>5, Recursion, Zenon
<1>7. \A n \in Node : f[n] = Body(f, n)
  BY <1>6, LeftChild DEF Solves
<1>8. f = [n \in Node |-> Body(f, n)]
  BY <1>6, <1>7
<1>9. First = CHOOSE g : g = [n \in Node |-> Body(g, n)]
  BY DEF First
<1>10. First = [n \in Node |-> Body(First, n)]
  <2> HIDE DEF Body
  <2> QED BY <1>8, <1>9
<1> QED BY <1>10

(***************************************************************************)
(* What a step does to the process that takes it.                          *)
(***************************************************************************)
Gone(P) == P.pc \in {"free", "zombie"}

\* The flags are set for commands in brackets.
Flagged(P) == P.is_exec_in_child_ps /\ P.is_in_round_bracket

At(P, pc, n) == P.pc = pc /\ P.node = n
SameFlags(P, Q) == /\ Q.is_exec_in_child_ps = P.is_exec_in_child_ps
                   /\ Q.is_in_round_bracket = P.is_in_round_bracket
                   /\ Q.head_node = P.head_node
SameHeld(P, Q) == /\ Q.in_pipe_fd = P.in_pipe_fd /\ Q.out_pipe_fd = P.out_pipe_fd
                  /\ Q.pre_in_pipe_fd = P.pre_in_pipe_fd
                  /\ Q.stored_stdin = P.stored_stdin /\ Q.stored_stdout = P.stored_stdout
SameFiles(P, Q) == Q.fds = P.fds /\ Q.fd_num = P.fd_num /\ SameHeld(P, Q)

\* The kernel's choices are among the free descriptors, and two are not the same.
LEMMA NthFreeIn ==
    ASSUME NEW P, NEW c \in Nat, c > 0, c <= Cardinality(FreeFds(P))
    PROVE  /\ NthFree(P, c) \in FreeFds(P)
           /\ Cardinality({g \in FreeFds(P) : g < NthFree(P, c)}) = c - 1
<1>1. FreeFds(P) \subseteq Nat /\ IsFiniteSet(FreeFds(P))
  BY Standard, FS_Subset DEF FreeFds
<1>2. c - 1 \in Nat /\ c - 1 < Cardinality(FreeFds(P))
  BY <1>1, FS_CardinalityType
<1>3. \E fd \in FreeFds(P) : Cardinality({g \in FreeFds(P) : g < fd}) = c - 1
  BY <1>1, <1>2, NthExists
<1> QED BY <1>3 DEF NthFree

\* Two free descriptors are two different ones.
LEMMA TwoFree ==
    ASSUME NEW P, ~ (Cardinality(FreeFds(P)) < 2)
    PROVE  /\ NthFree(P, 1) \in FreeFds(P) /\ NthFree(P, 2) \in FreeFds(P)
           /\ NthFree(P, 1) # NthFree(P, 2)
<1>1. IsFiniteSet(FreeFds(P))
  BY Standard, FS_Subset DEF FreeFds
<1>2. 1 <= Cardinality(FreeFds(P)) /\ 2 <= Cardinality(FreeFds(P))
  BY <1>1, FS_CardinalityType
<1>3. /\ NthFree(P, 1) \in FreeFds(P) /\ NthFree(P, 2) \in FreeFds(P)
      /\ Cardinality({g \in FreeFds(P) : g < NthFree(P, 1)}) = 0
      /\ Cardinality({g \in FreeFds(P) : g < NthFree(P, 2)}) = 1
  BY <1>2, NthFreeIn
<1> QED BY <1>3

\* What only the descriptors tell apart.
OnlyFds(P, Q) == /\ Q.node = P.node /\ Q.i = P.i /\ Q.last_status = P.last_status
                 /\ Q.fd_num = P.fd_num /\ SameHeld(P, Q) /\ SameFlags(P, Q)

\* Descriptor fd of P refers to d.
Refers(P, fd, d) == [P.fds EXCEPT ![fd] = d]

\* close() lets go of one descriptor, and of nothing else.
LEMMA CloseDoes ==
    ASSUME NEW P \in Process, NEW fd
    PROVE  /\ Close(P, fd) \in Process /\ OnlyFds(P, Close(P, fd))
           /\ Close(P, fd).fds = Refers(P, fd, Closed)
<1>1. CASE fd \in FD
  <2> DEFINE Q == [P EXCEPT !.fds[fd] = Closed]
  <2>1. Close(P, fd) = Q
    BY <1>1 DEF Close
  <2>2. OnlyFds(P, Q) /\ Q.fds = Refers(P, fd, Closed)
    BY DEF Process, OnlyFds, SameHeld, SameFlags, Refers
  <2> QED BY <2>1, <2>2, CloseType
<1>2. CASE fd \notin FD
  <2>1. P.fds \in [FD -> Desc]
    BY DEF Process
  <2> QED BY <1>2, <2>1 DEF Close, OnlyFds, SameHeld, SameFlags, Refers
<1> QED BY <1>1, <1>2

\* dup2() makes one descriptor refer to what another one refers to.
LEMMA Dup2Does ==
    ASSUME NEW P \in Process, NEW from, NEW to \in FD
    PROVE  /\ Dup2(P, from, to) \in Process /\ OnlyFds(P, Dup2(P, from, to))
           /\ Dup2(P, from, to).fds =
                IF IsOpen(P, from) THEN Refers(P, to, P.fds[from]) ELSE P.fds
<1> DEFINE Q == [P EXCEPT !.fds[to] = P.fds[from]]
<1>1. OnlyFds(P, Q) /\ Q.fds = Refers(P, to, P.fds[from]) /\ OnlyFds(P, P)
  BY DEF Process, OnlyFds, SameHeld, SameFlags, Refers
<1>2. Dup2(P, from, to) = IF IsOpen(P, from) THEN Q ELSE P
  BY DEF Dup2
<1> HIDE DEF Q
<1> QED BY <1>1, <1>2, Dup2Type

\* reset_parent_process_fd closes the parent's ends, but the one to read from
\* that the next command gets.
Dropped(P, fd) == \/ fd = P.pre_in_pipe_fd /\ fd # STDIN_FILENO
                  \/ fd = P.out_pipe_fd /\ fd # STDOUT_FILENO

\* reset_parent_process_fd closes what Dropped names.
LEMMA ResetDoes ==
    ASSUME NEW P \in Process
    PROVE  LET R == reset_parent_process_fd(P)
           IN  /\ R \in Process /\ SameFlags(P, R) /\ R.node = P.node
               /\ R.fds = [fd \in FD |-> IF Dropped(P, fd) THEN Closed ELSE P.fds[fd]]
               /\ R.pre_in_pipe_fd = P.in_pipe_fd /\ R.in_pipe_fd = -1 /\ R.out_pipe_fd = -1
               /\ R.stored_stdin = P.stored_stdin /\ R.stored_stdout = P.stored_stdout
               /\ R.fd_num = P.fd_num
<1> DEFINE a == IF P.pre_in_pipe_fd # STDIN_FILENO THEN P.pre_in_pipe_fd ELSE -1
           b == IF P.out_pipe_fd # STDOUT_FILENO THEN P.out_pipe_fd ELSE -1
           C == Close(P, a)
           B == Close(C, b)
           R == [B EXCEPT !.pre_in_pipe_fd = P.in_pipe_fd, !.in_pipe_fd = -1, !.out_pipe_fd = -1]
<1>1. R = reset_parent_process_fd(P)
  BY DEF reset_parent_process_fd
<1>2. C \in Process /\ OnlyFds(P, C) /\ C.fds = Refers(P, a, Closed)
  BY CloseDoes
<1> HIDE DEF a, b, C
<1>3. B \in Process /\ OnlyFds(C, B) /\ B.fds = Refers(C, b, Closed)
  BY <1>2, CloseDoes
<1> HIDE DEF B
<1>4. B.fds = [fd \in FD |-> IF fd = a \/ fd = b THEN Closed ELSE P.fds[fd]]
  BY <1>2, <1>3 DEF Refers, Process
<1>5. -1 \notin FD
  BY Standard
<1>6. B.fds = [fd \in FD |-> IF Dropped(P, fd) THEN Closed ELSE P.fds[fd]]
  BY <1>4, <1>5 DEF a, b, Dropped
<1>7. /\ R.fds = B.fds /\ R.node = B.node /\ R.fd_num = B.fd_num /\ SameFlags(B, R)
      /\ R.pre_in_pipe_fd = P.in_pipe_fd /\ R.in_pipe_fd = -1 /\ R.out_pipe_fd = -1
      /\ R.stored_stdin = B.stored_stdin /\ R.stored_stdout = B.stored_stdout
  BY <1>3 DEF Process, SameFlags
<1> HIDE DEF R
<1> QED BY <1>1, <1>2, <1>3, <1>6, <1>7, ResetType DEF OnlyFds, SameHeld, SameFlags

\* The parent of a command closes the heredoc of the command.
LEMMA CloseHeredocDoes ==
    ASSUME NEW P \in Process
    PROVE  LET C == CloseHeredoc(P)
               l == Ast[P.node].left
           IN  /\ C \in Process /\ OnlyFds(P, C)
               /\ C.fds = IF l = 0 THEN P.fds ELSE Refers(P, P.fd_num[l], Closed)
<1>1. OnlyFds(P, P)
  BY DEF OnlyFds, SameHeld, SameFlags
<1> QED BY <1>1, CloseDoes DEF CloseHeredoc

\* Both depend on the files only.
LEMMA SameReset ==
    ASSUME NEW P \in Process, NEW Q \in Process, SameFiles(P, Q), Q.node = P.node
    PROVE  LET R == reset_parent_process_fd(P)
               S == reset_parent_process_fd(Q)
           IN  /\ R \in Process /\ S \in Process /\ R.node = P.node /\ S.node = P.node
               /\ SameFiles(R, S) /\ SameFlags(Q, S)
<1> DEFINE R == reset_parent_process_fd(P)
           S == reset_parent_process_fd(Q)
<1>1. R \in Process /\ S \in Process /\ R.node = P.node /\ S.node = P.node /\ SameFlags(Q, S)
  BY ResetDoes
<1>2. R.fds = S.fds
  <2>1. R.fds = [fd \in FD |-> IF Dropped(P, fd) THEN Closed ELSE P.fds[fd]]
    BY ResetDoes
  <2>2. S.fds = [fd \in FD |-> IF Dropped(Q, fd) THEN Closed ELSE Q.fds[fd]]
    BY ResetDoes
  <2> HIDE DEF R, S
  <2> QED BY <2>1, <2>2 DEF SameFiles, SameHeld, Dropped
<1>3. R.fd_num = S.fd_num /\ SameHeld(R, S)
  BY ResetDoes DEF SameFiles, SameHeld
<1> QED BY <1>1, <1>2, <1>3 DEF SameFiles

\* Processes with the same files still have the same ones after that.
LEMMA SameClose ==
    ASSUME NEW P \in Process, NEW Q \in Process, SameFiles(P, Q), Q.node = P.node
    PROVE  LET R == CloseHeredoc(P)
               S == CloseHeredoc(Q)
           IN  /\ R \in Process /\ S \in Process /\ S.node = P.node
               /\ SameFiles(R, S) /\ SameFlags(Q, S)
<1> DEFINE R == CloseHeredoc(P)
           S == CloseHeredoc(Q)
           l == Ast[P.node].left
<1>1. R \in Process /\ OnlyFds(P, R)
      /\ R.fds = IF l = 0 THEN P.fds ELSE Refers(P, P.fd_num[l], Closed)
  BY CloseHeredocDoes
<1>2. S \in Process /\ OnlyFds(Q, S)
      /\ S.fds = IF l = 0 THEN Q.fds ELSE Refers(Q, Q.fd_num[l], Closed)
  BY CloseHeredocDoes
<1> HIDE DEF R, S, l
<1>3. R.fds = S.fds
  BY <1>1, <1>2 DEF SameFiles, Refers
<1>4. SameFiles(R, S) /\ SameFlags(Q, S) /\ S.node = P.node
  BY <1>1, <1>2, <1>3 DEF SameFiles, OnlyFds, SameHeld
<1> QED BY <1>1, <1>2, <1>4 DEF R, S

\* A process that exits runs no more code.
LEMMA ExitDoes ==
    ASSUME NEW f \in [Proc -> Good], NEW p \in Proc, NEW s \in 0 .. 255
    PROVE  Gone(ExitIn(f, p, s)[p])
<1> DEFINE Z == [NoProcess EXCEPT !.pc = "zombie", !.c_status = s, !.parent = f[p].parent]
<1>1. Z.pc = "zombie" /\ NoProcess.pc = "free"
  BY DEF NoProcess
<1>2. ExitIn(f, p, s)[p] = Z \/ ExitIn(f, p, s)[p] = NoProcess
  BY DEF ExitIn
<1> HIDE DEF Z
<1> QED BY <1>1, <1>2 DEF Gone

\* The shell has a line, or asks again for one.
LEMMA ReadLineDoes ==
    ASSUME TypeOK, NEW p \in Proc, ReadLine(p)
    PROVE  LET P == proc[p]
               Q == proc'[p]
               C == clear_ctx(P)
           IN  \/ Gone(Q)
               \/ /\ CanBackup(P) /\ Q.pc = "prompt"
                  /\ SameFiles(close_stored_fds(C), Q)
               \/ /\ CanBackup(P) /\ Q.pc = "heredoc" /\ Q.node \in Lines \ {0} /\ Q.i = 0
                  /\ SameFiles(C, Q) /\ SameFlags(C, Q) /\ Q.pids = C.pids
<1> DEFINE P == proc[p]
           Q == proc'[p]
           C == clear_ctx(P)
           D == close_stored_fds(C)
<1>1. proc \in [Proc -> Good] /\ P \in Process /\ P.pc = "prompt"
  BY ProcType, Here DEF ReadLine
<1>2. CASE Exit(p, EXIT_FAILURE)
  BY <1>1, <1>2, Null, ExitDoes DEF Exit
<1>3. CASE ~ Exit(p, EXIT_FAILURE)
  <2>1. CanBackup(P)
    BY <1>3 DEF ReadLine
  <2>2. C \in Process /\ C.pc = "prompt"
    <3> DEFINE B == [P EXCEPT !.in_pipe_fd = -1, !.out_pipe_fd = -1, !.pre_in_pipe_fd = -1,
                              !.pids = << >>, !.is_exec_in_child_ps = FALSE,
                              !.is_in_round_bracket = FALSE, !.head_node = 0]
    <3>1. B \in Process /\ B.pc = "prompt" /\ B.fds = P.fds
      BY <1>1, Null, ZenonT(60) DEF Process
    <3>2. Cardinality(FreeFds(B)) >= 2
      BY <2>1, <3>1 DEF CanBackup, FreeFds
    <3> HIDE DEF B
    <3>3. backup_std_fds(B) \in Process /\ SameStep(B, backup_std_fds(B))
      BY <3>1, <3>2, BackupType
    <3> QED BY <3>1, <3>3 DEF clear_ctx, SameStep, B
  <2>3. D \in Process /\ D.pc = "prompt"
    BY <2>2, CloseStoredType DEF SameStep
  <2>4. \/ Set(p, [D EXCEPT !.last_status = SyntaxError])
        \/ \E root \in Lines \ {0} :
             Set(p, [C EXCEPT !.pc = "heredoc", !.node = root, !.i = 0])
    BY <1>3 DEF ReadLine
  <2> HIDE DEF C, D
  <2>5. CASE Set(p, [D EXCEPT !.last_status = SyntaxError])
    <3>1. Q = [D EXCEPT !.last_status = SyntaxError]
      BY <1>1, <2>5 DEF Set
    <3>2. Q.pc = "prompt" /\ SameFiles(D, Q)
      BY <2>3, <3>1 DEF Process, SameFiles, SameHeld, SameFlags
    <3> QED BY <2>1, <3>2 DEF C, D
  <2>6. CASE \E root \in Lines \ {0} :
               Set(p, [C EXCEPT !.pc = "heredoc", !.node = root, !.i = 0])
    <3>1. PICK root \in Lines \ {0} :
               Q = [C EXCEPT !.pc = "heredoc", !.node = root, !.i = 0]
      BY <1>1, <2>6 DEF Set
    <3>2. /\ Q.pc = "heredoc" /\ Q.node = root /\ Q.i = 0
          /\ SameFiles(C, Q) /\ SameFlags(C, Q) /\ Q.pids = C.pids
      BY <2>2, <3>1 DEF Process, SameFiles, SameHeld, SameFlags
    <3> QED BY <2>1, <3>2 DEF C, D
  <2> QED BY <2>4, <2>5, <2>6
<1> QED BY <1>2, <1>3

\* call_heredoc on the next node with a heredoc: its number is noted, and if its
\* heredoc is kept it gets a descriptor that was free.
NextHeredoc(P) == CHOOSE n \in HeredocNodes(P) : \A m \in HeredocNodes(P) : n <= m

\* heredoc_handler goes on to the next node, with a new pipe or without.
LEMMA HeredocDoes ==
    ASSUME TypeOK, NEW p \in Proc, Heredoc(p)
    PROVE  LET P == proc[p]
               Q == proc'[p]
               n == NextHeredoc(P)
           IN  /\ n \in HeredocNodes(P) /\ \A m \in HeredocNodes(P) : n <= m
               /\ \/ Gone(Q)
                  \/ /\ At(Q, "heredoc", P.node) /\ Q.i = n /\ SameFlags(P, Q)
                     /\ \/ ~ is_heredoc_end(n) /\ SameFiles(P, Q)
                        \/ \E fd \in FreeFds(P), k \in Pipe :
                             /\ Q.fds = [P.fds EXCEPT ![fd] = ReadEnd(k)]
                             /\ Q.fd_num = [P.fd_num EXCEPT ![n] = fd]
                             /\ SameHeld(P, Q)
<1> DEFINE P == proc[p]
           Q == proc'[p]
           n == NextHeredoc(P)
           c == Cardinality(HeredocOps(n))
           fd == NthFree(P, c)
           k == NewPipe
<1>1. proc \in [Proc -> Good] /\ P \in Process /\ P.pc = "heredoc" /\ P.node \in Node
  BY ProcType, Here DEF Heredoc, AtItsNode
<1>2. n \in HeredocNodes(P) /\ \A m \in HeredocNodes(P) : n <= m
  <2>1. HeredocNodes(P) \subseteq Nat /\ HeredocNodes(P) # {}
    <3>1. HeredocNodes(P) \subseteq Node
      BY DEF HeredocNodes, RedirectNode
    <3>2. HeredocNodes(P) # {}
      BY DEF Heredoc
    <3> QED BY <3>1, <3>2, Nodes
  <2>2. \E m \in HeredocNodes(P) : \A l \in HeredocNodes(P) : m <= l
    BY <2>1, NatMin
  <2> QED BY <2>2 DEF NextHeredoc
<1>3. n \in RedirectNode /\ n \in Node /\ HeredocOps(n) # {}
  BY <1>2 DEF HeredocNodes, RedirectNode
<1>4. c \in Nat /\ c > 0
  BY <1>3, OpsType
<1>5. \/ Exit(p, EXIT_FAILURE)
      \/ /\ ~ (Cardinality(FreeFds(P)) <= c) /\ ~ is_heredoc_end(n)
         /\ Set(p, [P EXCEPT !.i = n])
      \/ /\ ~ (Cardinality(FreeFds(P)) <= c) /\ UnusedPipes # {}
         /\ Set(p, [P EXCEPT !.i = n, !.fds[fd] = ReadEnd(k), !.fd_num[n] = fd])
  BY DEF Heredoc, NextHeredoc
<1> HIDE DEF n, c
<1>6. CASE Exit(p, EXIT_FAILURE)
  BY <1>1, <1>2, <1>6, Null, ExitDoes DEF Exit, n
<1>7. CASE ~ is_heredoc_end(n) /\ Set(p, [P EXCEPT !.i = n])
  <2>1. Q = [P EXCEPT !.i = n]
    BY <1>1, <1>7 DEF Set
  <2>2. At(Q, "heredoc", P.node) /\ Q.i = n /\ SameFlags(P, Q) /\ SameFiles(P, Q)
    BY <1>1, <2>1 DEF Process, SameFiles, SameHeld, SameFlags, At
  <2> QED BY <1>2, <1>7, <2>2 DEF n
<1>8. CASE /\ ~ (Cardinality(FreeFds(P)) <= c) /\ UnusedPipes # {}
           /\ Set(p, [P EXCEPT !.i = n, !.fds[fd] = ReadEnd(k), !.fd_num[n] = fd])
  <2>1. fd \in FreeFds(P)
    <3>1. IsFiniteSet(FreeFds(P))
      BY Standard, FS_Subset DEF FreeFds
    <3>2. c <= Cardinality(FreeFds(P))
      BY <1>4, <1>8, <3>1, FS_CardinalityType
    <3> QED BY <1>4, <3>2, NthFreeIn
  <2>2. k \in Pipe
    BY <1>8, NewPipeType
  <2> HIDE DEF fd, k
  <2>3. Q = [P EXCEPT !.i = n, !.fds[fd] = ReadEnd(k), !.fd_num[n] = fd]
    BY <1>1, <1>8 DEF Set
  <2>4. At(Q, "heredoc", P.node) /\ Q.i = n /\ SameFlags(P, Q) /\ SameHeld(P, Q)
    BY <1>1, <2>3 DEF Process, SameHeld, SameFlags, At
  <2>5. /\ Q.fds = [P.fds EXCEPT ![fd] = ReadEnd(k)]
        /\ Q.fd_num = [P.fd_num EXCEPT ![n] = fd]
    BY <1>1, <2>3 DEF Process
  <2> QED BY <1>2, <2>1, <2>2, <2>4, <2>5 DEF n
<1> QED BY <1>5, <1>6, <1>7, <1>8

\* After the heredocs the line is run from its root.
LEMMA HeredocsReadDoes ==
    ASSUME TypeOK, NEW p \in Proc, HeredocsRead(p)
    PROVE  LET P == proc[p]
               Q == proc'[p]
           IN  /\ P.pc = "heredoc" /\ HeredocNodes(P) = {}
               /\ At(Q, "exec", P.node) /\ SameFiles(P, Q)
               /\ Q.is_exec_in_child_ps = P.is_exec_in_child_ps
               /\ Q.is_in_round_bracket = P.is_in_round_bracket
               /\ Q.head_node = P.node
<1>1. proc \in [Proc -> Good] /\ proc[p] \in Process /\ proc[p].pc = "heredoc"
      /\ HeredocNodes(proc[p]) = {}
  BY ProcType, Here DEF HeredocsRead
<1>2. proc'[p] = [proc[p] EXCEPT !.pc = "exec", !.head_node = proc[p].node]
  BY <1>1 DEF HeredocsRead, Set
<1> QED BY <1>1, <1>2 DEF Process, SameFiles, SameHeld, At

\* exec_pipe goes to its left side with a new pipe.
LEMMA exec_pipeDoes ==
    ASSUME TypeOK, NEW p \in Proc, exec_pipe(p)
    PROVE  LET P == proc[p]
               Q == proc'[p]
           IN  /\ P.pc = "exec" /\ P.node \in Node /\ Ast[P.node].kind = "ND_PIPE"
               /\ \/ Gone(Q)
                  \/ \E r, w \in FreeFds(P), k \in UnusedPipes :
                       /\ r # w /\ At(Q, "exec", Ast[P.node].left)
                       /\ Q.fds = [P.fds EXCEPT ![r] = ReadEnd(k), ![w] = WriteEnd(k)]
                       /\ Q.in_pipe_fd = r /\ Q.out_pipe_fd = w
                       /\ Q.pre_in_pipe_fd = P.pre_in_pipe_fd
                       /\ Q.stored_stdin = P.stored_stdin /\ Q.stored_stdout = P.stored_stdout
                       /\ Q.fd_num = P.fd_num
                       /\ Q.is_exec_in_child_ps
                       /\ Q.is_in_round_bracket = P.is_in_round_bracket
                       /\ Q.head_node = P.head_node
<1> DEFINE P == proc[p]
           Q == proc'[p]
           r == NthFree(P, 1)
           w == NthFree(P, 2)
           k == NewPipe
           l == Ast[P.node].left
<1>1. /\ proc \in [Proc -> Good] /\ P \in Process /\ P.pc = "exec" /\ P.node \in Node
      /\ Ast[P.node].kind = "ND_PIPE"
  BY ProcType, Here DEF exec_pipe, AtNode, AtItsNode
<1>2. CASE Cardinality(FreeFds(P)) < 2
  <2>1. Exit(p, EXIT_FAILURE)
    BY <1>2 DEF exec_pipe
  <2> QED BY <1>1, <2>1, Null, ExitDoes DEF Exit
<1>3. CASE ~ (Cardinality(FreeFds(P)) < 2)
  <2>1. /\ UnusedPipes # {}
        /\ Q = [P EXCEPT !.fds = [@ EXCEPT ![r] = ReadEnd(k), ![w] = WriteEnd(k)],
                         !.is_exec_in_child_ps = TRUE,
                         !.in_pipe_fd = r, !.out_pipe_fd = w, !.node = l]
    BY <1>1, <1>3 DEF exec_pipe, Set
  <2>2. r \in FreeFds(P) /\ w \in FreeFds(P) /\ r # w
    BY <1>3, TwoFree
  <2>3. k \in UnusedPipes
    <3>1. UnusedPipes \subseteq Nat
      BY BoundsAssumption DEF UnusedPipes, Pipe
    <3>2. \E j \in UnusedPipes : \A i \in UnusedPipes : j <= i
      BY <2>1, <3>1, NatMin
    <3> QED BY <3>2 DEF NewPipe
  <2> HIDE DEF r, w, k, l
  <2>4. /\ At(Q, "exec", l) /\ Q.fd_num = P.fd_num /\ Q.in_pipe_fd = r /\ Q.out_pipe_fd = w
        /\ Q.pre_in_pipe_fd = P.pre_in_pipe_fd
        /\ Q.stored_stdin = P.stored_stdin /\ Q.stored_stdout = P.stored_stdout
    BY <1>1, <2>1 DEF Process, At
  <2>5. /\ Q.fds = [P.fds EXCEPT ![r] = ReadEnd(k), ![w] = WriteEnd(k)]
        /\ Q.is_exec_in_child_ps
        /\ Q.is_in_round_bracket = P.is_in_round_bracket /\ Q.head_node = P.head_node
    BY <1>1, <2>1 DEF Process
  <2> QED BY <1>1, <2>2, <2>3, <2>4, <2>5 DEF l
<1> QED BY <1>2, <1>3

\* exec_and_or runs its left side,
LEMMA exec_logicalDoes ==
    ASSUME TypeOK, NEW p \in Proc, exec_logical(p)
    PROVE  LET P == proc[p]
               Q == proc'[p]
           IN  /\ P.pc = "exec" /\ P.node \in Node
               /\ Ast[P.node].kind \in {"ND_AND_OP", "ND_OR_OP"}
               /\ At(Q, "exec", Ast[P.node].left) /\ SameFiles(P, Q) /\ SameFlags(P, Q)
<1>1. /\ proc \in [Proc -> Good] /\ proc[p] \in Process /\ proc[p].pc = "exec"
      /\ proc[p].node \in Node /\ Ast[proc[p].node].kind \in {"ND_AND_OP", "ND_OR_OP"}
  BY ProcType, Here DEF exec_logical, AtNode, AtItsNode
<1>2. proc'[p] = [proc[p] EXCEPT !.node = Ast[proc[p].node].left]
  BY <1>1 DEF exec_logical, Set
<1> QED BY <1>1, <1>2 DEF Process, SameFiles, SameHeld, SameFlags, At

\* exec_round_brackets what is inside, as in a subshell,
LEMMA exec_round_bracketsDoes ==
    ASSUME TypeOK, NEW p \in Proc, exec_round_brackets(p)
    PROVE  LET P == proc[p]
               Q == proc'[p]
           IN  /\ P.pc = "exec" /\ P.node \in Node /\ Ast[P.node].kind = "ND_RND_BRACKET"
               /\ At(Q, "exec", Ast[P.node].left) /\ SameFiles(P, Q)
               /\ Q.is_exec_in_child_ps /\ Q.is_in_round_bracket
               /\ Q.head_node = P.head_node
<1>1. /\ proc \in [Proc -> Good] /\ proc[p] \in Process /\ proc[p].pc = "exec"
      /\ proc[p].node \in Node /\ Ast[proc[p].node].kind = "ND_RND_BRACKET"
  BY ProcType, Here DEF exec_round_brackets, AtNode, AtItsNode
<1>2. proc'[p] = [proc[p] EXCEPT !.is_exec_in_child_ps = TRUE, !.is_in_round_bracket = TRUE,
                                 !.node = Ast[proc[p].node].left]
  BY <1>1 DEF exec_round_brackets, Set
<1> QED BY <1>1, <1>2 DEF Process, SameFiles, SameHeld, At

\* and exec_redirect its redirects, with the standard descriptors set aside.
LEMMA exec_redirectDoes ==
    ASSUME TypeOK, NEW p \in Proc, exec_redirect(p)
    PROVE  LET P == proc[p]
               Q == proc'[p]
           IN  /\ P.pc = "exec" /\ P.node \in Node /\ Ast[P.node].kind = "ND_REDIRECTS"
               /\ At(Q, "redirect", P.node) /\ Q.i = 1 /\ SameFiles(P, Q) /\ SameFlags(P, Q)
<1>1. /\ proc \in [Proc -> Good] /\ proc[p] \in Process /\ proc[p].pc = "exec"
      /\ proc[p].node \in Node /\ Ast[proc[p].node].kind = "ND_REDIRECTS"
  BY ProcType, Here DEF exec_redirect, AtNode, AtItsNode
<1>2. proc'[p] = [proc[p] EXCEPT !.pc = "redirect", !.i = 1]
  BY <1>1 DEF exec_redirect, Set
<1> QED BY <1>1, <1>2 DEF Process, SameFiles, SameHeld, SameFlags, At

\* A builtin outside pipelines and brackets runs in the process that is there.
LEMMA exec_cmd_hereDoes ==
    ASSUME TypeOK, NEW p \in Proc, exec_cmd_here(p)
    PROVE  LET P == proc[p]
               Q == proc'[p]
           IN  /\ P.pc = "exec" /\ P.node \in Node /\ Ast[P.node].kind = "ND_CMD"
               /\ RunsHere(P)
               /\ At(Q, "cmd", P.node) /\ SameFiles(P, Q) /\ SameFlags(P, Q)
<1>1. /\ proc \in [Proc -> Good] /\ proc[p] \in Process /\ proc[p].pc = "exec"
      /\ proc[p].node \in Node /\ Ast[proc[p].node].kind = "ND_CMD" /\ RunsHere(proc[p])
  BY ProcType, Here DEF exec_cmd_here, AtNode, AtItsNode
<1>2. proc'[p] = [proc[p] EXCEPT !.pc = "cmd"]
  BY <1>1 DEF exec_cmd_here, Set
<1> QED BY <1>1, <1>2 DEF Process, SameFiles, SameHeld, SameFlags, At

\* The parent closes its ends; the child starts from a copy.
LEMMA exec_cmd_forkedDoes ==
    ASSUME TypeOK, NEW p \in Proc, exec_cmd_forked(p)
    PROVE  LET P == proc[p]
               Q == proc'[p]
               D == CloseHeredoc(reset_parent_process_fd(P))
           IN  /\ P.pc = "exec" /\ P.node \in Node /\ Ast[P.node].kind = "ND_CMD"
               /\ ~ RunsHere(P)
               /\ \/ Gone(Q)
                  \/ ~ ResetFails(P) /\ At(Q, "return", P.node) /\ SameFiles(D, Q) /\ SameFlags(P, Q)
<1> DEFINE P == proc[p]
           Q == proc'[p]
           F == ForkedParent(p)
           R == reset_parent_process_fd(P)
           S == reset_parent_process_fd(F)
           D == CloseHeredoc(R)
           E == CloseHeredoc(S)
<1>1. /\ proc \in [Proc -> Good] /\ P \in Process /\ P.pc = "exec" /\ P.node \in Node
      /\ Ast[P.node].kind = "ND_CMD" /\ ~ RunsHere(P)
  BY ProcType, Here DEF exec_cmd_forked, AtNode, AtItsNode
<1>2. CASE Exit(p, EXIT_FAILURE)
  BY <1>1, <1>2, Null, ExitDoes DEF Exit
<1>3. CASE FreeSlots # {} /\ proc' = ExitIn(AfterFork(p), p, EXIT_FAILURE)
  BY <1>1, <1>3, Null, ExitDoes, ForkType
<1>4. CASE FreeSlots # {} /\ ~ ResetFails(F) /\ proc' = [AfterFork(p) EXCEPT ![p] = ParentDone(p)]
  <2>1. Q = ParentDone(p)
    BY <1>4, ForkType
  <2>2. F.node = P.node /\ SameFiles(P, F) /\ SameFlags(P, F)
    BY <1>1 DEF Process, ForkedParent, SameFiles, SameHeld, SameFlags
  <2>3. F \in Process
    <3>1. AfterFork(p) \in [Proc -> Good] /\ F = AfterFork(p)[p]
      BY <1>1, <1>4, ForkType DEF AfterFork
    <3> QED BY <3>1 DEF Good
  <2> HIDE DEF F
  <2>4. R \in Process /\ S \in Process /\ R.node = P.node /\ S.node = P.node
        /\ SameFiles(R, S) /\ SameFlags(P, S)
    BY <1>1, <2>2, <2>3, SameReset DEF SameFlags
  <2> HIDE DEF R, S
  <2>5. E \in Process /\ SameFiles(D, E) /\ SameFlags(P, E) /\ E.node = P.node
    BY <2>4, SameClose DEF SameFlags
  <2>6. Q = Return(E, 0)
    BY <2>1 DEF ParentDone, S, F
  <2> HIDE DEF D, E
  <2>7. At(Q, "return", P.node) /\ SameFiles(D, Q) /\ SameFlags(P, Q)
    BY <2>5, <2>6 DEF Return, Process, At, SameFiles, SameHeld, SameFlags
  <2>8. ~ ResetFails(P)
    BY <1>4, <2>2 DEF ResetFails, CloseFails, IsOpen, SameFiles, SameHeld
  <2> QED BY <1>1, <2>7, <2>8 DEF D, R
<1>5. \/ Exit(p, EXIT_FAILURE)
      \/ /\ FreeSlots # {}
         /\ \/ proc' = ExitIn(AfterFork(p), p, EXIT_FAILURE)
            \/ ~ ResetFails(F) /\ proc' = [AfterFork(p) EXCEPT ![p] = ParentDone(p)]
  BY DEF exec_cmd_forked, ForkedChild, ForkedParent, AfterFork, ParentDone
<1> QED BY <1>2, <1>3, <1>4, <1>5

\* The child's own connections: what SetupDoes says of its descriptors.
LEMMA MoveToDoes ==
    ASSUME NEW P \in Process, NEW from, NEW to \in FD
    PROVE  /\ MoveTo(P, from, to) \in Process /\ OnlyFds(P, MoveTo(P, from, to))
           /\ MoveTo(P, from, to).fds =
                [fd \in FD |-> CASE fd = from -> Closed
                                 [] fd # from /\ fd = to /\ IsOpen(P, from) -> P.fds[from]
                                 [] OTHER -> P.fds[fd]]
<1> DEFINE D == Dup2(P, from, to)
           M == Close(D, from)
<1>1. /\ D \in Process /\ OnlyFds(P, D)
      /\ D.fds = IF IsOpen(P, from) THEN Refers(P, to, P.fds[from]) ELSE P.fds
  BY Dup2Does
<1> HIDE DEF D
<1>2. M \in Process /\ OnlyFds(D, M) /\ M.fds = Refers(D, from, Closed)
  BY <1>1, CloseDoes
<1>3. M = MoveTo(P, from, to)
  BY DEF MoveTo, D
<1> HIDE DEF M
<1>4. P.fds \in [FD -> Desc]
  BY DEF Process
<1>5. M.fds = [fd \in FD |-> CASE fd = from -> Closed
                               [] fd # from /\ fd = to /\ IsOpen(P, from) -> P.fds[from]
                               [] OTHER -> P.fds[fd]]
  BY <1>1, <1>2, <1>4 DEF Refers
<1>6. OnlyFds(P, M)
  BY <1>1, <1>2 DEF OnlyFds, SameHeld, SameFlags
<1> QED BY <1>2, <1>3, <1>5, <1>6

\* A child takes the ends of its pipes as its input and output.
LEMMA ChildSetupDoes ==
    ASSUME TypeOK, NEW p \in Proc, ChildSetup(p)
    PROVE  LET P == proc[p]
               Q == proc'[p]
               S == setup_child_process_fd_flg(P)
           IN  /\ P.pc = "child" /\ P.node \in Node /\ Ast[P.node].kind = "ND_CMD"
               /\ At(Q, "cmd", P.node) /\ Q.fds = S.fds /\ Q.fd_num = P.fd_num /\ SameHeld(P, Q)
               /\ Q.is_exec_in_child_ps
               /\ Q.is_in_round_bracket = P.is_in_round_bracket /\ Q.head_node = P.head_node
<1> DEFINE P == proc[p]
           Q == proc'[p]
           C == ConnectInput(P)
           D == Close(C, P.in_pipe_fd)
           E == ConnectOutput(D)
           S == setup_child_process_fd_flg(P)
<1>1. /\ proc \in [Proc -> Good] /\ P \in Process /\ P.pc = "child" /\ P.node \in Node
      /\ Ast[P.node].kind = "ND_CMD"
  BY ProcType, Here DEF ChildSetup, AtItsNode
<1>2. STDIN_FILENO \in FD /\ STDOUT_FILENO \in FD
  BY Standard DEF STDIN_FILENO, STDOUT_FILENO
<1>3. \A X : OnlyFds(X, X)
  BY DEF OnlyFds, SameHeld, SameFlags
<1>4. C \in Process /\ OnlyFds(P, C)
  BY <1>1, <1>2, <1>3, MoveToDoes DEF ConnectInput
<1>5. D \in Process /\ OnlyFds(C, D)
  BY <1>4, CloseDoes
<1>6. E \in Process /\ OnlyFds(D, E)
  BY <1>2, <1>3, <1>5, MoveToDoes DEF ConnectOutput
<1>7. S = [E EXCEPT !.is_exec_in_child_ps = TRUE]
  BY DEF setup_child_process_fd_flg
<1> HIDE DEF C, D, E
<1>8. S \in Process /\ S.fd_num = P.fd_num /\ SameHeld(P, S) /\ S.node = P.node
      /\ S.is_exec_in_child_ps /\ S.is_in_round_bracket = P.is_in_round_bracket
      /\ S.head_node = P.head_node
  <2>1. S \in Process
    BY <1>1, SetupType
  <2>2. E.fd_num = P.fd_num /\ SameHeld(P, E) /\ E.node = P.node
        /\ E.is_in_round_bracket = P.is_in_round_bracket /\ E.head_node = P.head_node
    BY <1>4, <1>5, <1>6 DEF OnlyFds, SameHeld, SameFlags
  <2>3. S.fd_num = E.fd_num /\ SameHeld(E, S) /\ S.node = E.node
        /\ S.is_exec_in_child_ps /\ S.is_in_round_bracket = E.is_in_round_bracket
        /\ S.head_node = E.head_node
    BY <1>6, <1>7 DEF Process, SameHeld
  <2> HIDE DEF S
  <2> QED BY <2>1, <2>2, <2>3 DEF SameHeld
<1>9. Q = [S EXCEPT !.pc = "cmd"]
  BY <1>1 DEF ChildSetup, Set
<1> HIDE DEF S
<1>10. /\ At(Q, "cmd", P.node) /\ Q.fds = S.fds /\ Q.fd_num = P.fd_num /\ SameHeld(P, Q)
       /\ Q.is_exec_in_child_ps
       /\ Q.is_in_round_bracket = P.is_in_round_bracket /\ Q.head_node = P.head_node
  BY <1>8, <1>9 DEF Process, At, SameHeld
<1> QED BY <1>1, <1>10 DEF S

\* A builtin or a program has what the process had.
LEMMA LaunchDoes ==
    ASSUME NEW P \in Process
    PROVE  LET L == Launch(P)
           IN  /\ L.node = P.node /\ SameFiles(P, L) /\ SameFlags(P, L)
               /\ L.pc = IF Ast[P.node].cmd.word = "builtin" THEN "builtin" ELSE "program"
<1> DEFINE c == Ast[P.node].cmd
           v == IF c.word = "builtin" THEN "builtin" ELSE "program"
           L == Launch(P)
<1>1. L = [P EXCEPT !.pc = v, !.todo = c.emits, !.eof = ~ c.reads]
  BY DEF Launch
<1> HIDE DEF L, v
<1>2. L.node = P.node /\ SameFiles(P, L) /\ SameFlags(P, L) /\ L.pc = v
  BY <1>1 DEF Process, SameFiles, SameHeld, SameFlags
<1> QED BY <1>2 DEF L, v

\* Where the expansion leads.
Expanded(P, Q) ==
    LET c == Ast[P.node].cmd
    IN  \/ Q.pc = "return" /\ c.word = "empty" /\ ~ P.is_exec_in_child_ps
        \/ Q.pc = "redirect" /\ Q.i = 1 /\ Ast[P.node].left # 0
        \/ /\ Ast[P.node].left = 0 /\ c.word # "empty"
           /\ Q.pc = IF c.word = "builtin" THEN "builtin" ELSE "program"

\* After the expansion a command has nothing left, is a builtin or a program.
LEMMA AfterExpansionDoes ==
    ASSUME TypeOK, NEW p \in Proc, NEW P \in Process, P.node \in Node, AfterExpansion(p, P)
    PROVE  LET Q == proc'[p]
           IN  \/ Gone(Q)
               \/ /\ Q.node = P.node /\ Expanded(P, Q) /\ SameFiles(P, Q) /\ SameFlags(P, Q)
<1> DEFINE Q == proc'[p]
           c == Ast[P.node].cmd
           L == Launch(P)
<1>1. proc \in [Proc -> Good]
  BY ProcType
<1>2. \/ Exit(p, 127)
      \/ /\ c.word = "empty" /\ ~ P.is_exec_in_child_ps
         /\ Set(p, Return([P EXCEPT !.last_status = 127], EXIT_FAILURE))
      \/ Ast[P.node].left # 0 /\ Set(p, [P EXCEPT !.pc = "redirect", !.i = 1])
      \/ Ast[P.node].left = 0 /\ c.word # "empty" /\ Set(p, L)
  BY DEF AfterExpansion
<1>3. CASE Exit(p, 127)
  BY <1>1, <1>3, Null, ExitDoes DEF Exit
<1>4. CASE /\ c.word = "empty" /\ ~ P.is_exec_in_child_ps
           /\ Set(p, Return([P EXCEPT !.last_status = 127], EXIT_FAILURE))
  <2>1. Q = Return([P EXCEPT !.last_status = 127], EXIT_FAILURE)
    BY <1>1, <1>4 DEF Set
  <2>2. Q.pc = "return" /\ Q.node = P.node /\ SameFiles(P, Q) /\ SameFlags(P, Q)
    BY <2>1 DEF Return, Process, SameFiles, SameHeld, SameFlags
  <2> QED BY <1>4, <2>2 DEF Expanded
<1>5. CASE Ast[P.node].left # 0 /\ Set(p, [P EXCEPT !.pc = "redirect", !.i = 1])
  <2>1. Q = [P EXCEPT !.pc = "redirect", !.i = 1]
    BY <1>1, <1>5 DEF Set
  <2>2. Q.pc = "redirect" /\ Q.i = 1 /\ Q.node = P.node /\ SameFiles(P, Q) /\ SameFlags(P, Q)
    BY <2>1 DEF Process, SameFiles, SameHeld, SameFlags
  <2> QED BY <1>5, <2>2 DEF Expanded
<1>6. CASE Ast[P.node].left = 0 /\ c.word # "empty" /\ Set(p, L)
  <2>1. Q = L
    BY <1>1, <1>6 DEF Set
  <2>2. Q.node = P.node /\ SameFiles(P, Q) /\ SameFlags(P, Q)
        /\ Q.pc = IF c.word = "builtin" THEN "builtin" ELSE "program"
    BY <2>1, LaunchDoes
  <2> QED BY <1>6, <2>2 DEF Expanded
<1> QED BY <1>2, <1>3, <1>4, <1>5, <1>6

\* A new body in the place of a heredoc.
NewBody(P, Q) ==
    LET l == Ast[P.node].left
    IN  /\ HasHeredoc(P)
        /\ \E fd \in FreeFds(P), k \in Pipe :
             /\ Q.fds = Refers(P, fd, ReadEnd(k))
             /\ Q.fd_num = [P.fd_num EXCEPT ![l] = fd]
        /\ SameHeld(P, Q)

\* exec_cmd ends, runs a builtin, runs a program, or applies the redirects first.
LEMMA exec_cmdDoes ==
    ASSUME TypeOK, NEW p \in Proc, exec_cmd(p) \/ exec_cmd_with_heredoc(p)
    PROVE  LET P == proc[p]
               Q == proc'[p]
           IN  /\ P.pc = "cmd" /\ P.node \in Node /\ Ast[P.node].kind = "ND_CMD"
               /\ \/ Gone(Q)
                  \/ /\ Q.node = P.node /\ Expanded(P, Q) /\ SameFlags(P, Q)
                     /\ \/ ~ HasHeredoc(P) /\ SameFiles(P, Q)
                        \/ NewBody(P, Q)
<1> DEFINE P == proc[p]
           Q == proc'[p]
           l == Ast[P.node].left
           fd == NthFree(P, 1)
           k == NewPipe
           X == [P EXCEPT !.fds[fd] = ReadEnd(k), !.fd_num[l] = fd]
<1>1. P \in Process /\ P.pc = "cmd" /\ P.node \in Node /\ Ast[P.node].kind = "ND_CMD"
  BY Here DEF exec_cmd, exec_cmd_with_heredoc, AtItsNode
<1>2. CASE exec_cmd(p)
  BY <1>1, <1>2, AfterExpansionDoes DEF exec_cmd
<1>3. CASE exec_cmd_with_heredoc(p)
  <2>1. /\ HasHeredoc(P) /\ AfterExpansion(p, X)
        /\ Cardinality(FreeFds(P)) >= 2 /\ UnusedPipes # {}
    BY <1>3 DEF exec_cmd_with_heredoc
  <2>2. k \in Pipe
    BY <2>1, NewPipeType
  <2>3. fd \in FreeFds(P)
    <3>1. IsFiniteSet(FreeFds(P))
      BY Standard, FS_Subset DEF FreeFds
    <3>2. Cardinality(FreeFds(P)) \in Nat /\ Cardinality(FreeFds(P)) >= 2
      BY <2>1, <3>1, FS_CardinalityType
    <3>3. ~ (Cardinality(FreeFds(P)) < 2)
      BY <3>2
    <3>4. NthFree(P, 1) \in FreeFds(P)
      BY <3>3, TwoFree
    <3> QED BY <3>4
  <2>4. l \in RedirectNode /\ fd \in FD /\ fd \in FdOrNone /\ ReadEnd(k) \in Desc
    BY <1>1, <2>1, <2>2, <2>3, NodeShape, DescTypes, Null DEF HasHeredoc, FreeFds
  <2> HIDE DEF fd, k, l
  <2>5. X \in Process
    <3> DEFINE S == [P EXCEPT !.fds[fd] = ReadEnd(k)]
    <3>1. S \in Process
      BY <1>1, <2>4, SetFdType
    <3>2. X = [S EXCEPT !.fd_num[l] = fd]
      BY <1>1 DEF Process
    <3> HIDE DEF S, X
    <3>3. [S EXCEPT !.fd_num[l] = fd] \in Process
      BY <2>4, <3>1, ZenonT(60) DEF Process
    <3> QED BY <3>2, <3>3
  <2>6. /\ X.node = P.node /\ SameFlags(P, X) /\ SameHeld(P, X)
        /\ X.fds = Refers(P, fd, ReadEnd(k)) /\ X.fd_num = [P.fd_num EXCEPT ![l] = fd]
        /\ X.is_exec_in_child_ps = P.is_exec_in_child_ps
    BY <1>1 DEF Process, SameHeld, SameFlags, Refers
  <2> HIDE DEF X
  <2>7. \/ Gone(Q)
        \/ Q.node = X.node /\ Expanded(X, Q) /\ SameFiles(X, Q) /\ SameFlags(X, Q)
    BY <1>1, <2>1, <2>5, <2>6, AfterExpansionDoes
  <2>8. CASE Q.node = X.node /\ Expanded(X, Q) /\ SameFiles(X, Q) /\ SameFlags(X, Q)
    <3>1. Q.node = P.node /\ SameFlags(P, Q)
      BY <2>6, <2>8 DEF SameFlags
    <3>2. Expanded(P, Q)
      BY <2>6, <2>8 DEF Expanded
    <3>3. NewBody(P, Q)
      BY <2>1, <2>2, <2>3, <2>6, <2>8 DEF NewBody, SameFiles, SameHeld, l
    <3> QED BY <1>1, <3>1, <3>2, <3>3
  <2> QED BY <1>1, <2>7, <2>8
<1> QED BY <1>2, <1>3

\* apply_redirects carries out one operator, and goes on to the next, to the
\* command, or back.
ListOf(P) == IF Ast[P.node].kind = "ND_CMD" THEN Ast[P.node].left ELSE P.node
Operator(P) == Ast[ListOf(P)].redirects[P.i]
Opens(P) == Operator(P).file = "ok" /\ FreeFds(P) # {}
Applied(P) == IF Operator(P).op = "<<" THEN redirect_here_doc(P, ListOf(P))
              ELSE redirect_file(P, Operator(P))

\* Where it goes with the record A that the operator made of P.
Redirected(P, A, Q) ==
    \/ /\ P.i # Len(Ast[ListOf(P)].redirects)
       /\ At(Q, "redirect", P.node) /\ Q.i = P.i + 1 /\ SameFiles(A, Q)
       /\ Q.last_status = 0 /\ A.last_status = 0
    \/ /\ Ast[P.node].kind = "ND_REDIRECTS"
       /\ At(Q, "return", P.node) /\ SameFiles(restore_std_fds(A), Q)
    \/ /\ Ast[P.node].kind = "ND_CMD" /\ A.last_status # 0
       /\ Operator(P).op # "<<" => ~ P.is_exec_in_child_ps
       /\ At(Q, "return", P.node) /\ SameFiles(A, Q)
    \/ /\ Ast[P.node].kind = "ND_CMD" /\ A.last_status = 0 /\ SameFiles(A, Q)
       /\ At(Q, IF Ast[P.node].cmd.word = "builtin" THEN "builtin" ELSE "program", P.node)

\* What an operator does to the files.
LEMMA AppliedDoes ==
    ASSUME NEW P \in Process
    PROVE  LET A == Applied(P)
               n == ListOf(P)
               r == Operator(P)
               M == MoveTo(P, P.fd_num[n], STDIN_FILENO)
               std == IF r.op = "<" THEN STDIN_FILENO ELSE STDOUT_FILENO
           IN  /\ A \in Process /\ SameStep(P, A) /\ SameFlags(P, A) /\ SameHeld(P, A)
               /\ r.op # "<<" =>
                    /\ A.fd_num = P.fd_num
                    /\ A.fds = IF Opens(P) THEN Refers(P, std, File) ELSE P.fds
                    /\ A.last_status = IF Opens(P) THEN 0 ELSE EXIT_FAILURE
               /\ r.op = "<<" /\ P.fd_num[n] > 2 =>
                    A.fds = M.fds /\ A.fd_num = [P.fd_num EXCEPT ![n] = -1] /\ A.last_status = 0
               /\ r.op = "<<" /\ ~ (P.fd_num[n] > 2) => A = P
<1> DEFINE A == Applied(P)
           n == ListOf(P)
           r == Operator(P)
           M == MoveTo(P, P.fd_num[n], STDIN_FILENO)
           std == IF r.op = "<" THEN STDIN_FILENO ELSE STDOUT_FILENO
<1>1. A \in Process /\ SameStep(P, A)
  BY redirect_here_docType, redirect_fileType DEF Applied
<1>2. SameFlags(P, P) /\ SameHeld(P, P)
  BY DEF SameFlags, SameHeld
<1>3. CASE r.op # "<<"
  <2> DEFINE B == [P EXCEPT !.fds[std] = File, !.last_status = 0]
             C == [P EXCEPT !.last_status = EXIT_FAILURE]
  <2>1. A = IF Opens(P) THEN B ELSE C
    BY <1>3 DEF Applied, redirect_file, OpenedAs, Opens
  <2> HIDE DEF std, A
  <2>2. /\ SameFlags(P, B) /\ SameHeld(P, B) /\ B.fd_num = P.fd_num
        /\ B.fds = Refers(P, std, File) /\ B.last_status = 0
    BY DEF Process, SameFlags, SameHeld, Refers
  <2>3. SameFlags(P, C) /\ SameHeld(P, C) /\ C.fd_num = P.fd_num /\ C.fds = P.fds
        /\ C.last_status = EXIT_FAILURE
    BY DEF Process, SameFlags, SameHeld
  <2> HIDE DEF B, C
  <2>4. /\ SameFlags(P, A) /\ SameHeld(P, A) /\ A.fd_num = P.fd_num
        /\ A.fds = IF Opens(P) THEN Refers(P, std, File) ELSE P.fds
        /\ A.last_status = IF Opens(P) THEN 0 ELSE EXIT_FAILURE
    BY <2>1, <2>2, <2>3
  <2> QED BY <1>1, <1>3, <2>4 DEF std, A
<1>4. CASE r.op = "<<" /\ P.fd_num[n] > 2
  <2>1. M \in Process /\ OnlyFds(P, M)
    BY Standard, MoveToDoes DEF STDIN_FILENO
  <2>2. A = [M EXCEPT !.last_status = 0, !.fd_num[n] = -1]
    BY <1>4 DEF Applied, redirect_here_doc
  <2> HIDE DEF M, A, n
  <2>3. /\ SameFlags(M, A) /\ SameHeld(M, A) /\ A.fds = M.fds /\ A.last_status = 0
        /\ A.fd_num = [M.fd_num EXCEPT ![n] = -1]
    BY <2>1, <2>2 DEF Process, SameFlags, SameHeld
  <2>4. SameFlags(P, A) /\ SameHeld(P, A) /\ A.fd_num = [P.fd_num EXCEPT ![n] = -1]
    BY <2>1, <2>3 DEF OnlyFds, SameFlags, SameHeld
  <2> QED BY <1>1, <1>4, <2>3, <2>4 DEF M, A, n
<1>5. CASE r.op = "<<" /\ ~ (P.fd_num[n] > 2)
  <2>1. A = P
    BY <1>5 DEF Applied, redirect_here_doc
  <2> QED BY <1>1, <1>2, <1>5, <2>1
<1> QED BY <1>3, <1>4, <1>5

\* restore_std_fds puts back what backup_std_fds kept.
LEMMA RestoreDoes ==
    ASSUME NEW P \in Process
    PROVE  LET R == restore_std_fds(P)
           IN  /\ R \in Process /\ OnlyFds(P, R)
               /\ P.stored_stdout # STDIN_FILENO =>
                    R.fds = [fd \in FD |->
                      CASE fd = STDIN_FILENO /\ IsOpen(P, P.stored_stdin) -> P.fds[P.stored_stdin]
                        [] fd = STDOUT_FILENO /\ IsOpen(P, P.stored_stdout) -> P.fds[P.stored_stdout]
                        [] OTHER -> P.fds[fd]]
<1> DEFINE in == P.stored_stdin
           out == P.stored_stdout
           D == Dup2(P, in, STDIN_FILENO)
           R == Dup2(D, out, STDOUT_FILENO)
<1>1. STDIN_FILENO \in FD /\ STDOUT_FILENO \in FD /\ STDIN_FILENO # STDOUT_FILENO
  BY Standard DEF STDIN_FILENO, STDOUT_FILENO
<1>2. R = restore_std_fds(P)
  BY DEF restore_std_fds
<1>3. /\ D \in Process /\ OnlyFds(P, D)
      /\ D.fds = IF IsOpen(P, in) THEN Refers(P, STDIN_FILENO, P.fds[in]) ELSE P.fds
  BY <1>1, Dup2Does
<1> HIDE DEF in, out, D
<1>4. /\ R \in Process /\ OnlyFds(D, R)
      /\ R.fds = IF IsOpen(D, out) THEN Refers(D, STDOUT_FILENO, D.fds[out]) ELSE D.fds
  BY <1>1, <1>3, Dup2Does
<1> HIDE DEF R
<1>5. OnlyFds(P, R)
  BY <1>3, <1>4 DEF OnlyFds, SameHeld, SameFlags
<1>6. ASSUME out # STDIN_FILENO
      PROVE  R.fds = [fd \in FD |->
                      CASE fd = STDIN_FILENO /\ IsOpen(P, in) -> P.fds[in]
                        [] fd = STDOUT_FILENO /\ IsOpen(P, out) -> P.fds[out]
                        [] OTHER -> P.fds[fd]]
  <2>1. P.fds \in [FD -> Desc] /\ D.fds \in [FD -> Desc]
    BY <1>3 DEF Process
  <2>2. IsOpen(D, out) <=> IsOpen(P, out)
    BY <1>1, <1>3, <1>6, <2>1 DEF IsOpen, Refers
  <2>3. IsOpen(P, out) => D.fds[out] = P.fds[out]
    BY <1>1, <1>3, <1>6, <2>1 DEF IsOpen, Refers
  <2> QED BY <1>1, <1>3, <1>4, <2>1, <2>2, <2>3 DEF Refers
<1> QED BY <1>2, <1>4, <1>5, <1>6 DEF in, out

\* A redirect fails, is followed by the next one, or by the command.
LEMMA apply_redirectsDoes ==
    ASSUME TypeOK, NEW p \in Proc, apply_redirects(p)
    PROVE  LET P == proc[p]
               Q == proc'[p]
           IN  /\ P.pc = "redirect" /\ P.node \in Node
               /\ Ast[P.node].kind \in {"ND_CMD", "ND_REDIRECTS"}
               /\ \/ Gone(Q)
                  \/ Redirected(P, Applied(P), Q) /\ SameFlags(P, Q)
<1> DEFINE P == proc[p]
           Q == proc'[p]
           A == Applied(P)
           r == Operator(P)
           T == AfterRedirects(A)
           R == [A EXCEPT !.i = P.i + 1]
<1>1. /\ proc \in [Proc -> Good] /\ P \in Process /\ P.pc = "redirect" /\ P.node \in Node
      /\ Ast[P.node].kind \in {"ND_CMD", "ND_REDIRECTS"}
  BY ProcType, Here DEF apply_redirects, AtItsNode
<1>2. A \in Process /\ A.node = P.node /\ A.pc = "redirect" /\ SameFlags(P, A)
  BY <1>1, AppliedDoes DEF SameStep
<1>3. \/ Exit(p, EXIT_FAILURE)
      \/ /\ ~ (r.op # "<<" /\ A.last_status # 0 /\ P.is_exec_in_child_ps)
         /\ \/ Set(p, T)
            \/ Set(p, R) /\ A.last_status = 0 /\ P.i # Len(Ast[ListOf(P)].redirects)
  BY DEF apply_redirects, Applied, Operator, ListOf
<1> HIDE DEF A, r
<1>4. CASE Exit(p, EXIT_FAILURE)
  BY <1>1, <1>4, Null, ExitDoes DEF Exit
<1>5. CASE Set(p, R) /\ A.last_status = 0 /\ P.i # Len(Ast[ListOf(P)].redirects)
  <2>1. Q = R
    BY <1>1, <1>5 DEF Set
  <2>2. At(Q, "redirect", P.node) /\ Q.i = P.i + 1 /\ SameFiles(A, Q) /\ Q.last_status = 0
        /\ SameFlags(P, Q)
    BY <1>2, <1>5, <2>1 DEF Process, At, SameFiles, SameHeld, SameFlags
  <2> QED BY <1>1, <1>5, <2>2 DEF Redirected, A
<1>6. CASE ~ (r.op # "<<" /\ A.last_status # 0 /\ P.is_exec_in_child_ps) /\ Set(p, T)
  <2>1. Q = T
    BY <1>1, <1>6 DEF Set
  <2>2. CASE Ast[P.node].kind = "ND_REDIRECTS"
    <3> DEFINE B == restore_std_fds(A)
    <3>1. B \in Process /\ OnlyFds(A, B)
      BY <1>2, RestoreDoes
    <3>2. Q = Return(B, A.last_status)
      BY <1>2, <2>1, <2>2 DEF AfterRedirects
    <3> HIDE DEF B
    <3>3. At(Q, "return", P.node) /\ SameFiles(B, Q) /\ SameFlags(P, Q)
      BY <1>2, <3>1, <3>2 DEF Return, Process, OnlyFds, At, SameFiles, SameHeld, SameFlags
    <3> QED BY <1>1, <2>2, <3>3 DEF Redirected, A, B
  <2>3. CASE Ast[P.node].kind = "ND_CMD" /\ A.last_status # 0
    <3>1. Q = Return(A, IF A.is_exec_in_child_ps THEN 0 ELSE EXIT_FAILURE)
      BY <1>2, <2>1, <2>3 DEF AfterRedirects
    <3>2. At(Q, "return", P.node) /\ SameFiles(A, Q) /\ SameFlags(P, Q)
      BY <1>2, <3>1 DEF Return, Process, At, SameFiles, SameHeld, SameFlags
    <3> QED BY <1>1, <1>6, <2>3, <3>2 DEF Redirected, A, r
  <2>4. CASE Ast[P.node].kind = "ND_CMD" /\ A.last_status = 0
    <3>1. Q = Launch(A)
      BY <1>2, <2>1, <2>4 DEF AfterRedirects
    <3>2. Q.node = P.node /\ SameFiles(A, Q) /\ SameFlags(A, Q)
          /\ Q.pc = IF Ast[P.node].cmd.word = "builtin" THEN "builtin" ELSE "program"
      BY <1>2, <3>1, LaunchDoes
    <3> QED BY <1>1, <1>2, <2>4, <3>2 DEF Redirected, At, SameFlags, A
  <2> QED BY <1>1, <2>2, <2>3, <2>4
<1> QED BY <1>3, <1>4, <1>5, <1>6

\* It depends on the files only.
LEMMA SameDup2 ==
    ASSUME NEW P \in Process, NEW Q \in Process, SameFiles(P, Q), NEW from, NEW to \in FD
    PROVE  /\ Dup2(P, from, to) \in Process /\ Dup2(Q, from, to) \in Process
           /\ SameFiles(Dup2(P, from, to), Dup2(Q, from, to))
<1> DEFINE D == Dup2(P, from, to)
           E == Dup2(Q, from, to)
<1>1. /\ D \in Process /\ OnlyFds(P, D)
      /\ D.fds = IF IsOpen(P, from) THEN Refers(P, to, P.fds[from]) ELSE P.fds
  BY Dup2Does
<1>2. /\ E \in Process /\ OnlyFds(Q, E)
      /\ E.fds = IF IsOpen(Q, from) THEN Refers(Q, to, Q.fds[from]) ELSE Q.fds
  BY Dup2Does
<1> HIDE DEF D, E
<1>3. SameFiles(D, E)
  BY <1>1, <1>2 DEF SameFiles, SameHeld, OnlyFds, IsOpen, Refers
<1> QED BY <1>1, <1>2, <1>3 DEF D, E

\* restore_std_fds gives two processes with the same files the same ones again.
LEMMA SameRestore ==
    ASSUME NEW P \in Process, NEW Q \in Process, SameFiles(P, Q)
    PROVE  SameFiles(restore_std_fds(P), restore_std_fds(Q))
<1> DEFINE D == Dup2(P, P.stored_stdin, STDIN_FILENO)
           E == Dup2(Q, P.stored_stdin, STDIN_FILENO)
<1>1. STDIN_FILENO \in FD /\ STDOUT_FILENO \in FD
  BY Standard DEF STDIN_FILENO, STDOUT_FILENO
<1>2. D \in Process /\ E \in Process /\ SameFiles(D, E)
  BY <1>1, SameDup2
<1>3. Q.stored_stdin = P.stored_stdin /\ Q.stored_stdout = P.stored_stdout
  BY DEF SameFiles, SameHeld
<1> HIDE DEF D, E
<1>4. SameFiles(Dup2(D, P.stored_stdout, STDOUT_FILENO), Dup2(E, P.stored_stdout, STDOUT_FILENO))
  BY <1>1, <1>2, SameDup2
<1> QED BY <1>3, <1>4 DEF restore_std_fds, D, E

\* A builtin ends the process when it is exit or runs in a child.
LEMMA run_builtinDoes ==
    ASSUME TypeOK, NEW p \in Proc, run_builtin(p)
    PROVE  LET P == proc[p]
               Q == proc'[p]
           IN  /\ P.pc = "builtin" /\ P.node \in Node
               /\ \/ Gone(Q)
                  \/ /\ ~ P.is_exec_in_child_ps
                     /\ At(Q, "return", P.node) /\ SameFlags(P, Q)
                     /\ \/ SameFiles(P, Q) /\ Ast[P.node].cmd.status # 0
                        \/ SameFiles(restore_std_fds(P), Q)
<1> DEFINE P == proc[p]
           Q == proc'[p]
           s == BuiltinStatus(P)
           B == [P EXCEPT !.last_status = s]
           R == restore_std_fds(B)
           S == restore_std_fds(P)
<1>1. proc \in [Proc -> Good] /\ P \in Process /\ P.pc = "builtin" /\ P.node \in Node
  BY ProcType, Here DEF run_builtin, AtItsNode
<1>2. s \in 0 .. 255
  BY <1>1, NodeShape DEF BuiltinStatus, Process
<1>3. \/ Exit(p, s)
      \/ /\ ~ P.is_exec_in_child_ps
         /\ (s # 0 /\ Set(p, Return(B, s))) \/ Set(p, Return(R, s))
  BY DEF run_builtin
<1>8. s # 0 => Ast[P.node].cmd.status # 0
  BY DEF BuiltinStatus, Stale
<1> HIDE DEF s
<1>4. CASE Exit(p, s)
  BY <1>1, <1>2, <1>4, ExitDoes DEF Exit
<1>5. B \in Process /\ B.node = P.node /\ SameFlags(P, B) /\ SameFiles(P, B)
  BY <1>1, <1>2 DEF Process, SameFiles, SameHeld, SameFlags
<1> HIDE DEF B
<1>6. CASE ~ P.is_exec_in_child_ps /\ s # 0 /\ Set(p, Return(B, s))
  <2>1. Q = Return(B, s)
    BY <1>1, <1>6 DEF Set
  <2>2. At(Q, "return", P.node) /\ SameFlags(P, Q) /\ SameFiles(P, Q)
    BY <1>5, <2>1 DEF Return, Process, At, SameFiles, SameHeld, SameFlags
  <2> QED BY <1>1, <1>6, <1>8, <2>2
<1>7. CASE ~ P.is_exec_in_child_ps /\ Set(p, Return(R, s))
  <2>1. Q = Return(R, s)
    BY <1>1, <1>7 DEF Set
  <2>2. R \in Process /\ OnlyFds(B, R) /\ S \in Process /\ OnlyFds(P, S)
    BY <1>1, <1>5, RestoreDoes
  <2>3. R.fds = S.fds
    BY <1>1, <1>5, SameRestore DEF SameFiles
  <2> HIDE DEF R, S
  <2>4. At(Q, "return", P.node) /\ SameFlags(P, Q) /\ SameFiles(S, Q)
    BY <1>5, <2>1, <2>2, <2>3
       DEF Return, Process, At, OnlyFds, SameFiles, SameHeld, SameFlags
  <2> QED BY <1>1, <1>7, <2>4 DEF S
<1> QED BY <1>3, <1>4, <1>6, <1>7

\* Programs and writes change nothing of this.
RunsOn(p) == Write(p) \/ Read(p) \/ ReadEof(p) \/ ProgramExit(p)

\* Who writes goes on at its command, or ends.
LEMMA RunsOnDoes ==
    ASSUME TypeOK, NEW p \in Proc, RunsOn(p)
    PROVE  LET P == proc[p]
               Q == proc'[p]
           IN  /\ P.pc \in {"program", "builtin"}
               /\ \/ Gone(Q)
                  \/ At(Q, P.pc, P.node) /\ SameFlags(P, Q) /\ SameFiles(P, Q)
<1> DEFINE P == proc[p]
           Q == proc'[p]
           Same(X) == At(X, P.pc, P.node) /\ SameFlags(P, X) /\ SameFiles(P, X)
<1>1. proc \in [Proc -> Good] /\ P \in Process /\ P.pc \in {"program", "builtin"}
  BY ProcType, Here DEF RunsOn, Write, Read, ReadEof, ProgramExit, Reading
<1>2. \A t : Same([P EXCEPT !.todo = t]) /\ Same([P EXCEPT !.eof = t])
  BY <1>1 DEF Process, At, SameFiles, SameHeld, SameFlags
<1> HIDE DEF Same
<1>3. ASSUME NEW s \in 0 .. 255, Exit(p, s) PROVE Gone(Q)
  BY <1>1, <1>3, ExitDoes DEF Exit
<1>4. ASSUME NEW X, Set(p, X) PROVE Q = X
  BY <1>1, <1>4 DEF Set
<1>5. CASE Write(p)
  <2>1. 128 + SIGPIPE \in 0 .. 255
    BY DEF SIGPIPE
  <2>2. Set(p, [P EXCEPT !.todo = @ - 1]) \/ Exit(p, 128 + SIGPIPE)
    BY <1>5 DEF Write
  <2>3. Same([P EXCEPT !.todo = @ - 1])
    <3>1. [P EXCEPT !.todo = @ - 1] = [P EXCEPT !.todo = P.todo - 1]
      BY <1>1 DEF Process
    <3> QED BY <1>2, <3>1
  <2>4. Gone(Q) \/ Same(Q)
    BY <1>3, <1>4, <2>1, <2>2, <2>3
  <2> QED BY <1>1, <2>4 DEF Same
<1>6. CASE Read(p)
  <2>1. Set(p, [P EXCEPT !.todo = IF Ast[P.node].cmd.copies THEN 1 ELSE 0])
    BY <1>6 DEF Read
  <2>2. Same(Q)
    BY <1>2, <1>4, <2>1
  <2> QED BY <1>1, <2>2 DEF Same
<1>7. CASE ReadEof(p)
  <2>1. Set(p, [P EXCEPT !.eof = TRUE])
    BY <1>7 DEF ReadEof
  <2>2. Same(Q)
    BY <1>2, <1>4, <2>1
  <2> QED BY <1>1, <2>2 DEF Same
<1>8. CASE ProgramExit(p)
  <2>1. Ast[P.node].cmd.status \in 0 .. 255
    BY <1>8, Here, NodeShape DEF ProgramExit, AtItsNode
  <2>2. Gone(Q)
    BY <1>3, <1>8, <2>1 DEF ProgramExit
  <2> QED BY <1>1, <2>2
<1> QED BY <1>5, <1>6, <1>7, <1>8 DEF RunsOn

\* The ways back.
LEMMA ReturnFromRightDoes ==
    ASSUME TypeOK, NEW p \in Proc, ReturnFromRight(p)
    PROVE  LET P == proc[p]
               Q == proc'[p]
           IN  /\ P.pc = "return" /\ P.node \in Node /\ Parent[P.node] # 0
               /\ Ast[Parent[P.node]].right = P.node
               /\ At(Q, "return", Parent[P.node]) /\ SameFlags(P, Q) /\ SameFiles(P, Q)
<1> DEFINE m == Parent[proc[p].node]
<1>1. /\ proc \in [Proc -> Good] /\ proc[p] \in Process /\ proc[p].pc = "return"
      /\ proc[p].node \in Node /\ m # 0 /\ Ast[m].right = proc[p].node
  BY ProcType, Here DEF ReturnFromRight, AtItsNode
<1>2. proc'[p] = [proc[p] EXCEPT !.node = m]
  BY <1>1 DEF ReturnFromRight, Set
<1> HIDE DEF m
<1>3. At(proc'[p], "return", m) /\ SameFlags(proc[p], proc'[p]) /\ SameFiles(proc[p], proc'[p])
  BY <1>1, <1>2 DEF Process, At, SameFiles, SameHeld, SameFlags
<1> QED BY <1>1, <1>3 DEF m

\* After the left side of a pipe comes its right side.
LEMMA ReturnFromPipeLeftDoes ==
    ASSUME TypeOK, NEW p \in Proc, ReturnFromPipeLeft(p)
    PROVE  LET P == proc[p]
               Q == proc'[p]
               m == Parent[P.node]
           IN  /\ P.pc = "return" /\ P.node \in Node /\ m # 0
               /\ Ast[m].left = P.node /\ Ast[m].kind = "ND_PIPE"
               /\ At(Q, "exec", Ast[m].right) /\ SameFlags(P, Q)
               /\ Q.fds = P.fds /\ Q.fd_num = P.fd_num
               /\ Q.in_pipe_fd = P.in_pipe_fd /\ Q.out_pipe_fd = STDOUT_FILENO
               /\ Q.pre_in_pipe_fd = P.pre_in_pipe_fd
               /\ Q.stored_stdin = P.stored_stdin /\ Q.stored_stdout = P.stored_stdout
<1> DEFINE m == Parent[proc[p].node]
           r == Ast[m].right
<1>1. /\ proc \in [Proc -> Good] /\ proc[p] \in Process /\ proc[p].pc = "return"
      /\ proc[p].node \in Node /\ m # 0 /\ Ast[m].left = proc[p].node
      /\ Ast[m].kind = "ND_PIPE"
  BY ProcType, Here DEF ReturnFromPipeLeft, AtItsNode
<1>2. proc'[p] = [proc[p] EXCEPT !.pc = "exec", !.node = r, !.out_pipe_fd = STDOUT_FILENO]
  BY <1>1 DEF ReturnFromPipeLeft, Set
<1> DEFINE P == proc[p]
           Q == proc'[p]
<1> HIDE DEF m, r
<1>3. /\ At(Q, "exec", r) /\ SameFlags(P, Q)
      /\ Q.fds = P.fds /\ Q.fd_num = P.fd_num
      /\ Q.in_pipe_fd = P.in_pipe_fd /\ Q.out_pipe_fd = STDOUT_FILENO
      /\ Q.pre_in_pipe_fd = P.pre_in_pipe_fd
      /\ Q.stored_stdin = P.stored_stdin /\ Q.stored_stdout = P.stored_stdout
  BY <1>1, <1>2 DEF Process, At, SameFlags
<1> QED BY <1>1, <1>3 DEF m, r

\* After anything else its caller goes on, once the children have ended.
LEMMA ReturnAndWaitDoes ==
    ASSUME TypeOK, NEW p \in Proc, ReturnAndWait(p)
    PROVE  LET P == proc[p]
               Q == proc'[p]
               m == Parent[P.node]
           IN  /\ P.pc = "return" /\ P.node \in Node
               /\ m # 0 => Ast[m].left = P.node /\ Ast[m].kind # "ND_PIPE"
               /\ Q.pc \in {"wait", "decide"} /\ Q.node = m
               /\ SameFlags(P, Q) /\ SameFiles(P, Q)
<1> DEFINE P == proc[p]
           Q == proc'[p]
           m == Parent[P.node]
           v == IF P.pids = << >> THEN "decide" ELSE "wait"
           s == IF m # 0 /\ Ast[m].kind = "ND_RND_BRACKET" THEN P.ret ELSE P.last_status
<1>1. /\ proc \in [Proc -> Good] /\ P \in Process /\ P.pc = "return" /\ P.node \in Node
      /\ m # 0 => Ast[m].left = P.node /\ Ast[m].kind # "ND_PIPE"
  BY ProcType, Here DEF ReturnAndWait, AtItsNode
<1>2. Q = [P EXCEPT !.node = m, !.i = 1, !.c_status = 0, !.pc = v, !.last_status = s]
  BY <1>1 DEF ReturnAndWait, Set
<1>3. v \in {"wait", "decide"}
  OBVIOUS
<1> HIDE DEF m, v, s
<1>4. Q.pc = v /\ Q.node = m /\ SameFlags(P, Q) /\ SameFiles(P, Q)
  BY <1>1, <1>2 DEF Process, SameFiles, SameHeld, SameFlags
<1> QED BY <1>1, <1>3, <1>4 DEF m

\* Waiting.
LEMMA AfterWaitpidDoes ==
    ASSUME NEW P \in Process, P.pc = "wait", NEW s
    PROVE  LET Q == AfterWaitpid(P, s)
           IN  /\ Q.pc \in {"wait", "decide"} /\ Q.node = P.node
               /\ SameFlags(P, Q) /\ SameFiles(P, Q)
<1> DEFINE Q == [P EXCEPT !.i = @ + 1, !.c_status = s]
           R == [P EXCEPT !.pc = "decide", !.c_status = s, !.last_status = s]
<1>1. Q.pc = "wait" /\ Q.node = P.node /\ SameFlags(P, Q) /\ SameFiles(P, Q)
  BY DEF Process, SameFiles, SameHeld, SameFlags
<1>2. R.pc = "decide" /\ R.node = P.node /\ SameFlags(P, R) /\ SameFiles(P, R)
  BY DEF Process, SameFiles, SameHeld, SameFlags
<1>3. AfterWaitpid(P, s) = Q \/ AfterWaitpid(P, s) = R
  BY DEF AfterWaitpid
<1> HIDE DEF Q, R
<1> QED BY <1>1, <1>2, <1>3

\* wait_children_status goes on to the next pid, or to the caller.
LEMMA WaitDoes ==
    ASSUME TypeOK, NEW p \in Proc, WaitChild(p) \/ WaitNoChild(p)
    PROVE  LET P == proc[p]
               Q == proc'[p]
           IN  /\ P.pc = "wait"
               /\ Q.pc \in {"wait", "decide"} /\ Q.node = P.node
               /\ SameFlags(P, Q) /\ SameFiles(P, Q)
<1>1. proc \in [Proc -> Good] /\ proc[p] \in Process /\ proc[p].pc = "wait"
  BY ProcType, Here DEF WaitChild, WaitNoChild
<1>2. \E s : proc'[p] = AfterWaitpid(proc[p], s)
  <2>1. CASE WaitNoChild(p)
    BY <1>1, <2>1 DEF WaitNoChild, Set
  <2>2. CASE WaitChild(p)
    <3>1. PICK q \in Awaited(p) :
            proc' = [proc EXCEPT ![q] = NoProcess,
                                 ![p] = AfterWaitpid(proc[p], proc[q].c_status)]
      BY <2>2 DEF WaitChild
    <3> DEFINE A == AfterWaitpid(proc[p], proc[q].c_status)
    <3>2. proc'[p] = A
      <4> HIDE DEF A
      <4> QED BY <1>1, <3>1 DEF A
    <3> QED BY <3>2
  <2> QED BY <2>1, <2>2
<1> QED BY <1>1, <1>2, AfterWaitpidDoes

\* The operators of the tree, with what is before them done.
LEMMA ClearDoes ==
    ASSUME NEW P \in Process
    PROVE  LET C == clear_pid_status(P)
           IN  C \in Process /\ C.node = P.node /\ SameFlags(P, C) /\ SameFiles(P, C)
<1> DEFINE C == clear_pid_status(P)
<1>1. C.node = P.node /\ SameFlags(P, C) /\ SameFiles(P, C)
  BY DEF clear_pid_status, Process, SameFiles, SameHeld, SameFlags
<1> QED BY <1>1, ClearType

\* && and || go on with their right side or return.
LEMMA DecideDoes ==
    ASSUME TypeOK, NEW p \in Proc, exec_and_node(p) \/ exec_or_node(p)
    PROVE  LET P == proc[p]
               Q == proc'[p]
           IN  /\ P.pc = "decide" /\ P.node \in Node
               /\ Ast[P.node].kind \in {"ND_AND_OP", "ND_OR_OP"}
               /\ SameFiles(P, Q)
               /\ \/ At(Q, "return", P.node) /\ SameFlags(P, Q)
                  \/ /\ At(Q, "exec", Ast[P.node].right)
                     /\ Q.is_exec_in_child_ps = Flagged(P)
                     /\ Q.is_in_round_bracket = P.is_in_round_bracket
                     /\ Q.head_node = P.head_node
<1> DEFINE P == proc[p]
           Q == proc'[p]
           C == clear_pid_status(P)
           s == IF C.last_status # 0 THEN C.last_status ELSE EXIT_FAILURE
           r == Ast[P.node].right
           b == P.is_exec_in_child_ps /\ P.is_in_round_bracket
           R == [C EXCEPT !.pc = "exec", !.node = r, !.is_exec_in_child_ps = b]
<1>1. /\ proc \in [Proc -> Good] /\ P \in Process /\ P.node \in Node /\ P.pc = "decide"
      /\ Ast[P.node].kind \in {"ND_AND_OP", "ND_OR_OP"}
  BY ProcType, Here DEF exec_and_node, exec_or_node, Deciding, Process, NodeOrNull
<1>2. C \in Process /\ C.node = P.node /\ SameFlags(P, C) /\ SameFiles(P, C)
  BY <1>1, ClearDoes
<1>3. \/ Set(p, [C EXCEPT !.pc = "exec", !.node = Ast[C.node].right,
                          !.is_exec_in_child_ps = @ /\ C.is_in_round_bracket])
      \/ Set(p, Return(C, s)) \/ Set(p, Return(C, 0))
  BY DEF exec_and_node, exec_or_node
<1> HIDE DEF C, s
<1>4. [C EXCEPT !.pc = "exec", !.node = Ast[C.node].right,
                !.is_exec_in_child_ps = @ /\ C.is_in_round_bracket] = R
  BY <1>2 DEF SameFlags, Process
<1>5. Q = R \/ Q = Return(C, s) \/ Q = Return(C, 0)
  <2> HIDE DEF R
  <2> QED BY <1>1, <1>3, <1>4 DEF Set
<1>6. CASE Q = R
  <2>1. /\ At(Q, "exec", r) /\ Q.is_exec_in_child_ps = b
        /\ Q.is_in_round_bracket = C.is_in_round_bracket /\ Q.head_node = C.head_node
        /\ SameFiles(C, Q)
    <3> HIDE DEF r, b
    <3> QED BY <1>2, <1>6 DEF Process, At, SameFiles, SameHeld
  <2> QED BY <1>1, <1>2, <2>1 DEF SameFlags, SameFiles, SameHeld, Flagged
<1>7. ASSUME NEW v, Q = Return(C, v)
      PROVE  At(Q, "return", P.node) /\ SameFlags(P, Q) /\ SameFiles(P, Q)
  BY <1>2, <1>7 DEF Return, Process, At, SameFiles, SameHeld, SameFlags
<1> QED BY <1>1, <1>5, <1>6, <1>7

\* The end of brackets returns with the status of what is inside.
LEMMA EndOfBracketsDoes ==
    ASSUME TypeOK, NEW p \in Proc, EndOfBrackets(p)
    PROVE  LET P == proc[p]
               Q == proc'[p]
           IN  /\ P.pc = "decide" /\ P.node \in Node /\ Ast[P.node].kind = "ND_RND_BRACKET"
               /\ At(Q, "return", P.node) /\ SameFiles(P, Q)
               /\ Q.head_node = P.head_node
               /\ ~ Q.is_exec_in_child_ps /\ ~ Q.is_in_round_bracket
<1> DEFINE P == proc[p]
           Q == proc'[p]
           C == clear_pid_status(P)
<1>1. /\ proc \in [Proc -> Good] /\ P \in Process /\ P.node \in Node /\ P.pc = "decide"
      /\ Ast[P.node].kind = "ND_RND_BRACKET"
  BY ProcType, Here DEF EndOfBrackets, Deciding, Process, NodeOrNull
<1>2. C \in Process /\ C.node = P.node /\ SameFlags(P, C) /\ SameFiles(P, C)
  BY <1>1, ClearDoes
<1>3. Q = Return([C EXCEPT !.is_in_round_bracket = FALSE, !.is_exec_in_child_ps = FALSE],
                 C.last_status)
  BY <1>1 DEF EndOfBrackets, Set
<1> HIDE DEF C
<1>4. At(Q, "return", C.node) /\ SameFiles(C, Q) /\ Q.head_node = C.head_node
      /\ ~ Q.is_exec_in_child_ps /\ ~ Q.is_in_round_bracket
  BY <1>2, <1>3 DEF Return, Process, At, SameFiles, SameHeld
<1> QED BY <1>1, <1>2, <1>4 DEF SameFlags, SameFiles, SameHeld

\* The line is over: the prompt comes back, with nothing of the line left.
LEMMA EndOfLineDoes ==
    ASSUME TypeOK, NEW p \in Proc, EndOfLine(p)
    PROVE  LET P == proc[p]
               Q == proc'[p]
               C == close_stored_fds(P)
           IN  /\ P.pc = "decide" /\ P.node = 0
               /\ Q.pc = "prompt" /\ Q.fds = C.fds /\ Q.fd_num = NoHeredocs
               /\ SameHeld(C, Q)
<1> DEFINE P == proc[p]
           Q == proc'[p]
           C == close_stored_fds(P)
<1>1. proc \in [Proc -> Good] /\ P \in Process /\ P.pc = "decide" /\ P.node = 0
  BY ProcType, Here DEF EndOfLine
<1>2. C \in Process
  BY <1>1, CloseStoredType
<1>3. Q = [C EXCEPT !.pc = "prompt", !.head_node = 0, !.fd_num = NoHeredocs,
                    !.ret = 0, !.c_status = 0, !.i = 0]
  BY <1>1 DEF EndOfLine, Set
<1> HIDE DEF C
<1>4. Q.pc = "prompt" /\ Q.fds = C.fds /\ Q.fd_num = NoHeredocs /\ SameHeld(C, Q)
  BY <1>2, <1>3 DEF Process, SameHeld
<1> QED BY <1>1, <1>4 DEF C

\* The end of input ends the process.
LEMMA EndOfInputDoes ==
    ASSUME TypeOK, NEW p \in Proc, EndOfInput(p)
    PROVE  Gone(proc'[p])
<1>1. proc[p].last_status \in 0 .. 255 /\ proc \in [Proc -> Good]
  BY Here, ProcType DEF Process
<1> QED BY <1>1, ExitDoes DEF EndOfInput, Exit

(***************************************************************************)
(* What it does to the others.                                             *)
(***************************************************************************)
\* All but the parent is the same.
Alike(P, Q) == /\ At(Q, P.pc, P.node) /\ Q.i = P.i /\ Q.last_status = P.last_status
               /\ Q.pids = P.pids
               /\ SameFlags(P, Q) /\ SameFiles(P, Q)
Aside(P, Q) == (Gone(Q) /\ (Q.pc = "zombie" => P.pc = "zombie")) \/ Alike(P, Q)

\* Q is a child that P forked.
ForkOf(P, Q) == /\ P.pc = "exec" /\ P.node \in Node /\ Ast[P.node].kind = "ND_CMD"
                /\ ~ RunsHere(P)
                /\ At(Q, "child", P.node) /\ SameFlags(P, Q) /\ SameFiles(P, Q)
NewChild(r) == /\ r # Shell /\ proc[r].pc = "free"
               /\ \E p \in Proc \ {r} : exec_cmd_forked(p) /\ ForkOf(proc[p], proc'[r])

Advances(p) == Step(p) \/ ReadLine(p) \/ EndOfInput(p)

\* Who is left alone, or loses its parent, or is buried, goes on as it was.
LEMMA ExitAside ==
    ASSUME NEW f \in [Proc -> Good], NEW p \in Proc, NEW s, NEW r \in Proc \ {p}
    PROVE  Aside(f[r], ExitIn(f, p, s)[r])
<1> DEFINE L == [f[r] EXCEPT !.parent = 0]
           g == ExitIn(f, p, s)
<1>1. f[r] \in Process
  BY DEF Good
<1>2. Alike(f[r], L) /\ Alike(f[r], f[r])
  BY <1>1 DEF Process, Alike, At, SameFlags, SameFiles, SameHeld
<1>3. NoProcess.pc = "free"
  BY DEF NoProcess
<1>4. g[r] = L \/ g[r] = NoProcess \/ g[r] = f[r]
  BY DEF ExitIn
<1> HIDE DEF L, g
<1> QED BY <1>2, <1>3, <1>4 DEF Aside, Gone, g

\* Who does not act stays as it is, loses its parent, is reaped or is forked.
LEMMA Bystander ==
    ASSUME TypeOK, NEW p \in Proc, Advances(p), NEW r \in Proc \ {p}
    PROVE  Aside(proc[r], proc'[r]) \/ NewChild(r)
<1> DEFINE R == proc[r]
           S == proc'[r]
<1>1. proc \in [Proc -> Good] /\ R \in Process
  BY ProcType, Here
<1>2. Alike(R, R)
  BY DEF Alike, At, SameFlags, SameFiles, SameHeld
<1>3. ASSUME NEW Q, Set(p, Q) PROVE Aside(R, S)
  BY <1>1, <1>2, <1>3 DEF Set, Aside
<1>4. ASSUME NEW s, Exit(p, s) PROVE Aside(R, S)
  BY <1>1, <1>4, ExitAside DEF Exit
<1>5. CASE Plain(p)
  BY <1>3, <1>4, <1>5, PlainMoves DEF Moves
<1>6. CASE Clearing(p)
  BY <1>3, <1>4, <1>6, ClearingClears DEF Clears
<1>7. CASE ReturnAndWait(p)
  BY <1>3, <1>7, ReturnAndWaitShape
<1>8. CASE WaitNoChild(p)
  BY <1>3, <1>8 DEF WaitNoChild
<1>9. CASE WaitChild(p)
  <2>1. PICK q \in Awaited(p) :
          proc' = [proc EXCEPT ![q] = NoProcess,
                               ![p] = AfterWaitpid(proc[p], proc[q].c_status)]
    BY <1>9 DEF WaitChild
  <2>2. S = NoProcess \/ S = R
    BY <1>1, <2>1
  <2>3. NoProcess.pc = "free"
    BY DEF NoProcess
  <2> QED BY <1>2, <2>2, <2>3 DEF Aside, Gone
<1>10. CASE exec_cmd_forked(p)
  <2>1. CASE Exit(p, EXIT_FAILURE)
    BY <1>4, <2>1
  <2>2. ASSUME FreeSlots # {}
        PROVE  /\ AfterFork(p) \in [Proc -> Good]
               /\ r = NewProcess => /\ r # Shell /\ proc[r].pc = "free"
                                    /\ ForkOf(proc[p], AfterFork(p)[r])
               /\ r # NewProcess => AfterFork(p)[r] = R
    <3>1. /\ AfterFork(p) \in [Proc -> Good] /\ NewProcess # Shell
          /\ proc[NewProcess].pc = "free" /\ NewProcess \in Proc
      BY <1>10, <2>2, ForkType, NewProcessType
    <3>2. r # NewProcess => AfterFork(p)[r] = R
      BY <1>1 DEF AfterFork
    <3>3. r = NewProcess => AfterFork(p)[r] = ForkedChild(p)
      BY <1>1 DEF AfterFork
    <3>4. /\ proc[p].pc = "exec" /\ proc[p].node \in Node /\ Ast[proc[p].node].kind = "ND_CMD"
          /\ ~ RunsHere(proc[p]) /\ proc[p] \in Process
      BY <1>10, Here DEF exec_cmd_forked, AtNode, AtItsNode
    <3>5. ForkOf(proc[p], ForkedChild(p))
      BY <3>4 DEF ForkOf, ForkedChild, Process, At, SameFlags, SameFiles, SameHeld
    <3> QED BY <3>1, <3>2, <3>3, <3>5
  <2>3. CASE FreeSlots # {} /\ proc' = ExitIn(AfterFork(p), p, EXIT_FAILURE)
    <3>1. Aside(AfterFork(p)[r], S)
      BY <2>2, <2>3, ExitAside
    <3>2. CASE r # NewProcess
      BY <2>2, <2>3, <3>1, <3>2
    <3>3. CASE r = NewProcess /\ ~ Gone(S)
      <4>1. ForkOf(proc[p], AfterFork(p)[r]) /\ Alike(AfterFork(p)[r], S)
        BY <2>2, <2>3, <3>1, <3>3 DEF Aside
      <4>2. ForkOf(proc[p], S)
        BY <4>1 DEF ForkOf, Alike, At, SameFlags, SameFiles, SameHeld
      <4> QED BY <1>10, <2>2, <2>3, <3>3, <4>2 DEF NewChild
    <3>4. CASE r = NewProcess /\ Gone(S)
      <4>1. AfterFork(p)[r].pc = "child"
        BY <2>2, <2>3, <3>4 DEF ForkOf, At
      <4> QED BY <3>1, <3>4, <4>1 DEF Aside, Alike, At, Gone
    <3> QED BY <3>2, <3>3, <3>4
  <2>4. CASE FreeSlots # {} /\ proc' = [AfterFork(p) EXCEPT ![p] = ParentDone(p)]
    <3>1. S = AfterFork(p)[r]
      BY <2>2, <2>4
    <3>2. CASE r # NewProcess
      BY <1>2, <2>2, <2>4, <3>1, <3>2 DEF Aside
    <3>3. CASE r = NewProcess
      BY <1>10, <2>2, <2>4, <3>1, <3>3 DEF NewChild
    <3> QED BY <3>2, <3>3
  <2> QED BY <1>10, <2>1, <2>3, <2>4, ForkCases
<1> QED BY <1>5, <1>6, <1>7, <1>8, <1>9, <1>10 DEF Advances, Step, Plain, Clearing

\* What happens to a process in a step of the system.
LEMMA Happens ==
    ASSUME TypeOK, [Next]_vars, NEW r \in Proc
    PROVE  Aside(proc[r], proc'[r]) \/ NewChild(r) \/ Advances(r)
<1>1. CASE UNCHANGED vars
  BY <1>1 DEF vars, Aside, Alike, At, SameFlags, SameFiles, SameHeld
<1>2. ASSUME NEW p \in Proc, Advances(p)
      PROVE  Aside(proc[r], proc'[r]) \/ NewChild(r) \/ Advances(r)
  BY <1>2, Bystander
<1> QED BY <1>1, <1>2 DEF Next, Advances, Ended

(***************************************************************************)
(* The shell itself runs nothing but builtins, typed as such.              *)
(***************************************************************************)
ShellRuns(P) ==
    /\ P.pc \notin {"child", "program"}
    /\ P.pc = "heredoc" => Parent[P.node] = 0
    /\ P.pc \in {"cmd", "builtin"} => Ast[P.node].cmd.typed
    /\ P.pc = "redirect" /\ Ast[P.node].kind = "ND_CMD" => Ast[P.node].cmd.typed

\* What is typed as a builtin is one.
LEMMA TypedIsBuiltin ==
    ASSUME NEW n \in Node, Ast[n].cmd.typed
    PROVE  Ast[n].cmd.word = "builtin"
<1>1. WellFormed(n)
  BY AstAssumption
<1> QED BY <1>1 DEF WellFormed

\* ShellRuns is an invariant.
LEMMA ShellRunsKept ==
    ASSUME TypeOK, [Next]_vars, ShellRuns(proc[Shell])
    PROVE  ShellRuns(proc'[Shell])
<1> DEFINE P == proc[Shell]
           Q == proc'[Shell]
<1>1. Shell \in Proc
  BY BoundsAssumption DEF Shell, Proc
<1>2. CASE Aside(P, Q)
  BY <1>2 DEF Aside, Gone, Alike, At, ShellRuns
<1>3. CASE NewChild(Shell)
  BY <1>3 DEF NewChild
<1>4. CASE Gone(Q)
  BY <1>4 DEF Gone, ShellRuns
<1>5. CASE ReadLine(Shell)
  <2>1. \A root \in Lines \ {0} : Parent[root] = 0
    BY BoundsAssumption
  <2> QED BY <1>1, <1>4, <1>5, <2>1, ReadLineDoes DEF ShellRuns
<1>6. CASE Heredoc(Shell)
  BY <1>1, <1>4, <1>6, HeredocDoes DEF ShellRuns, At, Heredoc
<1>7. CASE HeredocsRead(Shell) \/ exec_pipe(Shell) \/ exec_logical(Shell)
           \/ exec_round_brackets(Shell)
  BY <1>1, <1>4, <1>7, HeredocsReadDoes, exec_pipeDoes, exec_logicalDoes,
     exec_round_bracketsDoes DEF ShellRuns, At
<1>8. CASE exec_redirect(Shell) \/ exec_cmd_here(Shell) \/ exec_cmd_forked(Shell)
  BY <1>1, <1>4, <1>8, exec_redirectDoes, exec_cmd_hereDoes, exec_cmd_forkedDoes
     DEF ShellRuns, At, RunsHere
<1>9. CASE ChildSetup(Shell)
  BY <1>1, <1>9 DEF ChildSetup, ShellRuns
<1>10. CASE exec_cmd(Shell) \/ exec_cmd_with_heredoc(Shell)
  BY <1>1, <1>4, <1>10, exec_cmdDoes, TypedIsBuiltin DEF ShellRuns, Expanded
<1>11. CASE apply_redirects(Shell)
  BY <1>1, <1>4, <1>11, apply_redirectsDoes, TypedIsBuiltin DEF ShellRuns, Redirected, At
<1>12. CASE run_builtin(Shell) \/ RunsOn(Shell)
  BY <1>1, <1>4, <1>12, run_builtinDoes, RunsOnDoes DEF ShellRuns, At
<1>13. CASE ReturnFromRight(Shell) \/ ReturnFromPipeLeft(Shell) \/ ReturnAndWait(Shell)
            \/ WaitChild(Shell) \/ WaitNoChild(Shell)
  BY <1>1, <1>13, ReturnFromRightDoes, ReturnFromPipeLeftDoes, ReturnAndWaitDoes, WaitDoes
     DEF ShellRuns, At
<1>14. CASE exec_and_node(Shell) \/ exec_or_node(Shell) \/ EndOfBrackets(Shell)
            \/ EndOfLine(Shell)
  BY <1>1, <1>14, DecideDoes, EndOfBracketsDoes, EndOfLineDoes DEF ShellRuns, At
<1>15. CASE EndOfInput(Shell)
  BY <1>1, <1>4, <1>15, EndOfInputDoes
<1> QED BY <1>1, <1>2, <1>3, <1>5, <1>6, <1>7, <1>8, <1>9, <1>10, <1>11, <1>12, <1>13, <1>14,
           <1>15, Happens DEF Advances, Step, RunsOn

(***************************************************************************)
(* Subshells.                                                              *)
(***************************************************************************)
Bracket  == {n \in Node : Ast[n].kind = "ND_RND_BRACKET"}
PipeLeft == {n \in Node : \E m \in Node : Ast[m].kind = "ND_PIPE" /\ Ast[m].left = n}

\* No brackets in brackets, and none that a pipe leads away from.
Alone == \A b \in Bracket : b \notin PipeLeft /\ ~ InBrackets[b]

\* What a node's children are in.
LEMMA ChildIsIn ==
    ASSUME NEW n \in Node, NEW m \in Node, Parent[n] = m
    PROVE  /\ InBrackets[n] <=> m \in Bracket \/ InBrackets[m]
           /\ InSubshell[n] <=> Ast[m].kind \in {"ND_PIPE", "ND_RND_BRACKET"} \/ InSubshell[m]
<1>1. m # 0
  BY Nodes
<1>2. InBrackets[n] <=> Below(InBrackets, n, {"ND_RND_BRACKET"})
  BY InBracketsDef
<1>3. InSubshell[n] <=> Below(InSubshell, n, {"ND_PIPE", "ND_RND_BRACKET"})
  BY InSubshellDef
<1> QED BY <1>1, <1>2, <1>3 DEF Below, Bracket

\* A root is in nothing.
LEMMA RootIsIn ==
    ASSUME NEW n \in Node, Parent[n] = 0
    PROVE  ~ InBrackets[n] /\ ~ InSubshell[n] /\ n \notin PipeLeft
<1>1. InBrackets[n] <=> Below(InBrackets, n, {"ND_RND_BRACKET"})
  BY InBracketsDef
<1>2. InSubshell[n] <=> Below(InSubshell, n, {"ND_PIPE", "ND_RND_BRACKET"})
  BY InSubshellDef
<1>3. ASSUME n \in PipeLeft PROVE FALSE
  <2>1. PICK m \in Node : Ast[m].left = n
    BY <1>3 DEF PipeLeft
  <2>2. Parent[n] = m
    BY <2>1, ChildParent DEF IsChildOf
  <2> QED BY <2>2, Nodes
<1> QED BY <1>1, <1>2, <1>3 DEF Below

\* What a pipe leads away from is in a subshell, and is no operator.
LEMMA PipeLeftIs ==
    ASSUME NEW n \in PipeLeft
    PROVE  /\ InSubshell[n] /\ Ast[n].right = 0
           /\ Ast[n].kind \notin {"ND_PIPE", "ND_AND_OP", "ND_OR_OP"}
<1>1. PICK m \in Node : Ast[m].kind = "ND_PIPE" /\ Ast[m].left = n
  BY DEF PipeLeft
<1>2. n \in Node /\ Parent[n] = m
  BY <1>1, ChildParent DEF IsChildOf, PipeLeft
<1>3. InSubshell[n]
  BY <1>1, <1>2, ChildIsIn
<1>4. WellFormed(m) /\ WellFormed(n)
  BY <1>2, AstAssumption
<1>5. Ast[n].kind \notin {"ND_PIPE", "ND_AND_OP", "ND_OR_OP"}
  BY <1>1, <1>4 DEF WellFormed
<1>6. Ast[n].kind \in Kind
  BY <1>2, NodeKind
<1>7. Ast[n].right = 0
  BY <1>4, <1>5, <1>6 DEF WellFormed, Kind
<1> QED BY <1>3, <1>5, <1>7

\* A pipeline holds no && or || outside brackets.
LEMMA OperatorInBrackets ==
    ASSUME NEW n \in Node, Ast[n].kind \in {"ND_AND_OP", "ND_OR_OP"}, InSubshell[n]
    PROVE  InBrackets[n]
<1> DEFINE S == {m \in Node : /\ Ast[m].kind \in {"ND_AND_OP", "ND_OR_OP"}
                              /\ InSubshell[m] /\ ~ InBrackets[m]}
<1>1. ASSUME S # {} PROVE FALSE
  <2>1. S \subseteq Nat /\ \A m \in S : m <= Len(Ast)
    BY Nodes
  <2>2. PICK m \in S : \A l \in S : l <= m
    <3>1. Len(Ast) \in Nat
      BY Nodes
    <3> HIDE DEF S
    <3> QED BY <1>1, <2>1, <3>1, NatMax
  <2>3. Parent[m] # 0
    BY <2>2, RootIsIn
  <2> DEFINE p == Parent[m]
  <2>4. p \in Node /\ IsChildOf(m, p) /\ m < p
    BY <2>2, <2>3, ParentChild
  <2>5. p \notin Bracket /\ ~ InBrackets[p]
        /\ (Ast[p].kind = "ND_PIPE" \/ InSubshell[p])
    <3> HIDE DEF p
    <3>1. Parent[m] = p
      BY DEF p
    <3> QED BY <2>2, <2>4, <3>1, ChildIsIn DEF Bracket
  <2>6. Ast[p].kind \in {"ND_AND_OP", "ND_OR_OP"}
    <3>1. WellFormed(p) /\ Ast[p].kind \in Kind
      BY <2>4, AstAssumption, NodeKind
    <3>2. m \in Node /\ m # 0 /\ Ast[m].kind \in {"ND_AND_OP", "ND_OR_OP"}
      BY <2>2, Nodes
    <3>3. Ast[p].kind # "ND_RND_BRACKET"
      BY <2>4, <2>5 DEF Bracket
    <3> HIDE DEF p
    <3>4. Ast[p].kind # "ND_PIPE"
      BY <2>4, <3>1, <3>2 DEF WellFormed, IsChildOf
    <3>5. Ast[p].kind # "ND_REDIRECTS"
      BY <2>4, <3>1, <3>2 DEF WellFormed, IsChildOf
    <3>6. Ast[p].kind # "ND_CMD"
      BY <2>4, <3>1, <3>2 DEF WellFormed, IsChildOf, RedirectNode
    <3> QED BY <3>1, <3>3, <3>4, <3>5, <3>6 DEF Kind
  <2>7. p \in S
    BY <2>4, <2>5, <2>6
  <2>8. p <= m
    BY <2>2, <2>7
  <2> QED BY <2>2, <2>4, <2>8, Nodes
<1> QED BY <1>1

\* The flags are up wherever the shell is inside brackets or in a pipeline, so
\* it runs no command of a subshell itself.
Flags(P) ==
    /\ P.pc \in {"exec", "redirect", "cmd", "builtin", "return"} /\ InBrackets[P.node]
         => Flagged(P)
    /\ P.pc \in {"wait", "decide"} /\ P.node # 0
         /\ (InBrackets[P.node] \/ P.node \in Bracket) => Flagged(P)
    /\ P.pc \in {"exec", "redirect"} /\ InSubshell[P.node] => P.is_exec_in_child_ps
    /\ P.pc = "return" /\ P.node \in PipeLeft => P.is_exec_in_child_ps
    /\ P.pc \in {"cmd", "builtin"} => ~ InSubshell[P.node]
    /\ P.pc = "redirect" /\ Ast[P.node].kind = "ND_CMD" => ~ InSubshell[P.node]

\* Where the shell alone runs the shell's code, Flags is an invariant.
LEMMA FlagsKept ==
    ASSUME Alone, TypeOK, [Next]_vars, ShellRuns(proc[Shell]), Flags(proc[Shell])
    PROVE  Flags(proc'[Shell])
<1> DEFINE P == proc[Shell]
           Q == proc'[Shell]
           n == P.node
<1>1. Shell \in Proc
  BY BoundsAssumption DEF Shell, Proc
<1>2. CASE Aside(P, Q)
  BY <1>2 DEF Aside, Gone, Alike, At, SameFlags, Flags, Flagged
<1>3. CASE NewChild(Shell)
  BY <1>3 DEF NewChild
<1>4. CASE Gone(Q)
  BY <1>4 DEF Gone, Flags
<1>5. CASE ReadLine(Shell)
  BY <1>1, <1>4, <1>5, ReadLineDoes DEF Flags
<1>6. CASE Heredoc(Shell)
  BY <1>1, <1>4, <1>6, HeredocDoes DEF Flags, At
<1>7. CASE HeredocsRead(Shell)
  <2>1. At(Q, "exec", n) /\ P.pc = "heredoc"
    BY <1>1, <1>7, HeredocsReadDoes
  <2>2. n \in Node /\ Parent[n] = 0
    BY <1>1, <2>1, Here DEF ShellRuns, AtItsNode
  <2>3. ~ InBrackets[n] /\ ~ InSubshell[n]
    BY <2>2, RootIsIn
  <2> QED BY <2>1, <2>3 DEF Flags, At
<1>8. CASE exec_pipe(Shell) \/ exec_logical(Shell) \/ exec_round_brackets(Shell)
  <2>1. /\ P.pc = "exec" /\ n \in Node
        /\ Ast[n].kind \in {"ND_PIPE", "ND_AND_OP", "ND_OR_OP", "ND_RND_BRACKET"}
    BY <1>1, <1>8, exec_pipeDoes, exec_logicalDoes, exec_round_bracketsDoes
  <2>2. \/ Gone(Q)
        \/ /\ At(Q, "exec", Ast[n].left)
           /\ Ast[n].kind = "ND_PIPE" => /\ Q.is_exec_in_child_ps
                                         /\ Q.is_in_round_bracket = P.is_in_round_bracket
           /\ Ast[n].kind \in {"ND_AND_OP", "ND_OR_OP"} => SameFlags(P, Q)
           /\ Ast[n].kind = "ND_RND_BRACKET" => Flagged(Q)
    BY <1>1, <1>8, exec_pipeDoes, exec_logicalDoes, exec_round_bracketsDoes DEF Flagged
  <2>3. Ast[n].left \in Node /\ Parent[Ast[n].left] = n
    BY <2>1, NodeShape, LeftChild, Nodes
  <2>4. /\ InBrackets[Ast[n].left] <=> n \in Bracket \/ InBrackets[n]
        /\ InSubshell[Ast[n].left]
             <=> Ast[n].kind \in {"ND_PIPE", "ND_RND_BRACKET"} \/ InSubshell[n]
    BY <2>1, <2>3, ChildIsIn
  <2> QED BY <1>4, <2>1, <2>2, <2>4 DEF Flags, Flagged, At, SameFlags, Bracket
<1>9. CASE exec_redirect(Shell) \/ exec_cmd_here(Shell)
  BY <1>1, <1>9, exec_redirectDoes, exec_cmd_hereDoes
     DEF Flags, Flagged, At, SameFlags, RunsHere
<1>10. CASE exec_cmd_forked(Shell)
  BY <1>1, <1>4, <1>10, exec_cmd_forkedDoes, PipeLeftIs DEF Flags, Flagged, At, SameFlags
<1>11. CASE exec_cmd(Shell) \/ exec_cmd_with_heredoc(Shell)
  BY <1>1, <1>4, <1>11, exec_cmdDoes, PipeLeftIs DEF Flags, Flagged, Expanded, SameFlags
<1>12. CASE apply_redirects(Shell)
  BY <1>1, <1>4, <1>12, apply_redirectsDoes, PipeLeftIs
     DEF Flags, Flagged, Redirected, SameFlags, At
<1>13. CASE run_builtin(Shell) \/ RunsOn(Shell)
  BY <1>1, <1>4, <1>13, run_builtinDoes, RunsOnDoes, PipeLeftIs
     DEF Flags, Flagged, SameFlags, At
<1>14. CASE ReturnFromRight(Shell)
  <2>1. /\ P.pc = "return" /\ n \in Node /\ Parent[n] # 0 /\ Ast[Parent[n]].right = n
        /\ At(Q, "return", Parent[n]) /\ SameFlags(P, Q)
    BY <1>1, <1>14, ReturnFromRightDoes
  <2>2. Parent[n] \in Node /\ n # 0
    BY <2>1, ParentChild, Nodes
  <2>3. InBrackets[Parent[n]] => InBrackets[n]
    BY <2>1, <2>2, ChildIsIn
  <2>4. Parent[n] \notin PipeLeft
    BY <2>1, <2>2, PipeLeftIs
  <2> QED BY <2>1, <2>3, <2>4 DEF Flags, Flagged, SameFlags, At
<1>15. CASE ReturnFromPipeLeft(Shell)
  <2> DEFINE m == Parent[n]
  <2>1. /\ P.pc = "return" /\ n \in Node /\ m # 0 /\ Ast[m].left = n
        /\ Ast[m].kind = "ND_PIPE" /\ At(Q, "exec", Ast[m].right) /\ SameFlags(P, Q)
    BY <1>1, <1>15, ReturnFromPipeLeftDoes
  <2>2. m \in Node
    BY <2>1, ParentChild
  <2>3. Ast[m].right \in Node /\ Parent[Ast[m].right] = m
    <3> HIDE DEF m
    <3>1. Ast[m].right \in Node /\ Ast[m].right # 0
      BY <2>1, <2>2, NodeShape, Nodes
    <3> QED BY <2>2, <3>1, RightChild
  <2>4. n \in PipeLeft
    BY <2>1, <2>2 DEF PipeLeft
  <2>5. InBrackets[Ast[m].right] <=> InBrackets[n]
    <3>1. InBrackets[n] <=> m \in Bracket \/ InBrackets[m]
      BY <2>1, <2>2, ChildIsIn
    <3>2. InBrackets[Ast[m].right] <=> m \in Bracket \/ InBrackets[m]
      BY <2>2, <2>3, ChildIsIn
    <3> QED BY <3>1, <3>2
  <2> QED BY <2>1, <2>4, <2>5 DEF Flags, Flagged, SameFlags, At
<1>16. CASE ReturnAndWait(Shell)
  <2>1. /\ P.pc = "return" /\ n \in Node /\ Q.pc \in {"wait", "decide"}
        /\ Q.node = Parent[n] /\ SameFlags(P, Q)
    BY <1>1, <1>16, ReturnAndWaitDoes
  <2>2. Parent[n] # 0 => (InBrackets[n] <=> Parent[n] \in Bracket \/ InBrackets[Parent[n]])
    BY <2>1, ParentChild, ChildIsIn
  <2> QED BY <2>1, <2>2 DEF Flags, Flagged, SameFlags
<1>17. CASE WaitChild(Shell) \/ WaitNoChild(Shell)
  BY <1>1, <1>17, WaitDoes DEF Flags, Flagged, SameFlags
<1>18. CASE exec_and_node(Shell) \/ exec_or_node(Shell)
  <2>1. /\ P.pc = "decide" /\ n \in Node /\ Ast[n].kind \in {"ND_AND_OP", "ND_OR_OP"}
        /\ \/ At(Q, "return", n) /\ SameFlags(P, Q)
           \/ /\ At(Q, "exec", Ast[n].right)
              /\ Q.is_exec_in_child_ps = Flagged(P)
              /\ Q.is_in_round_bracket = P.is_in_round_bracket
    BY <1>1, <1>18, DecideDoes
  <2>2. Ast[n].right \in Node /\ Parent[Ast[n].right] = n
    BY <2>1, NodeShape, RightChild, Nodes
  <2>3. n \notin Bracket /\ n \notin PipeLeft /\ n # 0
    BY <2>1, PipeLeftIs, Nodes DEF Bracket
  <2>4. /\ InBrackets[Ast[n].right] <=> InBrackets[n]
        /\ InSubshell[Ast[n].right] <=> InSubshell[n]
    BY <2>1, <2>2, <2>3, ChildIsIn
  <2>5. InSubshell[n] => InBrackets[n]
    BY <2>1, OperatorInBrackets
  <2> QED BY <2>1, <2>3, <2>4, <2>5 DEF Flags, Flagged, SameFlags, At
<1>19. CASE EndOfBrackets(Shell)
  <2>1. n \in Node /\ Ast[n].kind = "ND_RND_BRACKET" /\ At(Q, "return", n)
    BY <1>1, <1>19, EndOfBracketsDoes
  <2>2. n \notin PipeLeft /\ ~ InBrackets[n]
    BY <2>1 DEF Alone, Bracket
  <2> QED BY <2>1, <2>2 DEF Flags, At
<1>20. CASE EndOfLine(Shell) \/ EndOfInput(Shell)
  BY <1>1, <1>4, <1>20, EndOfLineDoes, EndOfInputDoes DEF Flags
<1>21. CASE ChildSetup(Shell)
  BY <1>21 DEF ChildSetup, ShellRuns
<1> QED BY <1>1, <1>2, <1>3, <1>5, <1>6, <1>7, <1>8, <1>9, <1>10, <1>11, <1>12, <1>13, <1>14,
           <1>15, <1>16, <1>17, <1>18, <1>19, <1>20, <1>21, Happens DEF Advances, Step, RunsOn

\* The shell starts at the prompt.
LEMMA ShellStarts ==
    ASSUME Init
    PROVE  proc[Shell] = init_ctx /\ proc[Shell].pc = "prompt"
<1>1. Shell \in Proc
  BY BoundsAssumption DEF Shell, Proc
<1>2. init_ctx.pc = "prompt"
  BY DEF init_ctx, NoProcess
<1> QED BY <1>1, <1>2 DEF Init

\* SubshellIsolation: on lines whose brackets stand alone, a builtin in brackets
\* or in a pipeline never runs in the shell itself.  (Behind brackets that do
\* not, exec_round_brackets has cleared the flags.)
THEOREM SubshellsAreIsolated ==
    ASSUME Alone
    PROVE  Spec => []SubshellIsolation
<1>1. Init => ShellRuns(proc[Shell]) /\ Flags(proc[Shell])
  BY ShellStarts DEF ShellRuns, Flags
<1>2. /\ TypeOK /\ [Next]_vars /\ ShellRuns(proc[Shell]) /\ Flags(proc[Shell])
      => (ShellRuns(proc[Shell]) /\ Flags(proc[Shell]))'
  BY ShellRunsKept, FlagsKept
<1>3. Flags(proc[Shell]) => SubshellIsolation
  BY DEF Flags, SubshellIsolation
<1> QED BY <1>1, <1>2, <1>3, TypeCorrect, PTL DEF Spec

(***************************************************************************)
(* Descriptors 0, 1 and 2 are never free.                                  *)
(***************************************************************************)
\* The descriptors of P without those in S.
Shut(P, S) == [fd \in FD |-> IF fd \in S THEN Closed ELSE P.fds[fd]]

\* What clear_ctx closes: what is left of the last line's backup.
Old(P) == {fd \in {P.stored_stdin, P.stored_stdout} : fd > 2}

\* The shell forgets the last line and keeps copies of 0 and 1.
LEMMA ClearCtxDoes ==
    ASSUME NEW P \in Process, CanBackup(P)
    PROVE  LET C == clear_ctx(P)
               shut == Shut(P, Old(P))
           IN  \E in, out \in FD :
                 /\ in # out /\ shut[in] = Closed /\ shut[out] = Closed
                 /\ C.fds = [shut EXCEPT ![in] = P.fds[STDIN_FILENO],
                                         ![out] = P.fds[STDOUT_FILENO]]
                 /\ C.stored_stdin = in /\ C.stored_stdout = out
                 /\ C.in_pipe_fd = -1 /\ C.out_pipe_fd = -1 /\ C.pre_in_pipe_fd = -1
                 /\ C.fd_num = P.fd_num /\ C \in Process
<1> DEFINE B == [P EXCEPT !.in_pipe_fd = -1, !.out_pipe_fd = -1, !.pre_in_pipe_fd = -1,
                          !.pids = << >>, !.is_exec_in_child_ps = FALSE,
                          !.is_in_round_bracket = FALSE, !.head_node = 0]
           a == IF B.stored_stdin > 2 THEN B.stored_stdin ELSE -1
           b == IF B.stored_stdout > 2 THEN B.stored_stdout ELSE -1
           D == Close(B, a)
           E == Close(D, b)
           in == NthFree(E, 1)
           out == NthFree(E, 2)
           C == [E EXCEPT !.stored_stdin = in, !.stored_stdout = out,
                          !.fds[in] = E.fds[STDIN_FILENO], !.fds[out] = E.fds[STDOUT_FILENO]]
<1>1. clear_ctx(P) = C
  BY DEF clear_ctx, backup_std_fds
<1>2. B \in Process
  BY Null, ZenonT(60) DEF Process
<1>3. /\ B.fds = P.fds /\ B.in_pipe_fd = -1 /\ B.out_pipe_fd = -1 /\ B.pre_in_pipe_fd = -1
      /\ B.stored_stdin = P.stored_stdin /\ B.stored_stdout = P.stored_stdout
      /\ B.fd_num = P.fd_num
  BY DEF Process
<1>4. Cardinality(FreeFds(B)) >= 2
  BY <1>3 DEF CanBackup, FreeFds
<1>5. C \in Process
  BY <1>1, <1>2, <1>4, BackupType DEF clear_ctx
<1> HIDE DEF B
<1>6. D \in Process /\ OnlyFds(B, D) /\ D.fds = Refers(B, a, Closed)
  BY <1>2, CloseDoes
<1> HIDE DEF D
<1>7. E \in Process /\ OnlyFds(D, E) /\ E.fds = Refers(D, b, Closed)
  BY <1>6, CloseDoes
<1> HIDE DEF E
<1>8. E.fds = [fd \in FD |-> IF fd = a \/ fd = b THEN Closed ELSE B.fds[fd]]
  BY <1>2, <1>6, <1>7 DEF Refers, Process
<1>9. \A fd \in FD : (fd = a \/ fd = b) <=> fd \in Old(P)
  <2>1. -1 \notin FD
    BY Standard
  <2> QED BY <1>3, <2>1 DEF Old
<1>10. E.fds = Shut(P, Old(P))
  BY <1>3, <1>8, <1>9 DEF Shut
<1>11. ~ (Cardinality(FreeFds(E)) < 2)
  <2>1. FreeFds(B) \subseteq FreeFds(E)
    BY <1>8 DEF FreeFds
  <2>2. IsFiniteSet(FreeFds(E)) /\ IsFiniteSet(FreeFds(B))
    BY Standard, FS_Subset DEF FreeFds
  <2>3. Cardinality(FreeFds(B)) <= Cardinality(FreeFds(E))
    BY <2>1, <2>2, FS_Subset
  <2>4. Cardinality(FreeFds(B)) \in Nat /\ Cardinality(FreeFds(E)) \in Nat
    BY <2>2, FS_CardinalityType
  <2> QED BY <1>4, <2>3, <2>4
<1>12. in \in FreeFds(E) /\ out \in FreeFds(E) /\ in # out
  BY <1>11, TwoFree
<1> HIDE DEF in, out
<1>13. E.fds[STDIN_FILENO] = P.fds[STDIN_FILENO] /\ E.fds[STDOUT_FILENO] = P.fds[STDOUT_FILENO]
  <2>1. STDIN_FILENO \in FD /\ STDOUT_FILENO \in FD
    BY Standard DEF STDIN_FILENO, STDOUT_FILENO
  <2>2. STDIN_FILENO \notin Old(P) /\ STDOUT_FILENO \notin Old(P)
    BY DEF Old, STDIN_FILENO, STDOUT_FILENO
  <2> QED BY <1>10, <2>1, <2>2 DEF Shut
<1>14. /\ C.fds = [E.fds EXCEPT ![in] = P.fds[STDIN_FILENO], ![out] = P.fds[STDOUT_FILENO]]
       /\ C.stored_stdin = in /\ C.stored_stdout = out /\ C.fd_num = E.fd_num
       /\ C.in_pipe_fd = E.in_pipe_fd /\ C.out_pipe_fd = E.out_pipe_fd
       /\ C.pre_in_pipe_fd = E.pre_in_pipe_fd
  BY <1>7, <1>13 DEF Process
<1> HIDE DEF C
<1>15. /\ E.fd_num = P.fd_num
       /\ E.in_pipe_fd = -1 /\ E.out_pipe_fd = -1 /\ E.pre_in_pipe_fd = -1
  BY <1>3, <1>6, <1>7 DEF OnlyFds, SameHeld
<1>16. in \in FD /\ out \in FD /\ E.fds[in] = Closed /\ E.fds[out] = Closed
  BY <1>12 DEF FreeFds
<1> QED BY <1>1, <1>5, <1>10, <1>12, <1>14, <1>15, <1>16

\* The copies are closed.
LEMMA CloseStoredDoes ==
    ASSUME NEW P \in Process
    PROVE  LET C == close_stored_fds(P)
           IN  /\ C.fds = Shut(P, {P.stored_stdin, P.stored_stdout})
               /\ C.stored_stdin = -1 /\ C.stored_stdout = -1 /\ C.fd_num = P.fd_num
               /\ C.in_pipe_fd = P.in_pipe_fd /\ C.out_pipe_fd = P.out_pipe_fd
               /\ C.pre_in_pipe_fd = P.pre_in_pipe_fd
<1> DEFINE D == Close(P, P.stored_stdin)
           E == Close(D, P.stored_stdout)
           C == [E EXCEPT !.stored_stdin = -1, !.stored_stdout = -1]
<1>1. close_stored_fds(P) = C
  BY DEF close_stored_fds
<1>2. D \in Process /\ OnlyFds(P, D) /\ D.fds = Refers(P, P.stored_stdin, Closed)
  BY CloseDoes
<1> HIDE DEF D
<1>3. E \in Process /\ OnlyFds(D, E) /\ E.fds = Refers(D, P.stored_stdout, Closed)
  BY <1>2, CloseDoes
<1> HIDE DEF E
<1>4. E.fds = Shut(P, {P.stored_stdin, P.stored_stdout})
  BY <1>2, <1>3 DEF Refers, Process, Shut
<1>5. /\ C.fds = E.fds /\ C.stored_stdin = -1 /\ C.stored_stdout = -1 /\ C.fd_num = E.fd_num
      /\ C.in_pipe_fd = E.in_pipe_fd /\ C.out_pipe_fd = E.out_pipe_fd
      /\ C.pre_in_pipe_fd = E.pre_in_pipe_fd
  BY <1>3 DEF Process
<1> HIDE DEF C
<1> QED BY <1>1, <1>2, <1>3, <1>4, <1>5 DEF OnlyFds, SameHeld

\* Where a descriptor of the shell's own may be.
Num == {fd \in FdOrNone : fd = -1 \/ fd > 2}

Std(P) ==
    /\ \A fd \in 0 .. 2 : P.fds[fd] # Closed
    /\ P.stored_stdin \in Num /\ P.stored_stdout \in Num
    /\ P.in_pipe_fd \in Num /\ P.pre_in_pipe_fd \in Num
    /\ P.out_pipe_fd \in Num \cup {STDOUT_FILENO}
    /\ \A n \in RedirectNode : P.fd_num[n] \in Num

\* A stored descriptor is not a standard one.
LEMMA NumIs ==
    /\ 0 .. 2 \subseteq FD /\ -1 \in Num
    /\ \A fd \in FD : fd \in Num <=> fd \notin 0 .. 2
    /\ \A fd \in Num : fd \notin 0 .. 2
    /\ \A fd \in Num : fd # -1 => fd \in FD /\ fd > 2
<1>1. MaxFd \in Nat /\ MaxFd >= 2
  BY BoundsAssumption
<1> QED BY <1>1 DEF Num, FdOrNone, FD

\* The kernel gives out none of them.
LEMMA FreeIsNum ==
    ASSUME NEW P, Std(P), NEW fd \in FreeFds(P)
    PROVE  fd \in Num /\ fd # -1
<1>1. fd \in FD /\ P.fds[fd] = Closed
  BY DEF FreeFds
<1>2. fd \notin 0 .. 2
  BY <1>1 DEF Std
<1> QED BY <1>1, <1>2, NumIs DEF FD

\* The same files: the same three are open.
LEMMA StdSame ==
    ASSUME NEW P, NEW Q, Std(P), SameFiles(P, Q)
    PROVE  Std(Q)
BY DEF Std, SameFiles, SameHeld

\* Closing another one, or giving one of them another file, leaves them open.
LEMMA StdFds ==
    ASSUME NEW P, NEW Q, Std(P), SameHeld(P, Q), Q.fd_num = P.fd_num,
           \A fd \in 0 .. 2 : Q.fds[fd] # Closed
    PROVE  Std(Q)
BY DEF Std, SameHeld

\* move_fd to one of them leaves them open,
LEMMA StdMoved ==
    ASSUME NEW P \in Process, Std(P), NEW from \in Num, NEW to \in 0 .. 2
    PROVE  LET Q == MoveTo(P, from, to)
           IN  Q \in Process /\ OnlyFds(P, Q) /\ Std(Q)
<1> DEFINE Q == MoveTo(P, from, to)
<1>1. to \in FD
  BY NumIs
<1>2. /\ Q \in Process /\ OnlyFds(P, Q)
      /\ Q.fds = [fd \in FD |-> CASE fd = from -> Closed
                                  [] fd # from /\ fd = to /\ IsOpen(P, from) -> P.fds[from]
                                  [] OTHER -> P.fds[fd]]
  BY <1>1, MoveToDoes
<1> HIDE DEF Q
<1>3. \A fd \in 0 .. 2 : fd \in FD /\ fd # from /\ P.fds[fd] # Closed
  BY NumIs DEF Std
<1>4. \A fd \in 0 .. 2 : Q.fds[fd] # Closed
  BY <1>2, <1>3 DEF IsOpen
<1>5. SameHeld(P, Q) /\ Q.fd_num = P.fd_num
  BY <1>2 DEF OnlyFds
<1> QED BY <1>2, <1>4, <1>5, StdFds DEF Q

\* and so does closing a stored one,
LEMMA StdClosed ==
    ASSUME NEW P \in Process, Std(P), NEW from \in Num
    PROVE  LET Q == Close(P, from)
           IN  Q \in Process /\ OnlyFds(P, Q) /\ Std(Q)
<1> DEFINE Q == Close(P, from)
<1>1. Q \in Process /\ OnlyFds(P, Q) /\ Q.fds = Refers(P, from, Closed)
  BY CloseDoes
<1> HIDE DEF Q
<1>2. \A fd \in 0 .. 2 : fd \in FD /\ fd # from /\ P.fds[fd] # Closed
  BY NumIs DEF Std
<1>3. P.fds \in [FD -> Desc]
  BY DEF Process
<1>4. \A fd \in 0 .. 2 : Q.fds[fd] # Closed
  BY <1>1, <1>2, <1>3 DEF Refers
<1>5. SameHeld(P, Q) /\ Q.fd_num = P.fd_num
  BY <1>1 DEF OnlyFds
<1> QED BY <1>1, <1>4, <1>5, StdFds DEF Q

\* The helpers of the shell leave them open.
LEMMA StdSetup ==
    ASSUME NEW P \in Process, Std(P)
    PROVE  Std(setup_child_process_fd_flg(P))
<1> DEFINE I == ConnectInput(P)
           C == Close(I, P.in_pipe_fd)
           O == ConnectOutput(C)
<1>1. OnlyFds(P, P) /\ P.in_pipe_fd \in Num /\ P.pre_in_pipe_fd \in Num
  BY DEF Std, OnlyFds, SameHeld, SameFlags
<1>2. I \in Process /\ OnlyFds(P, I) /\ Std(I)
  BY <1>1, StdMoved DEF ConnectInput, STDIN_FILENO
<1> HIDE DEF I
<1>3. C \in Process /\ OnlyFds(I, C) /\ Std(C)
  BY <1>1, <1>2, StdClosed
<1> HIDE DEF C
<1>4. O \in Process /\ Std(O)
  <2>1. C.out_pipe_fd \in Num \cup {STDOUT_FILENO}
    BY <1>3 DEF Std
  <2>2. CASE C.out_pipe_fd \in {-1, STDOUT_FILENO}
    BY <1>3, <2>2 DEF ConnectOutput
  <2>3. CASE C.out_pipe_fd \notin {-1, STDOUT_FILENO}
    BY <1>3, <2>1, <2>3, StdMoved DEF ConnectOutput, STDOUT_FILENO
  <2> QED BY <2>2, <2>3
<1> HIDE DEF O
<1> DEFINE S == [O EXCEPT !.is_exec_in_child_ps = TRUE]
<1>5. setup_child_process_fd_flg(P) = S
  BY DEF setup_child_process_fd_flg, O, C, I
<1>6. SameFiles(O, S)
  BY <1>4 DEF Process, SameFiles, SameHeld
<1> HIDE DEF S
<1> QED BY <1>4, <1>5, <1>6, StdSame

\* what a parent closes after a fork,
LEMMA StdParent ==
    ASSUME NEW P \in Process, Std(P), P.node \in Node, Ast[P.node].kind = "ND_CMD"
    PROVE  Std(CloseHeredoc(reset_parent_process_fd(P)))
<1> DEFINE R == reset_parent_process_fd(P)
           C == CloseHeredoc(R)
           l == Ast[P.node].left
<1>1. /\ R \in Process /\ R.node = P.node
      /\ R.fds = [fd \in FD |-> IF Dropped(P, fd) THEN Closed ELSE P.fds[fd]]
      /\ R.pre_in_pipe_fd = P.in_pipe_fd /\ R.in_pipe_fd = -1 /\ R.out_pipe_fd = -1
      /\ R.stored_stdin = P.stored_stdin /\ R.stored_stdout = P.stored_stdout
      /\ R.fd_num = P.fd_num
  BY ResetDoes
<1> HIDE DEF R
<1>2. \A fd \in 0 .. 2 : fd \in FD /\ ~ Dropped(P, fd) /\ P.fds[fd] # Closed
  BY NumIs DEF Std, Dropped
<1>3. \A fd \in 0 .. 2 : R.fds[fd] # Closed
  BY <1>1, <1>2
<1>4. Std(R)
  BY <1>1, <1>3, NumIs DEF Std
<1>5. l # 0 => l \in RedirectNode
  BY NodeShape
<1>6. l # 0 => R.fd_num[l] \in Num
  BY <1>4, <1>5 DEF Std
<1>7. CloseHeredoc(R) = IF l = 0 THEN R ELSE Close(R, R.fd_num[l])
  BY <1>1 DEF CloseHeredoc
<1> HIDE DEF l
<1>8. Std(C)
  BY <1>1, <1>4, <1>6, <1>7, StdClosed
<1> QED BY <1>8 DEF R

\* the end of redirects,
LEMMA StdRestored ==
    ASSUME NEW P \in Process, Std(P)
    PROVE  Std(restore_std_fds(P))
<1> DEFINE R == restore_std_fds(P)
<1>1. P.stored_stdout # STDIN_FILENO
  BY NumIs DEF Std, STDIN_FILENO
<1>2. /\ OnlyFds(P, R)
      /\ R.fds = [fd \in FD |->
            CASE fd = STDIN_FILENO /\ IsOpen(P, P.stored_stdin) -> P.fds[P.stored_stdin]
              [] fd = STDOUT_FILENO /\ IsOpen(P, P.stored_stdout) -> P.fds[P.stored_stdout]
              [] OTHER -> P.fds[fd]]
  BY <1>1, RestoreDoes
<1> HIDE DEF R
<1>3. \A fd \in 0 .. 2 : fd \in FD /\ P.fds[fd] # Closed
  BY NumIs DEF Std
<1>4. \A fd \in 0 .. 2 : R.fds[fd] # Closed
  <2>1. STDIN_FILENO # STDOUT_FILENO
    BY DEF STDIN_FILENO, STDOUT_FILENO
  <2> QED BY <1>2, <1>3, <2>1 DEF IsOpen
<1>5. SameHeld(P, R) /\ R.fd_num = P.fd_num
  BY <1>2 DEF OnlyFds
<1>6. Std(R)
  BY <1>4, <1>5, StdFds
<1> QED BY <1>6 DEF R

\* The operators of a redirect list too.
LEMMA StdApplied ==
    ASSUME NEW P \in Process, Std(P), P.node \in Node, Ast[P.node].kind \in {"ND_CMD", "ND_REDIRECTS"},
           ListOf(P) \in RedirectNode
    PROVE  Std(Applied(P))
<1> DEFINE A == Applied(P)
           n == ListOf(P)
           r == Operator(P)
           M == MoveTo(P, P.fd_num[n], STDIN_FILENO)
           std == IF r.op = "<" THEN STDIN_FILENO ELSE STDOUT_FILENO
<1>1. /\ A \in Process /\ SameHeld(P, A)
      /\ r.op # "<<" => /\ A.fd_num = P.fd_num
                        /\ A.fds = IF Opens(P) THEN Refers(P, std, File) ELSE P.fds
      /\ r.op = "<<" /\ P.fd_num[n] > 2 =>
           A.fds = M.fds /\ A.fd_num = [P.fd_num EXCEPT ![n] = -1]
      /\ r.op = "<<" /\ ~ (P.fd_num[n] > 2) => A = P
  BY AppliedDoes
<1>2. P.fd_num[n] \in Num
  BY DEF Std
<1>3. Std(M)
  BY <1>2, StdMoved DEF STDIN_FILENO
<1> HIDE DEF A, M, n, r
<1>4. CASE r.op # "<<"
  <2>1. P.fds \in [FD -> Desc] /\ File # Closed
    BY DEF Process, File, Closed
  <2>2. \A fd \in 0 .. 2 : fd \in FD /\ P.fds[fd] # Closed
    BY NumIs DEF Std
  <2>3. \A fd \in 0 .. 2 : A.fds[fd] # Closed
    BY <1>1, <1>4, <2>1, <2>2 DEF Refers
  <2> QED BY <1>1, <1>4, <2>3, StdFds DEF A
<1>5. CASE r.op = "<<" /\ P.fd_num[n] > 2
  <2>1. P.fd_num \in [RedirectNode -> FdOrNone]
    BY DEF Process
  <2>2. \A m \in RedirectNode : A.fd_num[m] \in Num
    BY <1>1, <1>5, <2>1, NumIs DEF Std
  <2>3. \A fd \in 0 .. 2 : A.fds[fd] # Closed
    BY <1>1, <1>3, <1>5 DEF Std
  <2>4. Std(A)
    BY <1>1, <2>2, <2>3 DEF Std, SameHeld
  <2> QED BY <2>4 DEF A
<1>6. CASE r.op = "<<" /\ ~ (P.fd_num[n] > 2)
  BY <1>1, <1>6 DEF A
<1> QED BY <1>4, <1>5, <1>6

\* And what a line begins and ends with.
LEMMA StdCleared ==
    ASSUME NEW P \in Process, Std(P), CanBackup(P)
    PROVE  Std(clear_ctx(P))
<1> DEFINE C == clear_ctx(P)
           shut == Shut(P, Old(P))
<1>1. PICK in, out \in FD :
         /\ in # out /\ shut[in] = Closed /\ shut[out] = Closed
         /\ C.fds = [shut EXCEPT ![in] = P.fds[STDIN_FILENO], ![out] = P.fds[STDOUT_FILENO]]
         /\ C.stored_stdin = in /\ C.stored_stdout = out
         /\ C.in_pipe_fd = -1 /\ C.out_pipe_fd = -1 /\ C.pre_in_pipe_fd = -1
         /\ C.fd_num = P.fd_num
  BY ClearCtxDoes
<1>2. \A fd \in 0 .. 2 : fd \in FD /\ fd \notin Old(P) /\ P.fds[fd] # Closed
  BY NumIs DEF Std, Old
<1>3. \A fd \in 0 .. 2 : shut[fd] = P.fds[fd] /\ shut[fd] # Closed
  BY <1>2 DEF Shut
<1>4. in \in Num /\ out \in Num
  BY <1>1, <1>3, NumIs
<1>5. \A fd \in 0 .. 2 : C.fds[fd] # Closed
  <2>1. shut \in [FD -> Desc \cup {Closed}]
    BY DEF Shut, Process
  <2>2. \A fd \in 0 .. 2 : fd # in /\ fd # out
    BY <1>4, NumIs
  <2> HIDE DEF shut, C
  <2> QED BY <1>1, <1>2, <1>3, <2>1, <2>2
<1> HIDE DEF C, shut
<1>6. Std(C)
  BY <1>1, <1>4, <1>5, NumIs DEF Std
<1> QED BY <1>6 DEF C

\* and the end of a line.
LEMMA StdEnded ==
    ASSUME NEW P \in Process, Std(P)
    PROVE  Std(close_stored_fds(P))
<1> DEFINE C == close_stored_fds(P)
<1>1. /\ C.fds = Shut(P, {P.stored_stdin, P.stored_stdout})
      /\ C.stored_stdin = -1 /\ C.stored_stdout = -1 /\ C.fd_num = P.fd_num
      /\ C.in_pipe_fd = P.in_pipe_fd /\ C.out_pipe_fd = P.out_pipe_fd
      /\ C.pre_in_pipe_fd = P.pre_in_pipe_fd
  BY CloseStoredDoes
<1> HIDE DEF C
<1>2. \A fd \in 0 .. 2 : fd \in FD /\ P.fds[fd] # Closed /\ fd \notin {P.stored_stdin, P.stored_stdout}
  BY NumIs DEF Std
<1>3. \A fd \in 0 .. 2 : C.fds[fd] # Closed
  BY <1>1, <1>2 DEF Shut
<1>4. Std(C)
  BY <1>1, <1>3, NumIs DEF Std
<1> QED BY <1>4 DEF C

\* A process that runs has 0, 1 and 2 open.
Steady(P) == Gone(P) \/ Std(P)

\* A command takes its turn in the list of redirects that is its own.
LEMMA ListIs ==
    ASSUME NEW P \in Process, P.node \in Node, Ast[P.node].kind \in {"ND_CMD", "ND_REDIRECTS"},
           Ast[P.node].kind = "ND_CMD" => Ast[P.node].left # 0
    PROVE  ListOf(P) \in RedirectNode
BY NodeShape DEF ListOf, RedirectNode

\* Only a command with redirects applies them.
Listed(P) == P.pc = "redirect" => /\ P.node \in Node
                                  /\ Ast[P.node].kind \in {"ND_CMD", "ND_REDIRECTS"}
                                  /\ Ast[P.node].kind = "ND_CMD" => Ast[P.node].left # 0

\* Listed is an invariant of each process,
LEMMA ListedKept ==
    ASSUME TypeOK, [Next]_vars, NEW r \in Proc, Listed(proc[r])
    PROVE  Listed(proc'[r])
<1> DEFINE P == proc[r]
           Q == proc'[r]
<1>1. CASE Aside(P, Q)
  BY <1>1 DEF Aside, Gone, Alike, At, Listed
<1>2. CASE NewChild(r)
  BY <1>2 DEF NewChild, ForkOf, At, Listed
<1>3. CASE Gone(Q)
  BY <1>3 DEF Gone, Listed
<1>4. CASE ReadLine(r) \/ Heredoc(r) \/ HeredocsRead(r) \/ EndOfInput(r) \/ EndOfLine(r)
  BY <1>3, <1>4, ReadLineDoes, HeredocDoes, HeredocsReadDoes, EndOfInputDoes, EndOfLineDoes
     DEF Listed, At
<1>5. CASE exec_pipe(r) \/ exec_logical(r) \/ exec_round_brackets(r)
  BY <1>3, <1>5, exec_pipeDoes, exec_logicalDoes, exec_round_bracketsDoes DEF Listed, At
<1>6. CASE exec_redirect(r) \/ exec_cmd_here(r) \/ exec_cmd_forked(r) \/ ChildSetup(r)
  BY <1>3, <1>6, exec_redirectDoes, exec_cmd_hereDoes, exec_cmd_forkedDoes, ChildSetupDoes
     DEF Listed, At
<1>7. CASE exec_cmd(r) \/ exec_cmd_with_heredoc(r)
  BY <1>3, <1>7, exec_cmdDoes DEF Listed, Expanded
<1>8. CASE apply_redirects(r)
  BY <1>3, <1>8, apply_redirectsDoes DEF Listed, Redirected, At
<1>9. CASE run_builtin(r) \/ RunsOn(r)
  BY <1>3, <1>9, run_builtinDoes, RunsOnDoes DEF Listed, At
<1>10. CASE ReturnFromRight(r) \/ ReturnFromPipeLeft(r) \/ ReturnAndWait(r)
            \/ WaitChild(r) \/ WaitNoChild(r)
  BY <1>10, ReturnFromRightDoes, ReturnFromPipeLeftDoes, ReturnAndWaitDoes, WaitDoes
     DEF Listed, At
<1>11. CASE exec_and_node(r) \/ exec_or_node(r) \/ EndOfBrackets(r)
  BY <1>11, DecideDoes, EndOfBracketsDoes DEF Listed, At
<1> QED BY <1>1, <1>2, <1>4, <1>5, <1>6, <1>7, <1>8, <1>9, <1>10, <1>11, Happens
           DEF Advances, Step, RunsOn

\* and so is Steady.
LEMMA SteadyKept ==
    ASSUME TypeOK, [Next]_vars, NEW r \in Proc, Listed(proc[r]), \A p \in Proc : Steady(proc[p])
    PROVE  Steady(proc'[r])
<1> DEFINE P == proc[r]
           Q == proc'[r]
<1>1. P \in Process /\ P.fds \in [FD -> Desc] /\ P.fd_num \in [RedirectNode -> FdOrNone]
      /\ Steady(P)
  BY ProcType, Here DEF Process
<1>2. ASSUME Std(P), SameFiles(P, Q) PROVE Steady(Q)
  BY <1>2, StdSame DEF Steady
<1>3. ASSUME NEW S, Std(S), SameFiles(S, Q) PROVE Steady(Q)
  BY <1>3, StdSame DEF Steady
<1>4. CASE Aside(P, Q)
  BY <1>1, <1>2, <1>4 DEF Aside, Alike, Steady, Gone, At
<1>5. CASE NewChild(r)
  <2>1. PICK p \in Proc \ {r} : exec_cmd_forked(p) /\ ForkOf(proc[p], Q)
    BY <1>5 DEF NewChild
  <2>2. Std(proc[p])
    BY <2>1 DEF ForkOf, Steady, Gone
  <2> QED BY <1>3, <2>1, <2>2 DEF ForkOf
<1>6. ASSUME ~ Gone(Q), Advances(r) PROVE Std(P)
  <2>1. ~ Gone(P)
    <3>1. P.pc # "free" /\ P.pc # "zombie"
      BY <1>6 DEF Advances, Step, ReadLine, EndOfInput, Heredoc, HeredocsRead, exec_pipe,
         exec_logical, exec_round_brackets, exec_redirect, exec_cmd_here, exec_cmd_forked,
         ChildSetup, exec_cmd, exec_cmd_with_heredoc, apply_redirects, run_builtin, Write, Read,
         Reading, ReadEof, ProgramExit, ReturnFromRight, ReturnFromPipeLeft, ReturnAndWait,
         WaitChild, WaitNoChild, exec_and_node, exec_or_node, EndOfBrackets, EndOfLine, AtNode,
         Deciding
    <3> QED BY <3>1 DEF Gone
  <2> QED BY <1>1, <2>1 DEF Steady
<1>7. CASE Gone(Q)
  BY <1>7 DEF Steady
<1> DEFINE Goes == ~ Gone(Q) /\ Std(P)
<1>8. CASE Goes /\ ReadLine(r)
  <2>1. \/ CanBackup(P) /\ SameFiles(close_stored_fds(clear_ctx(P)), Q)
        \/ CanBackup(P) /\ SameFiles(clear_ctx(P), Q)
    BY <1>8, ReadLineDoes
  <2>2. CanBackup(P)
    BY <2>1
  <2>3. Std(clear_ctx(P)) /\ clear_ctx(P) \in Process
    BY <1>1, <1>8, <2>2, StdCleared, ClearCtxDoes
  <2> QED BY <1>3, <2>1, <2>3, StdEnded
<1>9. CASE Goes /\ Heredoc(r)
  <2> DEFINE n == NextHeredoc(P)
  <2>1. CASE SameFiles(P, Q)
    BY <1>2, <1>9, <2>1
  <2>2. CASE ~ SameFiles(P, Q)
    <3>1. PICK fd \in FreeFds(P), k \in Pipe :
            /\ Q.fds = [P.fds EXCEPT ![fd] = ReadEnd(k)]
            /\ Q.fd_num = [P.fd_num EXCEPT ![n] = fd]
            /\ SameHeld(P, Q)
      BY <1>9, <2>2, HeredocDoes
    <3>2. fd \in Num
      BY <1>9, FreeIsNum
    <3>3. \A m \in RedirectNode : Q.fd_num[m] \in Num
      BY <1>1, <1>9, <3>1, <3>2 DEF Std
    <3>4. \A f \in 0 .. 2 : Q.fds[f] # Closed
      BY <1>1, <1>9, <3>1, <3>2, NumIs DEF Std
    <3> QED BY <1>9, <3>1, <3>3, <3>4 DEF Std, SameHeld, Steady
  <2> QED BY <2>1, <2>2
<1>10. CASE Goes /\ exec_pipe(r)
  <2>1. PICK a, b \in FreeFds(P), k \in UnusedPipes :
          /\ Q.fds = [P.fds EXCEPT ![a] = ReadEnd(k), ![b] = WriteEnd(k)]
          /\ Q.in_pipe_fd = a /\ Q.out_pipe_fd = b
          /\ Q.pre_in_pipe_fd = P.pre_in_pipe_fd
          /\ Q.stored_stdin = P.stored_stdin /\ Q.stored_stdout = P.stored_stdout
          /\ Q.fd_num = P.fd_num
    BY <1>10, exec_pipeDoes
  <2>2. a \in Num /\ b \in Num
    BY <1>10, FreeIsNum
  <2>3. \A fd \in 0 .. 2 : Q.fds[fd] # Closed
    BY <1>1, <1>10, <2>1, <2>2, NumIs DEF Std
  <2> QED BY <1>10, <2>1, <2>2, <2>3 DEF Std, Steady
<1>11. CASE Goes /\ (\/ HeredocsRead(r) \/ exec_logical(r) \/ exec_round_brackets(r)
                     \/ exec_redirect(r) \/ exec_cmd_here(r) \/ ReturnFromRight(r)
                     \/ ReturnAndWait(r) \/ WaitChild(r) \/ WaitNoChild(r) \/ exec_and_node(r)
                     \/ exec_or_node(r) \/ EndOfBrackets(r) \/ RunsOn(r))
  <2>1. SameFiles(P, Q)
    BY <1>11, HeredocsReadDoes, exec_logicalDoes, exec_round_bracketsDoes, exec_redirectDoes,
       exec_cmd_hereDoes, ReturnFromRightDoes, ReturnAndWaitDoes, WaitDoes, DecideDoes,
       EndOfBracketsDoes, RunsOnDoes
  <2> QED BY <1>2, <1>11, <2>1
<1>12. CASE Goes /\ exec_cmd_forked(r)
  <2>1. SameFiles(CloseHeredoc(reset_parent_process_fd(P)), Q)
        /\ P.node \in Node /\ Ast[P.node].kind = "ND_CMD"
    BY <1>12, exec_cmd_forkedDoes
  <2> QED BY <1>1, <1>3, <1>12, <2>1, StdParent
<1>13. CASE Goes /\ ChildSetup(r)
  <2> DEFINE S == setup_child_process_fd_flg(P)
  <2>1. Q.fds = S.fds /\ Q.fd_num = P.fd_num /\ SameHeld(P, Q)
    BY <1>13, ChildSetupDoes
  <2>2. Std(S)
    BY <1>1, <1>13, StdSetup
  <2>3. \A fd \in 0 .. 2 : Q.fds[fd] # Closed
    BY <2>1, <2>2 DEF Std
  <2> QED BY <1>13, <2>1, <2>3, StdFds DEF Steady
<1>14. CASE Goes /\ (exec_cmd(r) \/ exec_cmd_with_heredoc(r))
  <2>1. CASE SameFiles(P, Q)
    BY <1>2, <1>14, <2>1
  <2>2. CASE ~ SameFiles(P, Q)
    <3>1. NewBody(P, Q)
      BY <1>14, <2>2, exec_cmdDoes
    <3>2. PICK fd \in FreeFds(P), k \in Pipe :
            /\ Q.fds = Refers(P, fd, ReadEnd(k))
            /\ Q.fd_num = [P.fd_num EXCEPT ![Ast[P.node].left] = fd]
            /\ SameHeld(P, Q)
      BY <3>1 DEF NewBody
    <3>3. fd \in Num
      BY <1>14, FreeIsNum
    <3>4. \A m \in RedirectNode : Q.fd_num[m] \in Num
      BY <1>1, <1>14, <3>2, <3>3 DEF Std
    <3>5. \A f \in 0 .. 2 : Q.fds[f] # Closed
      BY <1>1, <1>14, <3>2, <3>3, NumIs DEF Std, Refers
    <3> QED BY <1>14, <3>2, <3>4, <3>5 DEF Std, SameHeld, Steady
  <2> QED BY <2>1, <2>2
<1>15. CASE Goes /\ apply_redirects(r)
  <2>1. P.node \in Node /\ Ast[P.node].kind \in {"ND_CMD", "ND_REDIRECTS"} /\ P.pc = "redirect"
        /\ (\/ SameFiles(Applied(P), Q) \/ SameFiles(restore_std_fds(Applied(P)), Q))
    BY <1>15, apply_redirectsDoes DEF Redirected
  <2>2. ListOf(P) \in RedirectNode
    BY <1>1, <2>1, ListIs DEF Listed
  <2>3. Std(Applied(P)) /\ Applied(P) \in Process
    BY <1>1, <1>15, <2>1, <2>2, StdApplied, AppliedDoes
  <2> QED BY <1>3, <2>1, <2>3, StdRestored
<1>16. CASE Goes /\ run_builtin(r)
  <2>1. SameFiles(P, Q) \/ SameFiles(restore_std_fds(P), Q)
    BY <1>16, run_builtinDoes
  <2> QED BY <1>1, <1>3, <1>16, <2>1, StdRestored
<1>17. CASE Goes /\ ReturnFromPipeLeft(r)
  <2>1. /\ Q.fds = P.fds /\ Q.fd_num = P.fd_num
        /\ Q.in_pipe_fd = P.in_pipe_fd /\ Q.out_pipe_fd = STDOUT_FILENO
        /\ Q.pre_in_pipe_fd = P.pre_in_pipe_fd
        /\ Q.stored_stdin = P.stored_stdin /\ Q.stored_stdout = P.stored_stdout
    BY <1>17, ReturnFromPipeLeftDoes
  <2> QED BY <1>17, <2>1 DEF Std, Steady
<1>18. CASE Goes /\ EndOfLine(r)
  <2> DEFINE C == close_stored_fds(P)
  <2>1. Q.fds = C.fds /\ Q.fd_num = NoHeredocs /\ SameHeld(C, Q)
    BY <1>18, EndOfLineDoes
  <2>2. Std(C)
    BY <1>1, <1>18, StdEnded
  <2>3. \A n \in RedirectNode : Q.fd_num[n] \in Num
    BY <2>1, NumIs DEF NoHeredocs
  <2> QED BY <2>1, <2>2, <2>3 DEF Std, SameHeld, Steady
<1>19. CASE EndOfInput(r)
  BY <1>7, <1>19, EndOfInputDoes
<1> HIDE DEF P, Q
<1>20. Advances(r) => Goes \/ Gone(Q)
  BY <1>6
<1> HIDE DEF Goes
<1> QED BY <1>4, <1>5, <1>7, <1>8, <1>9, <1>10, <1>11, <1>12, <1>13, <1>14, <1>15, <1>16,
           <1>17, <1>18, <1>19, <1>20, Happens DEF Advances, Step, RunsOn, P, Q

(***************************************************************************)
(* One shell.                                                              *)
(***************************************************************************)
\* A heredoc that call_heredoc keeps, because no later input takes its place.
KeptHeredoc(n) == HeredocOps(n) # {} /\ is_heredoc_end(n)

\* No command's redirects begin with a heredoc that a later input replaces.
NoneSuperseded ==
    \A m \in Node : LET l == Ast[m].left
                    IN  /\ Ast[m].kind = "ND_CMD" /\ l # 0 /\ Ast[l].redirects[1].op = "<<"
                        => is_heredoc_end(l)

\* The command P is at has the heredoc that its redirects begin with.
GivenHeredoc(P) ==
    LET l == Ast[P.node].left
    IN  l # 0 /\ Ast[l].redirects[1].op = "<<" => P.fd_num[l] > 2

\* A child runs its command and nothing else, and a heredoc that comes first
\* among its redirects is there, so that none leaves a status behind.
Kid(P) ==
    /\ P.pc \in {"free", "zombie", "child", "cmd", "redirect", "builtin", "program"}
    /\ P.pc \in {"cmd", "redirect", "builtin"} => P.is_exec_in_child_ps
    /\ P.pc \in {"child", "cmd"} => GivenHeredoc(P)
    /\ P.pc = "redirect" => /\ Ast[P.node].kind = "ND_CMD"
                            /\ P.last_status = 0 \/ (P.i = 1 /\ GivenHeredoc(P))

\* The heredocs of the line from node b on have their descriptors.
ReadyFrom(P, b) ==
    \A n \in RedirectNode :
        b <= n /\ Root[n] = P.head_node /\ KeptHeredoc(n) => P.fd_num[n] > 2

\* The shell is in the tree of its line, and what it has not come to is ready.
ShellAt(P) ==
    /\ P.pc = "heredoc" =>
         \A n \in RedirectNode :
             n <= P.i /\ Root[n] = P.node /\ KeptHeredoc(n) => P.fd_num[n] > 2
    /\ P.pc \in {"exec", "cmd", "redirect", "builtin", "return"} => Root[P.node] = P.head_node
    /\ P.pc \in {"wait", "decide"} /\ P.node # 0 => Root[P.node] = P.head_node
    /\ P.pc = "exec" => ReadyFrom(P, First[P.node])
    /\ P.pc \in {"cmd", "redirect", "builtin", "return"} => ReadyFrom(P, P.node + 1)
    /\ P.pc \in {"wait", "decide"} /\ P.node # 0 => ReadyFrom(P, Ast[P.node].left + 1)

\* Nodes are left in the order of their numbers.
LEMMA Order ==
    ASSUME NEW n \in Node
    PROVE  /\ n \in Nat /\ n # 0 /\ Ast[n].left \in Nat /\ Ast[n].left < n
           /\ Ast[n].kind \in {"ND_CMD", "ND_REDIRECTS"} => First[n] <= n /\ First[n] \in Nat
           /\ Ast[n].kind = "ND_CMD" /\ Ast[n].left # 0 => First[n] = Ast[n].left
           /\ Ast[n].left # 0 => First[n] = First[Ast[n].left]
           /\ Ast[n].right # 0 => First[Ast[n].right] = Ast[n].left + 1
<1>1. n \in Nat /\ n # 0
  BY Nodes
<1>2. WellFormed(n)
  BY AstAssumption
<1>3. Ast[n].left \in 0 .. n - 1
  BY <1>2 DEF WellFormed
<1>4. Ast[n].left \in Nat /\ Ast[n].left < n
  BY <1>1, <1>3
<1>5. First[n] = IF Ast[n].left = 0 THEN n ELSE First[Ast[n].left]
  BY FirstDef
<1>6. Ast[n].right # 0 => First[Ast[n].right] = Ast[n].left + 1
  BY TreeAssumption
<1>7. CASE Ast[n].kind = "ND_CMD" /\ Ast[n].left # 0
  <2>1. Ast[n].left \in RedirectNode
    BY <1>7, NodeShape
  <2>2. Ast[n].left \in Node /\ Ast[Ast[n].left].kind = "ND_REDIRECTS"
    BY <2>1 DEF RedirectNode
  <2>3. WellFormed(Ast[n].left)
    BY <2>2, AstAssumption
  <2>4. Ast[Ast[n].left].left = 0
    BY <2>2, <2>3 DEF WellFormed
  <2>5. First[Ast[n].left] = Ast[n].left
    BY <2>2, <2>4, FirstDef
  <2> QED BY <1>1, <1>4, <1>5, <1>6, <1>7, <2>5
<1>8. CASE ~ (Ast[n].kind = "ND_CMD" /\ Ast[n].left # 0)
  <2>1. Ast[n].kind = "ND_REDIRECTS" => Ast[n].left = 0
    BY <1>2 DEF WellFormed
  <2> QED BY <1>1, <1>4, <1>5, <1>6, <1>8, <2>1
<1> QED BY <1>7, <1>8

\* A child is in the tree of its parent.
LEMMA SameTree ==
    ASSUME NEW n \in Node, Parent[n] # 0
    PROVE  Root[n] = Root[Parent[n]]
BY RootDef

\* What is ready from a node on is ready from any later one on.
LEMMA ReadySame ==
    ASSUME NEW P, NEW Q, NEW b \in Nat, NEW c \in Nat, b <= c,
           ReadyFrom(P, b), Q.fd_num = P.fd_num, Q.head_node = P.head_node
    PROVE  ReadyFrom(Q, c)
<1>1. \A n \in RedirectNode : n \in Nat
  BY Nodes DEF RedirectNode
<1> QED BY <1>1 DEF ReadyFrom

\* What has been come to no longer matters.
LEMMA ReadyBefore ==
    ASSUME NEW P, NEW Q, NEW b \in Nat, NEW c \in Nat, b <= c,
           ReadyFrom(P, b), Q.head_node = P.head_node,
           \A m \in RedirectNode : c <= m => Q.fd_num[m] = P.fd_num[m]
    PROVE  ReadyFrom(Q, c)
<1>1. \A n \in RedirectNode : n \in Nat
  BY Nodes DEF RedirectNode
<1> QED BY <1>1 DEF ReadyFrom

\* ShellAt is an invariant.
LEMMA ShellAtKept ==
    ASSUME TypeOK, [Next]_vars, ShellRuns(proc[Shell]), Listed(proc[Shell]),
           Steady(proc[Shell]), ShellAt(proc[Shell])
    PROVE  ShellAt(proc'[Shell])
<1> DEFINE P == proc[Shell]
           Q == proc'[Shell]
           n == P.node
<1>1. Shell \in Proc /\ P \in Process
  <2>1. Shell \in Proc
    BY BoundsAssumption DEF Shell, Proc
  <2> QED BY <2>1, Here
<1>2. P.fd_num \in [RedirectNode -> FdOrNone]
  BY <1>1 DEF Process
<1>3. n \in Node => n \in Nat /\ n + 1 \in Nat /\ n <= n + 1 /\ n + 1 <= n + 1
                    /\ Ast[n].left + 1 \in Nat /\ Ast[n].left + 1 <= n + 1
  BY Order
<1>4. CASE Aside(P, Q)
  <2>1. CASE Gone(Q)
    BY <2>1 DEF Gone, ShellAt
  <2>2. CASE Alike(P, Q)
    BY <2>2 DEF Alike, At, SameFlags, SameFiles, ShellAt, ReadyFrom
  <2> QED BY <1>4, <2>1, <2>2 DEF Aside
<1>5. CASE NewChild(Shell)
  BY <1>5 DEF NewChild
<1>6. CASE Gone(Q)
  BY <1>6 DEF Gone, ShellAt
<1>7. CASE ReadLine(Shell)
  <2>1. ASSUME Q.pc = "heredoc", Q.i = 0 PROVE ShellAt(Q)
    BY <2>1, Nodes DEF ShellAt, RedirectNode
  <2>2. ASSUME Q.pc = "prompt" PROVE ShellAt(Q)
    BY <2>2 DEF ShellAt
  <2> QED BY <1>1, <1>6, <1>7, <2>1, <2>2, ReadLineDoes
<1>8. CASE Heredoc(Shell)
  <2> DEFINE h == NextHeredoc(P)
  <2>1. CASE ~ Gone(Q)
    <3>1. /\ h \in HeredocNodes(P) /\ \A m \in HeredocNodes(P) : h <= m
          /\ At(Q, "heredoc", n) /\ Q.i = h
          /\ \/ ~ is_heredoc_end(h) /\ SameFiles(P, Q)
             \/ \E fd \in FreeFds(P) : Q.fd_num = [P.fd_num EXCEPT ![h] = fd]
      BY <1>1, <1>8, <2>1, HeredocDoes
    <3>2. \A fd \in FreeFds(P) : fd > 2
      <4>1. Std(P)
        BY <1>8 DEF Heredoc, Steady, Gone
      <4> QED BY <4>1, FreeIsNum, NumIs
    <3>3. P.pc = "heredoc"
      BY <1>8 DEF Heredoc
    <3>4. \A m \in RedirectNode : m \in Nat
      BY Nodes DEF RedirectNode
    <3>5. P.i \in Nat /\ h \in RedirectNode /\ h > P.i
      BY <1>1, <3>1 DEF HeredocNodes, Process
    <3>6. ASSUME NEW m \in RedirectNode, m <= h, Root[m] = n, KeptHeredoc(m)
          PROVE  Q.fd_num[m] > 2
      <4>1. CASE m <= P.i
        <5>1. P.fd_num[m] > 2 /\ m # h
          BY <3>3, <3>4, <3>5, <3>6, <4>1 DEF ShellAt
        <5>2. Q.fd_num[m] = P.fd_num[m]
          BY <1>2, <3>1, <5>1 DEF SameFiles
        <5> QED BY <5>1, <5>2
      <4>2. CASE ~ (m <= P.i)
        <5>1. m \in HeredocNodes(P)
          BY <3>4, <3>5, <3>6, <4>2 DEF HeredocNodes, KeptHeredoc
        <5>2. m = h
          BY <3>1, <3>4, <3>5, <3>6, <5>1
        <5>3. is_heredoc_end(h)
          BY <3>6, <5>2 DEF KeptHeredoc
        <5> QED BY <1>2, <3>1, <3>2, <3>5, <5>2, <5>3
      <4> QED BY <4>1, <4>2
    <3> HIDE DEF h
    <3> QED BY <3>1, <3>6 DEF ShellAt, At
  <2> QED BY <1>6, <2>1
<1>9. CASE HeredocsRead(Shell)
  <2>1. /\ P.pc = "heredoc" /\ HeredocNodes(P) = {} /\ At(Q, "exec", n) /\ Q.fd_num = P.fd_num
        /\ Q.head_node = n
    BY <1>1, <1>9, HeredocsReadDoes DEF SameFiles
  <2>2. n \in Node /\ Parent[n] = 0
    BY <1>1, <2>1, Here DEF ShellRuns, AtItsNode
  <2>3. Root[n] = n
    BY <2>2, RootDef
  <2>4. ASSUME NEW m \in RedirectNode, Root[m] = n, KeptHeredoc(m)
        PROVE  Q.fd_num[m] > 2
    <3>1. m \notin HeredocNodes(P)
      BY <2>1
    <3>2. ~ (m > P.i)
      BY <2>4, <3>1 DEF HeredocNodes, KeptHeredoc
    <3>3. m \in Nat /\ P.i \in Nat
      BY <1>1, Nodes DEF RedirectNode, Process
    <3> QED BY <2>1, <2>4, <3>2, <3>3 DEF ShellAt
  <2> QED BY <2>1, <2>3, <2>4 DEF ShellAt, ReadyFrom, At
<1>10. CASE exec_pipe(Shell) \/ exec_logical(Shell) \/ exec_round_brackets(Shell)
  <2>1. /\ P.pc = "exec" /\ n \in Node
        /\ Ast[n].kind \in {"ND_PIPE", "ND_AND_OP", "ND_OR_OP", "ND_RND_BRACKET"}
    BY <1>1, <1>10, exec_pipeDoes, exec_logicalDoes, exec_round_bracketsDoes
  <2>2. \/ Gone(Q)
        \/ At(Q, "exec", Ast[n].left) /\ Q.fd_num = P.fd_num /\ Q.head_node = P.head_node
    BY <1>1, <1>10, exec_pipeDoes, exec_logicalDoes, exec_round_bracketsDoes
       DEF SameFiles, SameFlags
  <2>3. Ast[n].left \in Node /\ Ast[n].left # 0
    BY <2>1, NodeShape, Nodes
  <2>4. Root[Ast[n].left] = Root[n] /\ First[Ast[n].left] = First[n]
    <3>1. Parent[Ast[n].left] = n /\ n # 0
      BY <2>1, <2>3, LeftChild, Nodes
    <3> QED BY <2>1, <2>3, <3>1, SameTree, Order
  <2> QED BY <1>6, <2>1, <2>2, <2>4 DEF ShellAt, ReadyFrom, At
<1>11. CASE exec_redirect(Shell) \/ exec_cmd_here(Shell) \/ exec_cmd_forked(Shell)
  <2>1. /\ P.pc = "exec" /\ n \in Node /\ Ast[n].kind \in {"ND_CMD", "ND_REDIRECTS"}
    BY <1>1, <1>11, exec_redirectDoes, exec_cmd_hereDoes, exec_cmd_forkedDoes
  <2>2. \/ Gone(Q)
        \/ /\ Q.pc \in {"redirect", "cmd", "return"} /\ Q.node = n
           /\ Q.fd_num = P.fd_num /\ Q.head_node = P.head_node
    <3>1. CloseHeredoc(reset_parent_process_fd(P)).fd_num = P.fd_num
      BY <1>1, ResetDoes, CloseHeredocDoes DEF OnlyFds
    <3> QED BY <1>1, <1>11, <3>1, exec_redirectDoes, exec_cmd_hereDoes, exec_cmd_forkedDoes
            DEF SameFiles, SameFlags, At
  <2>3. First[n] \in Nat /\ First[n] <= n + 1
    BY <1>3, <2>1, Order
  <2>4. CASE ~ Gone(Q)
    <3>1. ReadyFrom(P, First[n])
      BY <2>1 DEF ShellAt
    <3>2. ReadyFrom(Q, n + 1)
      BY <1>3, <2>1, <2>2, <2>3, <2>4, <3>1, ReadySame
    <3> QED BY <2>1, <2>2, <2>4, <3>2 DEF ShellAt
  <2> QED BY <1>6, <2>4
<1>12. CASE ChildSetup(Shell)
  BY <1>12 DEF ChildSetup, ShellRuns
<1>13. CASE exec_cmd(Shell) \/ exec_cmd_with_heredoc(Shell) \/ apply_redirects(Shell)
            \/ run_builtin(Shell)
  <2>1. P.pc \in {"cmd", "redirect", "builtin"} /\ n \in Node
    BY <1>1, <1>13, exec_cmdDoes, apply_redirectsDoes, run_builtinDoes
  <2>2. ReadyFrom(P, n + 1) /\ Root[n] = P.head_node
    BY <2>1 DEF ShellAt
  <2>3. CASE ~ Gone(Q)
    <3>1. /\ Q.pc \in {"return", "redirect", "builtin", "program"} /\ Q.node = n
          /\ Q.head_node = P.head_node
      BY <1>1, <1>13, <2>3, exec_cmdDoes, apply_redirectsDoes, run_builtinDoes
         DEF Expanded, Redirected, SameFlags, At
    <3>2. \A m \in RedirectNode : n + 1 <= m => Q.fd_num[m] = P.fd_num[m]
      <4>1. CASE exec_cmd(Shell) \/ exec_cmd_with_heredoc(Shell)
        <5>1. \/ Q.fd_num = P.fd_num
              \/ \E fd : Q.fd_num = [P.fd_num EXCEPT ![Ast[n].left] = fd]
          BY <1>1, <2>3, <4>1, exec_cmdDoes DEF NewBody, SameFiles
        <5>2. \A m \in RedirectNode : n + 1 <= m => m # Ast[n].left
          BY <2>1, Order, Nodes DEF RedirectNode
        <5> QED BY <1>2, <5>1, <5>2
      <4>2. CASE apply_redirects(Shell)
        <5> DEFINE A == Applied(P)
        <5>1. A \in Process /\ (\/ A.fd_num = P.fd_num
                                \/ A.fd_num = [P.fd_num EXCEPT ![ListOf(P)] = -1])
          BY <1>1, AppliedDoes
        <5>2. Q.fd_num = A.fd_num
          <6>1. restore_std_fds(A).fd_num = A.fd_num
            BY <5>1, RestoreDoes DEF OnlyFds
          <6> HIDE DEF A
          <6>2. SameFiles(A, Q) \/ SameFiles(restore_std_fds(A), Q)
            BY <1>1, <2>3, <4>2, apply_redirectsDoes DEF Redirected, A
          <6> QED BY <6>1, <6>2 DEF SameFiles
        <5>3. \A m \in RedirectNode : n + 1 <= m => m # ListOf(P)
          BY <2>1, Order, Nodes DEF RedirectNode, ListOf
        <5> QED BY <1>2, <5>1, <5>2, <5>3
      <4>3. CASE run_builtin(Shell)
        <5>1. restore_std_fds(P).fd_num = P.fd_num
          BY <1>1, RestoreDoes DEF OnlyFds
        <5> QED BY <1>1, <2>3, <4>3, <5>1, run_builtinDoes DEF SameFiles
      <4> QED BY <1>13, <4>1, <4>2, <4>3
    <3>3. ReadyFrom(Q, n + 1)
      <4>1. n + 1 \in Nat /\ n + 1 <= n + 1 /\ ReadyFrom(P, n + 1) /\ Q.head_node = P.head_node
        BY <1>3, <2>1, <2>2, <3>1
      <4> DEFINE b == n + 1
      <4> HIDE DEF P, Q, b
      <4>2. ReadyFrom(Q, b)
        BY <3>2, <4>1, ReadyBefore DEF b
      <4> QED BY <4>2 DEF b
    <3> QED BY <2>2, <3>1, <3>3 DEF ShellAt
  <2> QED BY <1>6, <2>3
<1>14. CASE RunsOn(Shell)
  BY <1>1, <1>6, <1>14, RunsOnDoes DEF ShellRuns, At, SameFlags, SameFiles, ShellAt, ReadyFrom
<1>15. CASE ReturnFromRight(Shell) \/ ReturnAndWait(Shell)
  <2> DEFINE m == Parent[n]
  <2>1. /\ P.pc = "return" /\ n \in Node /\ Q.node = m
        /\ Q.fd_num = P.fd_num /\ Q.head_node = P.head_node
        /\ \/ m # 0 /\ Q.pc = "return"
           \/ Q.pc \in {"wait", "decide"} /\ (m # 0 => Ast[m].left = n)
    BY <1>1, <1>15, ReturnFromRightDoes, ReturnAndWaitDoes DEF SameFiles, SameFlags, At
  <2>2. ReadyFrom(P, n + 1) /\ Root[n] = P.head_node
    BY <2>1 DEF ShellAt
  <2>3. CASE m # 0
    <3>1. m \in Node /\ n < m /\ m \in Nat /\ m + 1 \in Nat /\ n + 1 <= m + 1 /\ Root[m] = Root[n]
      BY <1>3, <2>1, <2>3, ParentChild, SameTree, Order
    <3> HIDE DEF m
    <3>2. CASE Q.pc = "return"
      <4>1. ReadyFrom(Q, m + 1)
        BY <1>3, <2>1, <2>2, <3>1, ReadySame
      <4> QED BY <2>1, <2>2, <3>1, <3>2, <4>1 DEF ShellAt
    <3>3. CASE Q.pc \in {"wait", "decide"}
      <4>1. Ast[m].left + 1 = n + 1
        BY <2>1, <2>3, <3>3
      <4>2. ReadyFrom(Q, Ast[m].left + 1)
        BY <1>3, <2>1, <2>2, <4>1, ReadySame
      <4> QED BY <2>1, <2>2, <3>1, <3>3, <4>2 DEF ShellAt
    <3> QED BY <2>1, <3>2, <3>3
  <2>4. CASE m = 0
    BY <2>1, <2>4 DEF ShellAt
  <2> QED BY <2>3, <2>4
<1>16. CASE ReturnFromPipeLeft(Shell)
  <2> DEFINE m == Parent[n]
             r == Ast[m].right
  <2>1. /\ P.pc = "return" /\ n \in Node /\ m # 0 /\ Ast[m].left = n /\ Ast[m].kind = "ND_PIPE"
        /\ At(Q, "exec", r) /\ Q.fd_num = P.fd_num /\ Q.head_node = P.head_node
    BY <1>1, <1>16, ReturnFromPipeLeftDoes DEF SameFlags
  <2>2. m \in Node /\ Root[n] = Root[m]
    BY <2>1, ParentChild, SameTree
  <2>3. r \in Node /\ r # 0
    <3> HIDE DEF m
    <3> QED BY <2>1, <2>2, NodeShape, Nodes
  <2>4. Root[r] = Root[m] /\ First[r] = n + 1
    <3> HIDE DEF m
    <3>1. Parent[r] = m
      BY <2>2, <2>3, RightChild
    <3>2. Root[r] = Root[m]
      BY <2>1, <2>3, <3>1, SameTree
    <3>3. First[r] = Ast[m].left + 1
      BY <2>2, <2>3, Order
    <3> QED BY <2>1, <3>2, <3>3
  <2>5. ReadyFrom(P, n + 1) /\ Root[n] = P.head_node
    BY <2>1 DEF ShellAt
  <2> QED BY <2>1, <2>2, <2>4, <2>5 DEF ShellAt, ReadyFrom, At
<1>17. CASE WaitChild(Shell) \/ WaitNoChild(Shell)
  BY <1>1, <1>17, WaitDoes DEF ShellAt, ReadyFrom, SameFlags, SameFiles
<1>18. CASE exec_and_node(Shell) \/ exec_or_node(Shell) \/ EndOfBrackets(Shell)
  <2> DEFINE r == Ast[n].right
  <2>1. /\ P.pc = "decide" /\ n \in Node /\ Q.fd_num = P.fd_num /\ Q.head_node = P.head_node
        /\ \/ At(Q, "return", n)
           \/ At(Q, "exec", r) /\ Ast[n].kind \in {"ND_AND_OP", "ND_OR_OP"}
    BY <1>1, <1>18, DecideDoes, EndOfBracketsDoes DEF SameFlags, SameFiles
  <2>2. n # 0 /\ ReadyFrom(P, Ast[n].left + 1) /\ Root[n] = P.head_node
    BY <2>1, Nodes DEF ShellAt
  <2>3. CASE At(Q, "return", n)
    <3>1. ReadyFrom(Q, n + 1)
      BY <1>3, <2>1, <2>2, ReadySame
    <3> QED BY <2>2, <2>1, <2>3, <3>1 DEF ShellAt, At
  <2>4. CASE At(Q, "exec", r) /\ Ast[n].kind \in {"ND_AND_OP", "ND_OR_OP"}
    <3>1. r \in Node /\ r # 0
      BY <2>1, <2>4, NodeShape, Nodes
    <3>2. Root[r] = Root[n] /\ First[r] = Ast[n].left + 1
      BY <2>1, <2>2, <3>1, RightChild, SameTree, Order
    <3> QED BY <2>1, <2>2, <2>4, <3>2 DEF ShellAt, ReadyFrom, At
  <2> QED BY <2>1, <2>3, <2>4
<1>19. CASE EndOfLine(Shell) \/ EndOfInput(Shell)
  BY <1>1, <1>6, <1>19, EndOfLineDoes, EndOfInputDoes DEF ShellAt
<1> QED BY <1>1, <1>4, <1>5, <1>7, <1>8, <1>9, <1>10, <1>11, <1>12, <1>13, <1>14,
           <1>15, <1>16, <1>17, <1>18, <1>19, Happens DEF Advances, Step, RunsOn

\* Where no heredoc is superseded, no other process comes to the prompt.
LEMMA KidKept ==
    ASSUME NoneSuperseded, TypeOK, [Next]_vars, NEW r \in Proc \ {Shell},
           ShellAt(proc[Shell]), \A p \in Proc : Steady(proc[p]),
           Listed(proc[r]), \A p \in Proc \ {Shell} : Kid(proc[p])
    PROVE  Kid(proc'[r])
<1> DEFINE P == proc[r]
           Q == proc'[r]
           n == P.node
           l == Ast[n].left
<1>1. r \in Proc /\ P \in Process /\ Kid(P) /\ P.fd_num \in [RedirectNode -> FdOrNone]
  BY Here DEF Process
<1>2. CASE Aside(P, Q)
  <2>1. CASE Gone(Q)
    BY <2>1 DEF Gone, Kid
  <2>2. CASE Alike(P, Q)
    BY <1>1, <2>2 DEF Alike, At, SameFlags, SameFiles, Kid, GivenHeredoc
  <2> QED BY <1>2, <2>1, <2>2 DEF Aside
<1>3. CASE Gone(Q)
  BY <1>3 DEF Gone, Kid
<1>4. CASE NewChild(r)
  <2>1. PICK p \in Proc \ {r} : ForkOf(proc[p], Q)
    BY <1>4 DEF NewChild
  <2> DEFINE F == proc[p]
  <2>2. p = Shell
    BY <2>1 DEF ForkOf, Kid
  <2>3. F.pc = "exec" /\ F.node \in Node /\ Ast[F.node].kind = "ND_CMD"
        /\ At(Q, "child", F.node) /\ Q.fd_num = F.fd_num
    BY <2>1 DEF ForkOf, SameFiles
  <2>4. GivenHeredoc(F)
    <3> DEFINE k == Ast[F.node].left
    <3>1. CASE k # 0 /\ Ast[k].redirects[1].op = "<<"
      <4>1. k \in RedirectNode /\ k \in Node /\ Parent[k] = F.node /\ First[F.node] = k
            /\ F.node # 0 /\ k <= k
        BY <2>3, <3>1, NodeShape, LeftChild, Order DEF RedirectNode
      <4>2. Root[k] = F.head_node
        BY <2>2, <2>3, <4>1, SameTree DEF ShellAt
      <4>3. is_heredoc_end(k)
        BY <2>3, <3>1 DEF NoneSuperseded
      <4>4. HeredocOps(k) # {}
        <5>1. Ast[k].redirects \in Seq(Redirect) /\ Ast[k].redirects # << >>
          <6>1. WellFormed(k) /\ Ast[k].kind = "ND_REDIRECTS"
            BY <4>1, AstAssumption DEF RedirectNode
          <6> QED BY <4>1, <6>1, NodeShape DEF WellFormed
        <5>2. 1 \in DOMAIN Ast[k].redirects
          BY <5>1
        <5> QED BY <3>1, <5>2 DEF HeredocOps
      <4>5. ReadyFrom(F, k)
        BY <2>2, <2>3, <4>1 DEF ShellAt
      <4> QED BY <4>1, <4>2, <4>3, <4>4, <4>5 DEF ReadyFrom, KeptHeredoc, GivenHeredoc
    <3> QED BY <3>1 DEF GivenHeredoc
  <2> QED BY <2>3, <2>4 DEF Kid, GivenHeredoc, At
<1>5. CASE ChildSetup(r)
  BY <1>1, <1>5, ChildSetupDoes DEF Kid, GivenHeredoc, At
<1>6. CASE exec_cmd(r) \/ exec_cmd_with_heredoc(r)
  <2>1. /\ P.pc = "cmd" /\ n \in Node /\ Ast[n].kind = "ND_CMD"
        /\ \/ Gone(Q)
           \/ /\ Q.node = n /\ Expanded(P, Q) /\ SameFlags(P, Q)
              /\ SameFiles(P, Q) \/ NewBody(P, Q)
    BY <1>6, exec_cmdDoes
  <2>2. P.is_exec_in_child_ps /\ GivenHeredoc(P)
    BY <1>1, <2>1 DEF Kid
  <2>3. CASE ~ Gone(Q)
    <3>1. Q.pc \in {"redirect", "builtin", "program"} /\ Q.node = n /\ Q.is_exec_in_child_ps
          /\ (Q.pc = "redirect" => Q.i = 1 /\ l # 0)
      BY <2>1, <2>2, <2>3 DEF Expanded, SameFlags
    <3>2. GivenHeredoc(Q)
      <4>1. CASE SameFiles(P, Q)
        BY <2>2, <3>1, <4>1 DEF GivenHeredoc, SameFiles
      <4>2. CASE NewBody(P, Q)
        <5>1. PICK fd \in FreeFds(P) : Q.fd_num = [P.fd_num EXCEPT ![l] = fd]
          BY <4>2 DEF NewBody
        <5>2. Std(P)
          BY <2>1 DEF Steady, Gone
        <5>3. fd > 2
          BY <5>1, <5>2, FreeIsNum, NumIs
        <5>4. l # 0 => Q.fd_num[l] > 2
          BY <1>1, <2>1, <5>1, <5>3, NodeShape
        <5> QED BY <3>1, <5>4 DEF GivenHeredoc
      <4> QED BY <2>1, <2>3, <4>1, <4>2
    <3> QED BY <2>1, <3>1, <3>2 DEF Kid
  <2> QED BY <1>3, <2>3
<1>7. CASE apply_redirects(r)
  <2> DEFINE A == Applied(P)
  <2>1. P.pc = "redirect" /\ n \in Node /\ P.is_exec_in_child_ps /\ Ast[n].kind = "ND_CMD"
        /\ l # 0 /\ (P.last_status = 0 \/ (P.i = 1 /\ GivenHeredoc(P)))
    BY <1>1, <1>7 DEF apply_redirects, Kid, Listed
  <2>2. \/ Gone(Q)
        \/ Redirected(P, A, Q) /\ SameFlags(P, Q)
    BY <1>7, apply_redirectsDoes
  <2>3. Operator(P).op = "<<" => A.last_status = 0
    <3>1. ListOf(P) = l
      BY <2>1 DEF ListOf
    <3>2. /\ Operator(P).op = "<<" /\ P.fd_num[l] > 2 => A.last_status = 0
          /\ Operator(P).op = "<<" /\ ~ (P.fd_num[l] > 2) => A = P
      BY <1>1, <3>1, AppliedDoes
    <3>3. P.last_status # 0 /\ Operator(P).op = "<<" => P.fd_num[l] > 2
      BY <2>1, <3>1 DEF GivenHeredoc, Operator
    <3> QED BY <3>2, <3>3
  <2> HIDE DEF A
  <2>4. CASE ~ Gone(Q)
    <3>1. Q.node = n /\ Q.is_exec_in_child_ps
          /\ ((Q.pc = "redirect" /\ Q.last_status = 0) \/ Q.pc \in {"builtin", "program"})
      BY <2>1, <2>2, <2>3, <2>4 DEF Redirected, SameFlags, At
    <3> QED BY <2>1, <3>1 DEF Kid
  <2> QED BY <1>3, <2>4
<1>8. CASE run_builtin(r)
  <2>1. P.pc = "builtin" /\ (Gone(Q) \/ ~ P.is_exec_in_child_ps)
    BY <1>8, run_builtinDoes
  <2> QED BY <1>1, <1>3, <2>1 DEF Kid
<1>9. CASE RunsOn(r)
  BY <1>1, <1>3, <1>9, RunsOnDoes DEF Kid, At, SameFlags
<1>10. ASSUME \/ ReadLine(r) \/ EndOfInput(r) \/ Heredoc(r) \/ HeredocsRead(r) \/ exec_pipe(r)
              \/ exec_logical(r) \/ exec_round_brackets(r) \/ exec_redirect(r)
              \/ exec_cmd_here(r) \/ exec_cmd_forked(r) \/ ReturnFromRight(r)
              \/ ReturnFromPipeLeft(r) \/ ReturnAndWait(r) \/ WaitChild(r) \/ WaitNoChild(r)
              \/ exec_and_node(r) \/ exec_or_node(r) \/ EndOfBrackets(r) \/ EndOfLine(r)
       PROVE  FALSE
  <2>1. P.pc \in {"prompt", "heredoc", "exec", "return", "wait", "decide"}
    BY <1>10 DEF ReadLine, EndOfInput, Heredoc, HeredocsRead, exec_pipe, exec_logical,
       exec_round_brackets, exec_redirect, exec_cmd_here, exec_cmd_forked, AtNode,
       ReturnFromRight, ReturnFromPipeLeft, ReturnAndWait, WaitChild, WaitNoChild, exec_and_node,
       exec_or_node, EndOfBrackets, EndOfLine, Deciding
  <2> QED BY <1>1, <2>1 DEF Kid
<1> QED BY <1>2, <1>4, <1>5, <1>6, <1>7, <1>8, <1>9, <1>10, Happens DEF Advances, Step, RunsOn

\* What holds of every process, and of the shell.
Sound == /\ ShellRuns(proc[Shell]) /\ ShellAt(proc[Shell])
         /\ \A p \in Proc : Listed(proc[p]) /\ Steady(proc[p])

\* Sound holds at the start,
LEMMA SoundFirst ==
    ASSUME Init
    PROVE  Sound
<1>1. proc[Shell] = init_ctx /\ proc[Shell].pc = "prompt"
  BY ShellStarts
<1>2. ShellRuns(proc[Shell]) /\ ShellAt(proc[Shell])
  BY <1>1 DEF ShellRuns, ShellAt
<1>3. Steady(init_ctx)
  <2>1. \A fd \in 0 .. 2 : init_ctx.fds[fd] # Closed
    BY NumIs DEF init_ctx, NoProcess, Closed, Tty
  <2>2. /\ init_ctx.stored_stdin = -1 /\ init_ctx.stored_stdout = -1
        /\ init_ctx.in_pipe_fd = -1 /\ init_ctx.out_pipe_fd = -1 /\ init_ctx.pre_in_pipe_fd = -1
        /\ \A m \in RedirectNode : init_ctx.fd_num[m] = -1
    BY DEF init_ctx, NoProcess, NoHeredocs
  <2> QED BY <2>1, <2>2, NumIs DEF Steady, Std
<1>4. NoProcess.pc = "free"
  BY DEF NoProcess
<1>5. \A p \in Proc : proc[p] = init_ctx \/ proc[p] = NoProcess
  BY DEF Init
<1>6. init_ctx.pc = "prompt"
  BY <1>1
<1>7. \A p \in Proc : Listed(proc[p]) /\ Steady(proc[p])
  BY <1>3, <1>4, <1>5, <1>6 DEF Listed, Steady, Gone
<1> QED BY <1>2, <1>7 DEF Sound

\* and every step keeps it.
LEMMA SoundKept ==
    ASSUME TypeOK, [Next]_vars, Sound
    PROVE  Sound'
<1>1. Shell \in Proc
  BY BoundsAssumption DEF Shell, Proc
<1>2. ShellRuns(proc'[Shell])
  BY ShellRunsKept DEF Sound
<1>3. ShellAt(proc'[Shell])
  BY <1>1, ShellAtKept DEF Sound
<1>4. \A p \in Proc : Listed(proc'[p])
  BY ListedKept DEF Sound
<1>5. \A p \in Proc : Steady(proc'[p])
  BY SteadyKept DEF Sound
<1> QED BY <1>2, <1>3, <1>4, <1>5 DEF Sound

\* At the start there are no children,
LEMMA KidsFirst ==
    ASSUME Init
    PROVE  \A p \in Proc \ {Shell} : Kid(proc[p])
<1>1. NoProcess.pc = "free"
  BY DEF NoProcess
<1>2. \A p \in Proc \ {Shell} : proc[p] = NoProcess
  BY DEF Init
<1> QED BY <1>1, <1>2 DEF Kid

\* and no step makes one of them anything but a child.
LEMMA KidsKept ==
    ASSUME NoneSuperseded, TypeOK, [Next]_vars, Sound, \A p \in Proc \ {Shell} : Kid(proc[p])
    PROVE  \A p \in Proc \ {Shell} : Kid(proc'[p])
<1>1. ASSUME NEW p \in Proc \ {Shell} PROVE Kid(proc'[p])
  BY <1>1, KidKept DEF Sound
<1> QED BY <1>1

\* OneShell: when no command's first redirect is a heredoc that a later input
\* replaces, only the process that was started ever comes to the prompt.  (Such
\* a heredoc makes apply_redirects end with the status of an earlier command.)
THEOREM OnlyOneShell ==
    ASSUME NoneSuperseded
    PROVE  Spec => []OneShell
<1> DEFINE Kids == \A p \in Proc \ {Shell} : Kid(proc[p])
<1>1. Init => Sound /\ Kids
  BY SoundFirst, KidsFirst
<1>2. TypeOK /\ [Next]_vars /\ Sound /\ Kids => Sound' /\ Kids'
  BY SoundKept, KidsKept
<1>3. Kids => OneShell
  BY DEF Kid, OneShell
<1> QED BY <1>1, <1>2, <1>3, TypeCorrect, PTL DEF Spec

(***************************************************************************)
(* The shell's descriptors.                                                *)
(***************************************************************************)
\* Lines whose redirects leave nothing behind: no heredocs; a builtin that has
\* redirects succeeds, and only the first of them may fail to open; redirects
\* without a command stand outside brackets and pipelines; and no pipe leads
\* away from brackets.
Tidy ==
    /\ \A n \in RedirectNode : HeredocOps(n) = {}
    /\ \A n \in RedirectNode :
         LET m == Parent[n]
         IN  IF m # 0 /\ Ast[m].kind = "ND_CMD"
             THEN Ast[m].cmd.typed =>
                    /\ Ast[m].cmd.status = 0
                    /\ \A i \in DOMAIN Ast[n].redirects :
                         i > 1 => Ast[n].redirects[i].file = "ok"
             ELSE ~ InSubshell[n]
    /\ Bracket \cap PipeLeft = {}

\* A list of redirects is never empty.
LEMMA FirstOperator ==
    ASSUME NEW n \in RedirectNode
    PROVE  1 \in DOMAIN Ast[n].redirects
<1>1. n \in Node /\ Ast[n].kind = "ND_REDIRECTS"
  BY DEF RedirectNode
<1>2. WellFormed(n) /\ Ast[n].redirects \in Seq(Redirect)
  BY <1>1, AstAssumption, NodeShape
<1>3. Ast[n].redirects # << >>
  BY <1>1, <1>2 DEF WellFormed
<1> QED BY <1>2, <1>3

\* A line without heredocs has none that could be superseded.
LEMMA TidyGives ==
    ASSUME Tidy
    PROVE  NoneSuperseded
<1>1. ASSUME NEW m \in Node, Ast[m].kind = "ND_CMD", Ast[m].left # 0
      PROVE  Ast[Ast[m].left].redirects[1].op # "<<"
  <2>1. Ast[m].left \in RedirectNode
    BY <1>1, NodeShape
  <2>2. 1 \in DOMAIN Ast[Ast[m].left].redirects
    BY <2>1, FirstOperator
  <2> QED BY <2>1, <2>2 DEF Tidy, HeredocOps
<1> QED BY <1>1 DEF NoneSuperseded

OnTty(P) == P.fds[0] = Tty /\ P.fds[1] = Tty

\* The shell holds nothing but what its context names.
Held(P) == {P.stored_stdin, P.stored_stdout, P.in_pipe_fd, P.out_pipe_fd, P.pre_in_pipe_fd}
Files(P) == /\ P.fd_num = NoHeredocs
            /\ P.fds[0] \in {Tty, File} /\ P.fds[1] \in {Tty, File} /\ P.fds[2] = Tty
            /\ \A fd \in FD \ Held(P) : fd > 2 => P.fds[fd] = Closed
Saved(P) == \A fd \in {P.stored_stdin, P.stored_stdout} : fd # -1 /\ P.fds[fd] = Tty
NotSaved(P) == P.stored_stdin = -1 /\ P.stored_stdout = -1

\* Both ends of the next pipe, and the end to read the last one from.
Piped(P) == /\ P.in_pipe_fd # -1 /\ P.out_pipe_fd \notin {-1, STDOUT_FILENO}
            /\ P.in_pipe_fd # P.pre_in_pipe_fd
            /\ \E k \in Pipe : /\ P.fds[P.in_pipe_fd] = ReadEnd(k)
                               /\ P.fds[P.out_pipe_fd] = WriteEnd(k)
Unpiped(P) == P.in_pipe_fd = -1 /\ P.out_pipe_fd \in {-1, STDOUT_FILENO}
Fed(P) == \E k \in Pipe : P.fds[P.pre_in_pipe_fd] = ReadEnd(k)

\* Where the C code of the shell may be, with redirects applied.
Redirecting(P) == \/ P.pc = "redirect" /\ P.i > 1 /\ FreeFds(P) # {}
                  \/ P.pc = "builtin" /\ Ast[P.node].cmd.status = 0
Begins(P) == P.pc = "exec" /\ P.node \in PipeLeft
Feeding(P) == \/ P.pc = "exec" /\ InSubshell[P.node]
              \/ P.pc = "return" /\ P.node \in PipeLeft

Wires(P) ==
    /\ Files(P)
    /\ OnTty(P) \/ Redirecting(P)
    /\ IF P.pc = "prompt" THEN NotSaved(P) ELSE Saved(P)
    /\ IF Begins(P) THEN P.is_exec_in_child_ps /\ Piped(P) ELSE Unpiped(P)
    /\ P.pre_in_pipe_fd # -1 => P.is_exec_in_child_ps /\ Feeding(P) /\ Fed(P)
    /\ P.pc = "exec" /\ Parent[P.node] # 0 => Ast[Parent[P.node]].kind # "ND_CMD"
    /\ P.pc = "redirect" => P.i \in DOMAIN Ast[ListOf(P)].redirects

\* All of this depends on the files only.
LEMMA WiresFiles ==
    ASSUME NEW P, NEW Q, SameFiles(P, Q)
    PROVE  /\ Files(P) <=> Files(Q)
           /\ OnTty(P) <=> OnTty(Q)
           /\ Saved(P) <=> Saved(Q)
           /\ NotSaved(P) <=> NotSaved(Q)
           /\ Piped(P) <=> Piped(Q)
           /\ Unpiped(P) <=> Unpiped(Q)
           /\ Fed(P) <=> Fed(Q)
           /\ FreeFds(P) = FreeFds(Q)
           /\ P.pre_in_pipe_fd = Q.pre_in_pipe_fd
BY DEF SameFiles, SameHeld, Files, Held, OnTty, Saved, NotSaved, Piped, Unpiped, Fed, FreeFds

\* Where the children of a node stand.
LEMMA LeftIs ==
    ASSUME NEW m \in Node, Ast[m].kind \in {"ND_PIPE", "ND_AND_OP", "ND_OR_OP", "ND_RND_BRACKET"}
    PROVE  /\ Ast[m].left \in Node /\ Parent[Ast[m].left] = m /\ m # 0
           /\ Ast[m].left \in PipeLeft <=> Ast[m].kind = "ND_PIPE"
<1> DEFINE l == Ast[m].left
<1>1. l \in Node /\ l # 0 /\ m # 0
  BY NodeShape, Nodes
<1>2. Parent[l] = m
  BY <1>1, LeftChild
<1>3. ASSUME NEW a \in Node, Ast[a].left = l PROVE a = m
  BY <1>1, <1>2, <1>3, LeftChild
<1> QED BY <1>1, <1>2, <1>3 DEF PipeLeft

\* Only pipes and && and || have a right side, which is no left side of a pipe.
LEMMA RightIs ==
    ASSUME NEW m \in Node, Ast[m].right # 0
    PROVE  /\ Ast[m].right \in Node /\ Parent[Ast[m].right] = m /\ m # 0
           /\ Ast[m].kind \in {"ND_PIPE", "ND_AND_OP", "ND_OR_OP"}
           /\ Ast[m].right \notin PipeLeft /\ Ast[m].left # Ast[m].right
<1> DEFINE r == Ast[m].right
<1>1. r \in Node /\ Parent[r] = m /\ m # 0
  BY RightChild, Nodes
<1>2. WellFormed(m) /\ Ast[m].kind \in Kind
  BY AstAssumption, NodeKind
<1>3. Ast[m].kind \in {"ND_PIPE", "ND_AND_OP", "ND_OR_OP"}
  BY <1>2 DEF WellFormed, Kind
<1>4. Ast[m].left # r
  <2>1. Ast[m].left < r
    BY <1>2, <1>3 DEF WellFormed
  <2>2. r \in Nat
    BY <1>1, Nodes
  <2> QED BY <2>1, <2>2
<1>5. ASSUME r \in PipeLeft PROVE FALSE
  <2>1. PICK a \in Node : Ast[a].left = r
    BY <1>5 DEF PipeLeft
  <2>2. r # 0
    BY <1>1, Nodes
  <2>3. Parent[r] = a
    BY <2>1, <2>2, LeftChild
  <2> QED BY <1>1, <1>4, <2>1, <2>3
<1> QED BY <1>1, <1>3, <1>4, <1>5

\* The left side of a pipe is called by the pipe.
LEMMA PipeLeftParent ==
    ASSUME NEW n \in PipeLeft
    PROVE  n \in Node /\ Parent[n] # 0 /\ Ast[Parent[n]].kind = "ND_PIPE"
<1>1. PICK m \in Node : Ast[m].kind = "ND_PIPE" /\ Ast[m].left = n
  BY DEF PipeLeft
<1> QED BY <1>1, LeftIs

\* What a process that was free is given.
LEMMA TwoMore ==
    ASSUME NEW P \in Process, NEW Q, Std(P), Files(P), Unpiped(P), Saved(P),
           P.pre_in_pipe_fd # -1 => Fed(P),
           NEW a \in FreeFds(P), NEW b \in FreeFds(P), NEW k \in Pipe, a # b,
           Q.fds = [P.fds EXCEPT ![a] = ReadEnd(k), ![b] = WriteEnd(k)],
           Q.in_pipe_fd = a, Q.out_pipe_fd = b, Q.pre_in_pipe_fd = P.pre_in_pipe_fd,
           Q.stored_stdin = P.stored_stdin, Q.stored_stdout = P.stored_stdout,
           Q.fd_num = P.fd_num
    PROVE  /\ Files(Q) /\ Piped(Q) /\ Saved(Q) /\ (Q.pre_in_pipe_fd # -1 => Fed(Q))
           /\ OnTty(P) => OnTty(Q)
<1>1. P.fds \in [FD -> Desc]
  BY DEF Process
<1>2. a \in FD /\ b \in FD /\ P.fds[a] = Closed /\ P.fds[b] = Closed
  BY DEF FreeFds
<1>3. a \in Num /\ b \in Num /\ a # -1 /\ b # -1
  BY FreeIsNum
<1>4. /\ a \notin 0 .. 2 /\ b \notin 0 .. 2 /\ 0 \in FD /\ 1 \in FD /\ 2 \in FD
      /\ 0 \in 0 .. 2 /\ 1 \in 0 .. 2 /\ 2 \in 0 .. 2
  BY <1>3, NumIs
<1>5. Q.fds[0] = P.fds[0] /\ Q.fds[1] = P.fds[1] /\ Q.fds[2] = P.fds[2]
  BY <1>1, <1>4
<1>6. ASSUME NEW fd \in FD, fd # a, fd # b PROVE Q.fds[fd] = P.fds[fd]
  BY <1>1, <1>6
<1>7. Files(Q)
  <2>1. ASSUME NEW fd \in FD \ Held(Q), fd > 2 PROVE Q.fds[fd] = Closed
    <3>1. fd # a /\ fd # b /\ fd \notin {P.stored_stdin, P.stored_stdout, P.pre_in_pipe_fd}
      BY <2>1 DEF Held
    <3>2. fd \notin Held(P)
      BY <2>1, <3>1, Standard DEF Held, Unpiped, STDOUT_FILENO
    <3> QED BY <1>6, <2>1, <3>1, <3>2 DEF Files
  <2> QED BY <1>5, <2>1 DEF Files
<1>8. Piped(Q)
  <2>1. P.pre_in_pipe_fd # a
    <3>1. CASE P.pre_in_pipe_fd # -1
      <4>1. PICK j \in Pipe : P.fds[P.pre_in_pipe_fd] = ReadEnd(j)
        BY <3>1 DEF Fed
      <4> QED BY <1>2, <4>1 DEF ReadEnd, Closed
    <3> QED BY <1>3, <3>1
  <2>2. Q.fds[a] = ReadEnd(k) /\ Q.fds[b] = WriteEnd(k)
    BY <1>1, <1>2
  <2>3. b # STDOUT_FILENO
    BY <1>4 DEF STDOUT_FILENO
  <2> QED BY <1>3, <2>1, <2>2, <2>3 DEF Piped
<1>9. Saved(Q)
  <2>1. ASSUME NEW fd \in {P.stored_stdin, P.stored_stdout} PROVE fd # -1 /\ Q.fds[fd] = Tty
    <3>1. fd # -1 /\ P.fds[fd] = Tty /\ fd \in Num
      BY DEF Saved, Std
    <3>2. fd \in FD
      BY <3>1, NumIs
    <3>3. fd # a /\ fd # b
      BY <1>2, <3>1 DEF Tty, Closed
    <3> QED BY <1>6, <3>1, <3>2, <3>3
  <2> QED BY <2>1 DEF Saved
<1>10. Q.pre_in_pipe_fd # -1 => Fed(Q)
  <2>1. SUFFICES ASSUME P.pre_in_pipe_fd # -1 PROVE Fed(Q)
    OBVIOUS
  <2>2. PICK j \in Pipe : P.fds[P.pre_in_pipe_fd] = ReadEnd(j)
    BY <2>1 DEF Fed
  <2>3. P.pre_in_pipe_fd \in FD
    BY <2>1, NumIs DEF Std
  <2>4. P.pre_in_pipe_fd # a /\ P.pre_in_pipe_fd # b
    BY <1>2, <2>2 DEF ReadEnd, Closed
  <2>5. Q.fds[P.pre_in_pipe_fd] = ReadEnd(j)
    BY <1>6, <2>2, <2>3, <2>4
  <2> QED BY <2>5 DEF Fed
<1>11. OnTty(P) => OnTty(Q)
  BY <1>5 DEF OnTty
<1> QED BY <1>7, <1>8, <1>9, <1>10, <1>11

\* What the parent of a command keeps: the end the next command reads from.
LEMMA ParentKeeps ==
    ASSUME NEW P \in Process, Std(P), Files(P), OnTty(P), Saved(P), P.node \in Node,
           Ast[P.node].kind = "ND_CMD", Piped(P) \/ Unpiped(P),
           P.pre_in_pipe_fd # -1 => Fed(P)
    PROVE  LET D == CloseHeredoc(reset_parent_process_fd(P))
           IN  /\ Files(D) /\ OnTty(D) /\ Saved(D) /\ Unpiped(D)
               /\ D.pre_in_pipe_fd = P.in_pipe_fd
               /\ D.pre_in_pipe_fd # -1 => /\ Fed(D)
                                           /\ D.fds[P.in_pipe_fd] = P.fds[P.in_pipe_fd]
<1> DEFINE R == reset_parent_process_fd(P)
           D == CloseHeredoc(R)
           l == Ast[P.node].left
<1>1. /\ R \in Process /\ R.node = P.node
      /\ R.fds = [fd \in FD |-> IF Dropped(P, fd) THEN Closed ELSE P.fds[fd]]
      /\ R.pre_in_pipe_fd = P.in_pipe_fd /\ R.in_pipe_fd = -1 /\ R.out_pipe_fd = -1
      /\ R.stored_stdin = P.stored_stdin /\ R.stored_stdout = P.stored_stdout
      /\ R.fd_num = P.fd_num
  BY ResetDoes
<1> HIDE DEF R
<1>2. D \in Process /\ OnlyFds(R, D) /\ D.fds = R.fds
  <2>1. /\ D \in Process /\ OnlyFds(R, D)
        /\ D.fds = IF l = 0 THEN R.fds ELSE Refers(R, R.fd_num[l], Closed)
    BY <1>1, CloseHeredocDoes
  <2>2. l # 0 => R.fd_num[l] = -1
    BY <1>1, NodeShape DEF Files, NoHeredocs
  <2>3. -1 \notin FD /\ R.fds \in [FD -> Desc]
    BY <1>1, Standard DEF Process
  <2>4. Refers(R, -1, Closed) = R.fds
    BY <2>3 DEF Refers
  <2> QED BY <2>1, <2>2, <2>4
<1>3. SameFiles(R, D)
  BY <1>2 DEF SameFiles, OnlyFds
<1>4. \A fd \in 0 .. 2 : fd \in FD /\ ~ Dropped(P, fd)
  BY NumIs DEF Std, Dropped
<1>5. R.fds[0] = Tty /\ R.fds[1] = Tty /\ R.fds[2] = Tty
  BY <1>1, <1>4 DEF OnTty, Files
<1>6. ASSUME NEW fd \in FD, P.fds[fd] = Tty PROVE R.fds[fd] = Tty
  <2>1. ~ Dropped(P, fd)
    <3>1. fd # P.pre_in_pipe_fd
      <4>1. fd # -1
        BY Standard
      <4>2. P.pre_in_pipe_fd # -1 => P.fds[P.pre_in_pipe_fd] # Tty
        BY DEF Fed, ReadEnd, Tty
      <4> QED BY <1>6, <4>1, <4>2
    <3>2. fd = P.out_pipe_fd => fd = STDOUT_FILENO
      <4>1. fd # -1
        BY Standard
      <4>2. Piped(P) => P.fds[P.out_pipe_fd] # Tty
        BY DEF Piped, WriteEnd, Tty
      <4> QED BY <1>6, <4>1, <4>2 DEF Unpiped
    <3> QED BY <3>1, <3>2 DEF Dropped
  <2> QED BY <1>1, <1>6, <2>1
<1>7. Saved(R)
  <2>1. ASSUME NEW fd \in {P.stored_stdin, P.stored_stdout} PROVE fd # -1 /\ R.fds[fd] = Tty
    <3>1. fd # -1 /\ P.fds[fd] = Tty /\ fd \in Num
      BY DEF Saved, Std
    <3> QED BY <1>6, <3>1, NumIs
  <2> QED BY <1>1, <2>1 DEF Saved
<1>8. Files(R)
  <2>1. ASSUME NEW fd \in FD \ Held(R), fd > 2 PROVE R.fds[fd] = Closed
    <3>1. CASE Dropped(P, fd)
      BY <1>1, <3>1
    <3>2. CASE ~ Dropped(P, fd)
      <4>1. fd # P.pre_in_pipe_fd /\ fd # P.out_pipe_fd
        BY <2>1, <3>2 DEF Dropped, STDIN_FILENO, STDOUT_FILENO
      <4>2. fd \notin Held(P)
        BY <1>1, <2>1, <4>1 DEF Held
      <4> QED BY <1>1, <2>1, <3>2, <4>2 DEF Files
    <3> QED BY <3>1, <3>2
  <2> QED BY <1>1, <1>5, <2>1 DEF Files
<1>9. R.pre_in_pipe_fd # -1 => Fed(R) /\ R.fds[P.in_pipe_fd] = P.fds[P.in_pipe_fd]
  <2>1. SUFFICES ASSUME P.in_pipe_fd # -1
                 PROVE  Fed(R) /\ R.fds[P.in_pipe_fd] = P.fds[P.in_pipe_fd]
    BY <1>1
  <2>2. Piped(P)
    BY <2>1 DEF Unpiped
  <2>3. PICK k \in Pipe : /\ P.fds[P.in_pipe_fd] = ReadEnd(k)
                          /\ P.fds[P.out_pipe_fd] = WriteEnd(k)
    BY <2>2 DEF Piped
  <2>4. P.in_pipe_fd \in FD
    BY <2>1, NumIs DEF Std
  <2>5. P.in_pipe_fd # P.out_pipe_fd /\ P.in_pipe_fd # P.pre_in_pipe_fd
    BY <2>2, <2>3 DEF Piped, ReadEnd, WriteEnd
  <2>6. R.fds[P.in_pipe_fd] = ReadEnd(k)
    BY <1>1, <2>3, <2>4, <2>5 DEF Dropped
  <2> QED BY <1>1, <2>3, <2>6 DEF Fed
<1>10. OnTty(R) /\ Unpiped(R)
  BY <1>1, <1>5 DEF OnTty, Unpiped
<1>11. D.pre_in_pipe_fd = P.in_pipe_fd
  BY <1>1, <1>3, WiresFiles
<1> HIDE DEF D
<1>12. /\ Files(D) /\ OnTty(D) /\ Saved(D) /\ Unpiped(D)
       /\ D.pre_in_pipe_fd # -1 => Fed(D)
  BY <1>1, <1>3, <1>7, <1>8, <1>9, <1>10, <1>11, WiresFiles
<1>13. D.pre_in_pipe_fd # -1 => D.fds[P.in_pipe_fd] = P.fds[P.in_pipe_fd]
  BY <1>1, <1>2, <1>9, <1>11
<1> QED BY <1>11, <1>12, <1>13 DEF D, R

\* A line starts with the copies of 0 and 1, and without it ends as it began.
LEMMA LineStarts ==
    ASSUME NEW P \in Process, Std(P), Files(P), OnTty(P), NotSaved(P), P.pre_in_pipe_fd = -1,
           Unpiped(P), CanBackup(P)
    PROVE  LET C == clear_ctx(P)
               D == close_stored_fds(C)
           IN  /\ Files(C) /\ OnTty(C) /\ Saved(C) /\ Unpiped(C) /\ C.pre_in_pipe_fd = -1
               /\ Files(D) /\ OnTty(D) /\ NotSaved(D) /\ Unpiped(D) /\ D.pre_in_pipe_fd = -1
<1> DEFINE C == clear_ctx(P)
           D == close_stored_fds(C)
           shut == Shut(P, Old(P))
<1>1. PICK a, b \in FD :
         /\ a # b /\ shut[a] = Closed /\ shut[b] = Closed
         /\ C.fds = [shut EXCEPT ![a] = P.fds[STDIN_FILENO], ![b] = P.fds[STDOUT_FILENO]]
         /\ C.stored_stdin = a /\ C.stored_stdout = b
         /\ C.in_pipe_fd = -1 /\ C.out_pipe_fd = -1 /\ C.pre_in_pipe_fd = -1
         /\ C.fd_num = P.fd_num /\ C \in Process
  BY ClearCtxDoes
<1>2. shut = P.fds
  <2>1. Old(P) = {}
    BY DEF Old, NotSaved
  <2> QED BY <2>1 DEF Shut, Process
<1>3. P.fds \in [FD -> Desc] /\ P.fds[0] = Tty /\ P.fds[1] = Tty /\ P.fds[2] = Tty
  BY DEF OnTty, Files, Process
<1>4. 0 \in FD /\ 1 \in FD /\ 2 \in FD /\ -1 \notin FD
  BY Standard
<1>5. C.fds = [P.fds EXCEPT ![a] = Tty, ![b] = Tty]
  BY <1>1, <1>2, <1>3 DEF STDIN_FILENO, STDOUT_FILENO
<1>6. P.fds[a] = Closed /\ P.fds[b] = Closed /\ Tty # Closed
  BY <1>1, <1>2 DEF Tty, Closed
<1>7. D.fds = P.fds
  <2>1. D.fds = Shut(C, {a, b})
    BY <1>1, CloseStoredDoes
  <2>2. ASSUME NEW fd \in FD PROVE Shut(C, {a, b})[fd] = P.fds[fd]
    BY <1>1, <1>3, <1>5, <1>6 DEF Shut
  <2> QED BY <1>3, <2>1, <2>2 DEF Shut
<1>8. /\ D.stored_stdin = -1 /\ D.stored_stdout = -1 /\ D.fd_num = P.fd_num
      /\ D.in_pipe_fd = -1 /\ D.out_pipe_fd = -1 /\ D.pre_in_pipe_fd = -1
  BY <1>1, CloseStoredDoes
<1>9. ASSUME NEW fd \in FD, fd > 2, fd \notin {P.stored_stdin, P.stored_stdout}
      PROVE  P.fds[fd] = Closed
  BY <1>4, <1>9 DEF Files, Held, Unpiped, STDOUT_FILENO
<1>10. \A fd \in FD : fd > 2 => P.fds[fd] = Closed
  BY <1>4, <1>9 DEF NotSaved
<1> HIDE DEF C, D, shut
<1>11. C.fds[0] = Tty /\ C.fds[1] = Tty /\ C.fds[2] = Tty /\ C.fds[a] = Tty /\ C.fds[b] = Tty
  BY <1>1, <1>3, <1>4, <1>5
<1>12. ASSUME NEW fd \in FD \ {a, b}, fd > 2 PROVE C.fds[fd] = Closed
  BY <1>3, <1>5, <1>10, <1>12
<1>13. Files(C)
  BY <1>1, <1>11, <1>12 DEF Files, Held
<1>14. OnTty(C) /\ Saved(C) /\ Unpiped(C)
  BY <1>1, <1>4, <1>11 DEF OnTty, Saved, Unpiped
<1>15. Files(D)
  BY <1>3, <1>7, <1>8, <1>10 DEF Files, Held
<1>16. OnTty(D) /\ NotSaved(D) /\ Unpiped(D)
  BY <1>3, <1>7, <1>8 DEF OnTty, NotSaved, Unpiped
<1> QED BY <1>1, <1>8, <1>13, <1>14, <1>15, <1>16 DEF C, D

\* restore_std_fds gives the terminal back.
LEMMA TtyRestored ==
    ASSUME NEW P \in Process, Std(P), Files(P), Saved(P), Unpiped(P), P.pre_in_pipe_fd = -1
    PROVE  LET R == restore_std_fds(P)
           IN  Files(R) /\ OnTty(R) /\ Saved(R) /\ Unpiped(R) /\ R.pre_in_pipe_fd = -1
<1> DEFINE R == restore_std_fds(P)
<1>1. P.stored_stdout # STDIN_FILENO
  BY NumIs DEF Std, STDIN_FILENO
<1>2. /\ OnlyFds(P, R)
      /\ R.fds = [fd \in FD |->
            CASE fd = STDIN_FILENO /\ IsOpen(P, P.stored_stdin) -> P.fds[P.stored_stdin]
              [] fd = STDOUT_FILENO /\ IsOpen(P, P.stored_stdout) -> P.fds[P.stored_stdout]
              [] OTHER -> P.fds[fd]]
  BY <1>1, RestoreDoes
<1> HIDE DEF R
<1>3. /\ P.stored_stdin \in FD /\ P.fds[P.stored_stdin] = Tty /\ P.stored_stdin \notin 0 .. 2
      /\ P.stored_stdout \in FD /\ P.fds[P.stored_stdout] = Tty /\ P.stored_stdout \notin 0 .. 2
  BY NumIs DEF Std, Saved
<1>4. IsOpen(P, P.stored_stdin) /\ IsOpen(P, P.stored_stdout)
  BY <1>3 DEF IsOpen, Tty, Closed
<1>5. 0 \in FD /\ 1 \in FD /\ 2 \in FD
  BY Standard
<1>6. R.fds[0] = Tty /\ R.fds[1] = Tty
  BY <1>2, <1>3, <1>4, <1>5 DEF STDIN_FILENO, STDOUT_FILENO
<1>7. ASSUME NEW fd \in FD, fd > 1 PROVE R.fds[fd] = P.fds[fd]
  BY <1>2, <1>7 DEF STDIN_FILENO, STDOUT_FILENO
<1>8. SameHeld(P, R) /\ R.fd_num = P.fd_num
  BY <1>2 DEF OnlyFds
<1>9. Held(R) = Held(P)
  BY <1>8 DEF Held, SameHeld
<1>10. R.fds[2] = Tty
  BY <1>5, <1>7 DEF Files
<1>11. ASSUME NEW fd \in FD \ Held(R), fd > 2 PROVE R.fds[fd] = Closed
  <2>1. fd > 1
    BY <1>11 DEF FD
  <2> QED BY <1>7, <1>9, <1>11, <2>1 DEF Files
<1>12. Files(R) /\ OnTty(R)
  BY <1>6, <1>8, <1>10, <1>11 DEF Files, OnTty
<1>13. Saved(R)
  <2>1. P.stored_stdin > 1 /\ P.stored_stdout > 1
    BY <1>3 DEF FD
  <2> QED BY <1>3, <1>7, <1>8, <2>1, Standard DEF Saved, SameHeld
<1>14. Unpiped(R) /\ R.pre_in_pipe_fd = -1
  BY <1>8 DEF Unpiped, SameHeld
<1> QED BY <1>12, <1>13, <1>14 DEF R

\* A redirect of the shell itself changes 0 or 1, or nothing if it fails.
LEMMA FileApplied ==
    ASSUME NEW P \in Process, Std(P), Files(P), Saved(P), Unpiped(P), P.pre_in_pipe_fd = -1,
           Operator(P).op # "<<"
    PROVE  LET A == Applied(P)
           IN  /\ A \in Process /\ Std(A) /\ Files(A) /\ Saved(A) /\ Unpiped(A)
               /\ A.pre_in_pipe_fd = -1
               /\ FreeFds(A) = FreeFds(P)
               /\ Opens(P) => A.last_status = 0
               /\ ~ Opens(P) => A.last_status # 0 /\ A.fds = P.fds
<1> DEFINE A == Applied(P)
           std == IF Operator(P).op = "<" THEN STDIN_FILENO ELSE STDOUT_FILENO
<1>1. /\ A \in Process /\ SameHeld(P, A) /\ A.fd_num = P.fd_num
      /\ A.fds = IF Opens(P) THEN Refers(P, std, File) ELSE P.fds
      /\ A.last_status = IF Opens(P) THEN 0 ELSE EXIT_FAILURE
  BY AppliedDoes
<1> HIDE DEF A
<1>2. /\ P.fds \in [FD -> Desc] /\ 0 \in FD /\ 1 \in FD /\ 2 \in FD /\ -1 \notin FD
      /\ std \in {0, 1} /\ \A fd \in FD : fd \in Nat
  BY Standard DEF Process, STDIN_FILENO, STDOUT_FILENO, FD
<1> HIDE DEF std
<1>3. ASSUME NEW fd \in FD, fd > 1 PROVE A.fds[fd] = P.fds[fd]
  BY <1>1, <1>2, <1>3 DEF Refers
<1>4. /\ A.fds[0] \in {P.fds[0], File} /\ A.fds[1] \in {P.fds[1], File}
  BY <1>1, <1>2 DEF Refers
<1>5. Held(A) = Held(P)
  BY <1>1 DEF Held, SameHeld
<1>6. \A fd \in FD \ Held(A) : fd > 2 => A.fds[fd] = Closed
  BY <1>2, <1>3, <1>5 DEF Files
<1>7. Files(A)
  BY <1>1, <1>2, <1>3, <1>4, <1>6 DEF Files
<1>8. Saved(A)
  <2>1. ASSUME NEW fd \in {P.stored_stdin, P.stored_stdout} PROVE fd # -1 /\ A.fds[fd] = Tty
    <3>1. fd # -1 /\ P.fds[fd] = Tty /\ fd \in Num
      BY DEF Saved, Std
    <3>2. fd \in FD /\ fd > 2
      BY <3>1, NumIs
    <3> QED BY <1>2, <1>3, <3>1, <3>2
  <2> QED BY <1>1, <2>1 DEF Saved, SameHeld
<1>9. Unpiped(A) /\ A.pre_in_pipe_fd = -1
  BY <1>1 DEF Unpiped, SameHeld
<1>10. ASSUME NEW fd \in FD PROVE A.fds[fd] = Closed <=> P.fds[fd] = Closed
  <2>1. CASE fd > 1
    BY <1>3, <2>1
  <2>2. CASE ~ (fd > 1)
    <3>1. fd = 0 \/ fd = 1
      BY <1>2, <2>2
    <3>2. P.fds[fd] # Closed /\ A.fds[fd] # Closed
      BY <1>4, <3>1 DEF Files, Tty, File, Closed
    <3> QED BY <3>2
  <2> QED BY <2>1, <2>2
<1>11. FreeFds(A) = FreeFds(P)
  BY <1>10 DEF FreeFds
<1>12. Std(A)
  <2>1. \A fd \in 0 .. 2 : fd \in FD /\ P.fds[fd] # Closed
    BY NumIs DEF Std
  <2>2. \A fd \in 0 .. 2 : A.fds[fd] # Closed
    BY <1>10, <2>1
  <2> QED BY <1>1, <2>2, StdFds
<1>13. EXIT_FAILURE # 0
  BY DEF EXIT_FAILURE
<1> QED BY <1>1, <1>7, <1>8, <1>9, <1>11, <1>12, <1>13 DEF A

\* A step of the shell that leaves its files alone.
Stays(P) == ~ Begins(P) /\ OnTty(P) /\ P.pc # "prompt"

\* Going on to another node with the same files keeps Wires.
LEMMA WiresMoved ==
    ASSUME NEW P, NEW Q, SameFiles(P, Q), Wires(P), Stays(P), Q.pc # "prompt", ~ Begins(Q),
           P.pre_in_pipe_fd # -1 => Q.is_exec_in_child_ps /\ Feeding(Q),
           Q.pc = "exec" /\ Parent[Q.node] # 0 => Ast[Parent[Q.node]].kind # "ND_CMD",
           Q.pc = "redirect" => Q.i \in DOMAIN Ast[ListOf(Q)].redirects
    PROVE  Wires(Q)
<1>1. Files(P) /\ OnTty(P) /\ Saved(P) /\ Unpiped(P) /\ (P.pre_in_pipe_fd # -1 => Fed(P))
  BY DEF Wires, Stays
<1>2. Files(Q) /\ OnTty(Q) /\ Saved(Q) /\ Unpiped(Q) /\ (Q.pre_in_pipe_fd # -1 => Fed(Q))
  BY <1>1, WiresFiles
<1>3. Q.pre_in_pipe_fd = P.pre_in_pipe_fd
  BY WiresFiles
<1> QED BY <1>2, <1>3 DEF Wires

\* The operators of the shell's own redirects.
LEMMA RedirectWires ==
    ASSUME Tidy, TypeOK, ShellRuns(proc[Shell]), Listed(proc[Shell]), Std(proc[Shell]),
           Wires(proc[Shell]), apply_redirects(Shell)
    PROVE  Gone(proc'[Shell]) \/ Wires(proc'[Shell])
<1> DEFINE P == proc[Shell]
           Q == proc'[Shell]
           A == Applied(P)
           l == ListOf(P)
           list == Ast[l].redirects
<1>1. Shell \in Proc /\ P \in Process
  BY Here, BoundsAssumption DEF Shell, Proc
<1>2. /\ P.pc = "redirect" /\ P.node \in Node /\ Ast[P.node].kind \in {"ND_CMD", "ND_REDIRECTS"}
      /\ Gone(Q) \/ Redirected(P, A, Q)
  BY <1>1, apply_redirectsDoes
<1>3. l \in RedirectNode
  BY <1>1, <1>2, ListIs DEF Listed
<1>4. P.i \in DOMAIN list /\ P.i \in Nat
  BY <1>1, <1>2 DEF Wires, Process
<1>5. Operator(P) = list[P.i]
  BY DEF Operator
<1>6. Operator(P).op # "<<"
  BY <1>3, <1>4, <1>5 DEF Tidy, HeredocOps
<1>7. Files(P) /\ Saved(P) /\ Unpiped(P) /\ P.pre_in_pipe_fd = -1
  BY <1>2 DEF Wires, Begins, Feeding
<1>8. /\ A \in Process /\ Std(A) /\ Files(A) /\ Saved(A) /\ Unpiped(A)
      /\ A.pre_in_pipe_fd = -1 /\ FreeFds(A) = FreeFds(P)
      /\ Opens(P) => A.last_status = 0
      /\ ~ Opens(P) => A.last_status # 0 /\ A.fds = P.fds
  BY <1>1, <1>6, <1>7, FileApplied
<1>9. Ast[P.node].kind = "ND_CMD" =>
        /\ Ast[P.node].cmd.typed /\ Ast[P.node].cmd.status = 0
        /\ Ast[P.node].cmd.word = "builtin"
        /\ P.i > 1 => Operator(P).file = "ok"
  <2>1. SUFFICES ASSUME Ast[P.node].kind = "ND_CMD"
                 PROVE  /\ Ast[P.node].cmd.typed /\ Ast[P.node].cmd.status = 0
                        /\ Ast[P.node].cmd.word = "builtin"
                        /\ P.i > 1 => Operator(P).file = "ok"
    OBVIOUS
  <2>2. Ast[P.node].cmd.typed /\ l = Ast[P.node].left
    BY <1>2, <2>1 DEF ShellRuns, ListOf
  <2>3. l \in Node /\ l # 0
    BY <1>3, Nodes DEF RedirectNode
  <2>4. Parent[l] = P.node /\ P.node # 0
    BY <1>2, <2>2, <2>3, LeftChild, Nodes
  <2> QED BY <1>2, <1>3, <1>4, <1>5, <2>1, <2>2, <2>4, TypedIsBuiltin DEF Tidy
<1>10. OnTty(P) \/ (P.i > 1 /\ FreeFds(P) # {})
  BY <1>2 DEF Wires, Redirecting
<1>11. Gone(Q) \/ Redirected(P, A, Q)
  BY <1>2
<1> SUFFICES Gone(Q) \/ Wires(Q)
  OBVIOUS
<1> HIDE DEF A, P, Q, l, list
<1>12. CASE /\ P.i # Len(list) /\ At(Q, "redirect", P.node) /\ Q.i = P.i + 1
            /\ SameFiles(A, Q) /\ A.last_status = 0
  <2>1. Opens(P)
    BY <1>8, <1>12
  <2>2. FreeFds(Q) # {}
    BY <1>8, <1>12, <2>1, WiresFiles DEF Opens
  <2>3. Files(Q) /\ Saved(Q) /\ Unpiped(Q) /\ Q.pre_in_pipe_fd = -1
    BY <1>8, <1>12, WiresFiles
  <2>4. list \in Seq(Redirect)
    BY <1>3, NodeShape DEF RedirectNode, list
  <2>5. Q.i > 1 /\ Q.i \in DOMAIN list
    BY <1>4, <1>12, <2>4
  <2>6. ListOf(Q) = l /\ Q.pc = "redirect"
    BY <1>12 DEF ListOf, At, l
  <2> QED BY <2>2, <2>3, <2>5, <2>6 DEF Wires, Redirecting, Begins, list
<1>13. CASE At(Q, "return", P.node) /\ SameFiles(restore_std_fds(A), Q)
  <2>1. LET R == restore_std_fds(A)
        IN  Files(R) /\ OnTty(R) /\ Saved(R) /\ Unpiped(R) /\ R.pre_in_pipe_fd = -1
    BY <1>8, TtyRestored
  <2>2. Files(Q) /\ OnTty(Q) /\ Saved(Q) /\ Unpiped(Q) /\ Q.pre_in_pipe_fd = -1
    BY <1>13, <2>1, WiresFiles
  <2> QED BY <1>13, <2>2 DEF Wires, Begins, At
<1>14. CASE /\ Ast[P.node].kind = "ND_CMD" /\ A.last_status # 0
            /\ At(Q, "return", P.node) /\ SameFiles(A, Q)
  <2>1. ~ Opens(P) /\ A.fds = P.fds
    BY <1>8, <1>14
  <2>2. OnTty(P)
    BY <1>9, <1>10, <1>14, <2>1 DEF Opens
  <2>3. OnTty(A)
    BY <2>1, <2>2 DEF OnTty
  <2>4. Files(Q) /\ OnTty(Q) /\ Saved(Q) /\ Unpiped(Q) /\ Q.pre_in_pipe_fd = -1
    BY <1>8, <1>14, <2>3, WiresFiles
  <2> QED BY <1>14, <2>4 DEF Wires, Begins, At
<1>15. CASE /\ Ast[P.node].kind = "ND_CMD" /\ SameFiles(A, Q)
            /\ At(Q, IF Ast[P.node].cmd.word = "builtin" THEN "builtin" ELSE "program", P.node)
  <2>1. Q.pc = "builtin" /\ Ast[Q.node].cmd.status = 0
    BY <1>9, <1>15 DEF At
  <2>2. Files(Q) /\ Saved(Q) /\ Unpiped(Q) /\ Q.pre_in_pipe_fd = -1
    BY <1>8, <1>15, WiresFiles
  <2> QED BY <2>1, <2>2 DEF Wires, Begins, Redirecting
<1> QED BY <1>12, <1>13, <1>14, <1>15, <1>11 DEF Redirected, l, list

\* What holds of the shell between the steps, and what one step keeps.
Wired(P) == Gone(P) \/ Wires(P)

\* On tidy lines Wires is an invariant of the shell.
LEMMA WiresKept ==
    ASSUME Tidy, TypeOK, [Next]_vars, Sound, Wired(proc[Shell])
    PROVE  Wired(proc'[Shell])
<1> DEFINE P == proc[Shell]
           Q == proc'[Shell]
           n == P.node
           m == Parent[n]
<1>1. Shell \in Proc /\ P \in Process
  BY Here, BoundsAssumption DEF Shell, Proc
<1>2. ShellRuns(P) /\ Listed(P) /\ (Gone(P) \/ Std(P)) /\ (Gone(P) \/ Wires(P))
  BY <1>1 DEF Sound, Steady, Wired
<1>3. CASE Gone(Q)
  BY <1>3 DEF Wired
<1>4. CASE Alike(P, Q)
  <2>1. Gone(P) => Gone(Q)
    BY <1>4 DEF Gone, Alike, At
  <2>2. SUFFICES ASSUME Wires(P) PROVE Wires(Q)
    BY <1>2, <2>1 DEF Wired
  <2>3. Q.pc = P.pc /\ Q.node = n /\ Q.i = P.i /\ Q.is_exec_in_child_ps = P.is_exec_in_child_ps
        /\ SameFiles(P, Q) /\ ListOf(Q) = ListOf(P)
    BY <1>4 DEF Alike, At, SameFlags, ListOf
  <2>4. /\ Files(P) <=> Files(Q)
        /\ OnTty(P) <=> OnTty(Q)
        /\ Saved(P) <=> Saved(Q)
        /\ NotSaved(P) <=> NotSaved(Q)
        /\ Piped(P) <=> Piped(Q)
        /\ Unpiped(P) <=> Unpiped(Q)
        /\ Fed(P) <=> Fed(Q)
        /\ FreeFds(P) = FreeFds(Q)
        /\ P.pre_in_pipe_fd = Q.pre_in_pipe_fd
    BY <2>3, WiresFiles
  <2>5. (Begins(P) <=> Begins(Q)) /\ (Feeding(P) <=> Feeding(Q))
        /\ (Redirecting(P) <=> Redirecting(Q))
    BY <2>3, <2>4 DEF Begins, Feeding, Redirecting
  <2> HIDE DEF P, Q
  <2> QED BY <2>2, <2>3, <2>4, <2>5 DEF Wires
<1>5. CASE NewChild(Shell)
  BY <1>5 DEF NewChild
<1>6. P.pc \notin {"redirect", "builtin"} /\ ~ Gone(P) => OnTty(P)
  BY <1>2 DEF Wires, Redirecting
<1>7. ~ Gone(P) /\ ~ Begins(P) => Unpiped(P)
  BY <1>2 DEF Wires
<1>8. ~ Gone(P) /\ P.pc # "prompt" => Saved(P)
  BY <1>2 DEF Wires
<1>9. ~ Gone(P) /\ ~ Feeding(P) => P.pre_in_pipe_fd = -1
  BY <1>2 DEF Wires
<1>10. CASE ReadLine(Shell)
  <2>1. P.pc = "prompt"
    BY <1>10 DEF ReadLine
  <2>2. /\ Std(P) /\ Files(P) /\ OnTty(P) /\ NotSaved(P) /\ Unpiped(P)
        /\ P.pre_in_pipe_fd = -1
    BY <1>2, <2>1 DEF Gone, Wires, Begins, Feeding, Redirecting
  <2>3. \/ Gone(Q)
        \/ /\ CanBackup(P) /\ Q.pc = "prompt" /\ SameFiles(close_stored_fds(clear_ctx(P)), Q)
        \/ /\ CanBackup(P) /\ Q.pc = "heredoc" /\ SameFiles(clear_ctx(P), Q)
    BY <1>1, <1>10, ReadLineDoes
  <2>4. CanBackup(P) =>
          LET C == clear_ctx(P)
              D == close_stored_fds(C)
          IN  /\ Files(C) /\ OnTty(C) /\ Saved(C) /\ Unpiped(C) /\ C.pre_in_pipe_fd = -1
              /\ Files(D) /\ OnTty(D) /\ NotSaved(D) /\ Unpiped(D) /\ D.pre_in_pipe_fd = -1
    BY <1>1, <2>2, LineStarts
  <2>5. CASE CanBackup(P) /\ Q.pc = "prompt" /\ SameFiles(close_stored_fds(clear_ctx(P)), Q)
    <3>1. Files(Q) /\ OnTty(Q) /\ NotSaved(Q) /\ Unpiped(Q) /\ Q.pre_in_pipe_fd = -1
      BY <2>4, <2>5, WiresFiles
    <3> QED BY <2>5, <3>1 DEF Wired, Wires, Begins
  <2>6. CASE CanBackup(P) /\ Q.pc = "heredoc" /\ SameFiles(clear_ctx(P), Q)
    <3>1. Files(Q) /\ OnTty(Q) /\ Saved(Q) /\ Unpiped(Q) /\ Q.pre_in_pipe_fd = -1
      BY <2>4, <2>6, WiresFiles
    <3> QED BY <2>6, <3>1 DEF Wired, Wires, Begins
  <2> QED BY <1>3, <2>3, <2>5, <2>6
<1>11. CASE Heredoc(Shell)
  BY <1>11 DEF Heredoc, HeredocNodes, Tidy
<1>12. CASE HeredocsRead(Shell)
  <2>1. P.pc = "heredoc" /\ At(Q, "exec", n) /\ SameFiles(P, Q)
    BY <1>1, <1>12, HeredocsReadDoes
  <2>2. Parent[n] = 0
    BY <1>2, <2>1 DEF ShellRuns
  <2>3. n \notin PipeLeft
    BY <2>2, PipeLeftParent
  <2>4. Wires(P) /\ Stays(P) /\ P.pre_in_pipe_fd = -1
    BY <1>2, <1>6, <1>9, <2>1 DEF Gone, Stays, Begins, Feeding
  <2>5. Q.pc = "exec" /\ Q.node = n
    BY <2>1 DEF At
  <2> QED BY <2>1, <2>2, <2>3, <2>4, <2>5, WiresMoved DEF Wired, Begins
<1>13. CASE exec_pipe(Shell)
  <2>1. P.pc = "exec" /\ n \in Node /\ Ast[n].kind = "ND_PIPE"
    BY <1>1, <1>13, exec_pipeDoes
  <2>2. SUFFICES ASSUME ~ Gone(Q) PROVE Wires(Q)
    BY DEF Wired
  <2>3. PICK a \in FreeFds(P), b \in FreeFds(P), k \in UnusedPipes :
          /\ a # b /\ At(Q, "exec", Ast[n].left)
          /\ Q.fds = [P.fds EXCEPT ![a] = ReadEnd(k), ![b] = WriteEnd(k)]
          /\ Q.in_pipe_fd = a /\ Q.out_pipe_fd = b
          /\ Q.pre_in_pipe_fd = P.pre_in_pipe_fd
          /\ Q.stored_stdin = P.stored_stdin /\ Q.stored_stdout = P.stored_stdout
          /\ Q.fd_num = P.fd_num
          /\ Q.is_exec_in_child_ps
    BY <1>1, <1>13, <2>2, exec_pipeDoes
  <2>4. n \notin PipeLeft
    BY <2>1, PipeLeftIs
  <2>5. /\ Std(P) /\ Files(P) /\ Unpiped(P) /\ Saved(P) /\ OnTty(P)
        /\ P.pre_in_pipe_fd # -1 => Fed(P)
    BY <1>2, <2>1, <2>4 DEF Gone, Wires, Begins, Redirecting
  <2>6. k \in Pipe
    BY <2>3 DEF UnusedPipes
  <2>7. /\ Files(Q) /\ Piped(Q) /\ Saved(Q) /\ (Q.pre_in_pipe_fd # -1 => Fed(Q))
        /\ OnTty(Q)
    <3> HIDE DEF P, Q
    <3> QED BY <1>1, <2>3, <2>5, <2>6, TwoMore
  <2>8. Ast[n].left \in PipeLeft /\ InSubshell[Ast[n].left] /\ Parent[Ast[n].left] = n
    BY <2>1, LeftIs, ChildIsIn
  <2> QED BY <2>1, <2>3, <2>7, <2>8 DEF Wires, Begins, Feeding, At
<1>14. CASE exec_logical(Shell) \/ exec_round_brackets(Shell)
  <2>1. /\ P.pc = "exec" /\ n \in Node
        /\ Ast[n].kind \in {"ND_AND_OP", "ND_OR_OP", "ND_RND_BRACKET"}
        /\ At(Q, "exec", Ast[n].left) /\ SameFiles(P, Q)
        /\ P.is_exec_in_child_ps => Q.is_exec_in_child_ps
    BY <1>1, <1>14, exec_logicalDoes, exec_round_bracketsDoes DEF SameFlags
  <2>2. n \notin PipeLeft
    <3>1. Ast[n].kind = "ND_RND_BRACKET" => n \in Bracket
      BY <2>1 DEF Bracket
    <3> QED BY <2>1, <3>1, PipeLeftIs DEF Tidy
  <2>3. /\ Ast[n].left \in Node /\ Parent[Ast[n].left] = n
        /\ Ast[n].left \notin PipeLeft
    BY <2>1, LeftIs
  <2>4. InSubshell[n] => InSubshell[Ast[n].left]
    BY <2>1, <2>3, ChildIsIn
  <2>5. Q.pc = "exec" /\ Q.node = Ast[n].left
    BY <2>1 DEF At
  <2>6. Wires(P) /\ Stays(P)
    BY <1>2, <1>6, <2>1, <2>2 DEF Gone, Stays, Begins
  <2>7. P.pre_in_pipe_fd # -1 => P.is_exec_in_child_ps /\ InSubshell[n]
    BY <2>1, <2>6 DEF Wires, Feeding
  <2> QED BY <2>1, <2>3, <2>4, <2>5, <2>6, <2>7, WiresMoved DEF Wired, Begins, Feeding
<1>15. CASE exec_redirect(Shell)
  <2>1. /\ P.pc = "exec" /\ n \in Node /\ Ast[n].kind = "ND_REDIRECTS"
        /\ At(Q, "redirect", n) /\ Q.i = 1 /\ SameFiles(P, Q)
    BY <1>1, <1>15, exec_redirectDoes
  <2>2. m # 0 => Ast[m].kind # "ND_CMD"
    BY <1>2, <2>1 DEF Gone, Wires
  <2>3. ~ InSubshell[n]
    BY <2>1, <2>2 DEF Tidy, RedirectNode
  <2>4. n \notin PipeLeft
    BY <2>3, PipeLeftIs
  <2>5. Wires(P) /\ Stays(P) /\ P.pre_in_pipe_fd = -1
    BY <1>2, <1>6, <1>9, <2>1, <2>3, <2>4 DEF Gone, Stays, Begins, Feeding
  <2>6. ListOf(Q) = n /\ Q.pc = "redirect"
    BY <2>1 DEF ListOf, At
  <2>7. 1 \in DOMAIN Ast[n].redirects
    BY <2>1, FirstOperator DEF RedirectNode
  <2> QED BY <2>1, <2>5, <2>6, <2>7, WiresMoved DEF Wired, Begins
<1>16. CASE exec_cmd_here(Shell)
  <2>1. P.pc = "exec" /\ ~ P.is_exec_in_child_ps /\ At(Q, "cmd", n) /\ SameFiles(P, Q)
    BY <1>1, <1>16, exec_cmd_hereDoes DEF RunsHere
  <2>2. Wires(P) /\ Stays(P) /\ P.pre_in_pipe_fd = -1
    BY <1>2, <1>6, <2>1 DEF Gone, Stays, Wires
  <2> QED BY <2>1, <2>2, WiresMoved DEF Wired, Begins, At
<1>17. CASE exec_cmd_forked(Shell)
  <2> DEFINE D == CloseHeredoc(reset_parent_process_fd(P))
  <2>1. /\ P.pc = "exec" /\ n \in Node /\ Ast[n].kind = "ND_CMD"
        /\ Gone(Q) \/ (At(Q, "return", n) /\ SameFiles(D, Q) /\ SameFlags(P, Q))
    BY <1>1, <1>17, exec_cmd_forkedDoes
  <2>2. /\ Std(P) /\ Files(P) /\ OnTty(P) /\ Saved(P) /\ (Piped(P) \/ Unpiped(P))
        /\ P.pre_in_pipe_fd # -1 => Fed(P)
        /\ ~ Unpiped(P) => n \in PipeLeft /\ P.is_exec_in_child_ps
    BY <1>2, <2>1 DEF Gone, Wires, Begins, Redirecting
  <2>3. /\ Files(D) /\ OnTty(D) /\ Saved(D) /\ Unpiped(D)
        /\ D.pre_in_pipe_fd = P.in_pipe_fd
        /\ D.pre_in_pipe_fd # -1 => Fed(D)
    BY <1>1, <2>1, <2>2, ParentKeeps
  <2>4. P.in_pipe_fd # -1 => n \in PipeLeft /\ P.is_exec_in_child_ps
    BY <2>2 DEF Unpiped
  <2> HIDE DEF D
  <2>5. CASE At(Q, "return", n) /\ SameFiles(D, Q) /\ SameFlags(P, Q)
    <3>1. /\ Files(Q) /\ OnTty(Q) /\ Saved(Q) /\ Unpiped(Q)
          /\ Q.pre_in_pipe_fd = P.in_pipe_fd
          /\ Q.pre_in_pipe_fd # -1 => Fed(Q)
      BY <2>3, <2>5, WiresFiles
    <3>2. Q.pc = "return" /\ Q.node = n /\ Q.is_exec_in_child_ps = P.is_exec_in_child_ps
      BY <2>5 DEF At, SameFlags
    <3> QED BY <2>4, <3>1, <3>2 DEF Wired, Wires, Begins, Feeding
  <2> QED BY <1>3, <2>1, <2>5
<1>18. CASE ChildSetup(Shell)
  BY <1>2, <1>18 DEF ChildSetup, ShellRuns
<1>19. CASE exec_cmd(Shell) \/ exec_cmd_with_heredoc(Shell)
  <2>1. /\ P.pc = "cmd" /\ n \in Node /\ Ast[n].kind = "ND_CMD"
        /\ \/ Gone(Q)
           \/ /\ Q.node = n /\ Expanded(P, Q)
              /\ SameFiles(P, Q) \/ HasHeredoc(P)
    BY <1>1, <1>19, exec_cmdDoes DEF NewBody
  <2>2. Wires(P) /\ Stays(P) /\ P.pre_in_pipe_fd = -1
    BY <1>2, <1>6, <1>9, <2>1 DEF Gone, Stays, Begins, Feeding
  <2>3. ~ HasHeredoc(P)
    BY <2>1, <2>2, NodeShape DEF HasHeredoc, Wires, Files, NoHeredocs
  <2>4. CASE ~ Gone(Q)
    <3>1. Q.node = n /\ SameFiles(P, Q)
          /\ Q.pc \in {"return", "redirect", "builtin", "program"}
          /\ (Q.pc = "redirect" => Q.i = 1 /\ Ast[n].left # 0)
      BY <2>1, <2>3, <2>4 DEF Expanded
    <3>2. Q.pc = "redirect" => Q.i \in DOMAIN Ast[ListOf(Q)].redirects
      BY <2>1, <3>1, NodeShape, FirstOperator DEF ListOf
    <3> QED BY <2>2, <3>1, <3>2, WiresMoved DEF Wired, Begins
  <2> QED BY <1>3, <2>4
<1>20. CASE apply_redirects(Shell)
  <2>1. P.pc = "redirect"
    BY <1>20 DEF apply_redirects
  <2> QED BY <1>2, <1>20, <2>1, RedirectWires DEF Wired, Gone
<1>21. CASE run_builtin(Shell)
  <2>1. /\ P.pc = "builtin"
        /\ \/ Gone(Q)
           \/ /\ At(Q, "return", n)
              /\ \/ SameFiles(P, Q) /\ Ast[n].cmd.status # 0
                 \/ SameFiles(restore_std_fds(P), Q)
    BY <1>1, <1>21, run_builtinDoes
  <2>2. Wires(P) /\ Std(P) /\ Files(P) /\ Saved(P) /\ Unpiped(P) /\ P.pre_in_pipe_fd = -1
    BY <1>2, <1>7, <1>8, <1>9, <2>1 DEF Gone, Wires, Begins, Feeding
  <2>3. CASE At(Q, "return", n) /\ SameFiles(P, Q) /\ Ast[n].cmd.status # 0
    <3>1. Stays(P)
      BY <2>1, <2>2, <2>3 DEF Wires, Redirecting, Stays, Begins
    <3> QED BY <2>2, <2>3, <3>1, WiresMoved DEF Wired, Begins, At
  <2>4. CASE At(Q, "return", n) /\ SameFiles(restore_std_fds(P), Q)
    <3>1. LET R == restore_std_fds(P)
          IN  Files(R) /\ OnTty(R) /\ Saved(R) /\ Unpiped(R) /\ R.pre_in_pipe_fd = -1
      BY <1>1, <2>2, TtyRestored
    <3>2. Files(Q) /\ OnTty(Q) /\ Saved(Q) /\ Unpiped(Q) /\ Q.pre_in_pipe_fd = -1
      BY <2>4, <3>1, WiresFiles
    <3> QED BY <2>4, <3>2 DEF Wired, Wires, Begins, At
  <2> QED BY <1>3, <2>1, <2>3, <2>4
<1>22. CASE RunsOn(Shell)
  <2>1. P.pc \in {"program", "builtin"}
        /\ (Gone(Q) \/ (At(Q, P.pc, n) /\ SameFlags(P, Q) /\ SameFiles(P, Q)))
    BY <1>1, <1>22, RunsOnDoes
  <2>2. /\ Files(P) /\ (OnTty(P) \/ Redirecting(P)) /\ Saved(P) /\ Unpiped(P)
        /\ P.pre_in_pipe_fd = -1
    BY <1>2, <1>7, <1>8, <1>9, <2>1 DEF Gone, Wires, Begins, Feeding
  <2>3. CASE At(Q, P.pc, n) /\ SameFlags(P, Q) /\ SameFiles(P, Q)
    <3>1. Q.pc = P.pc /\ Q.node = n
      BY <2>3 DEF At
    <3>2. Redirecting(P) => Redirecting(Q)
      BY <2>1, <3>1 DEF Redirecting
    <3>3. /\ Files(Q) /\ (OnTty(Q) \/ Redirecting(Q)) /\ Saved(Q) /\ Unpiped(Q)
          /\ Q.pre_in_pipe_fd = -1
      BY <2>2, <2>3, <3>2, WiresFiles
    <3> QED BY <2>1, <3>1, <3>3 DEF Wired, Wires, Begins
  <2> QED BY <1>3, <2>1, <2>3
<1>23. CASE ReturnFromRight(Shell)
  <2>1. /\ P.pc = "return" /\ n \in Node /\ m # 0 /\ Ast[m].right = n
        /\ At(Q, "return", m) /\ SameFiles(P, Q)
    BY <1>1, <1>23, ReturnFromRightDoes
  <2>2. n \notin PipeLeft
    <3>1. m \in Node /\ n # 0
      BY <2>1, Nodes, ParentChild
    <3> QED BY <2>1, <3>1, RightIs
  <2>3. Wires(P) /\ Stays(P) /\ P.pre_in_pipe_fd = -1
    BY <1>2, <1>6, <1>9, <2>1, <2>2 DEF Gone, Stays, Begins, Feeding
  <2> QED BY <2>1, <2>3, WiresMoved DEF Wired, Begins, At
<1>24. CASE ReturnFromPipeLeft(Shell)
  <2> DEFINE b == Ast[m].right
  <2>1. /\ P.pc = "return" /\ n \in Node /\ m # 0
        /\ Ast[m].left = n /\ Ast[m].kind = "ND_PIPE"
        /\ At(Q, "exec", b) /\ SameFlags(P, Q)
        /\ Q.fds = P.fds /\ Q.fd_num = P.fd_num
        /\ Q.in_pipe_fd = P.in_pipe_fd /\ Q.out_pipe_fd = STDOUT_FILENO
        /\ Q.pre_in_pipe_fd = P.pre_in_pipe_fd
        /\ Q.stored_stdin = P.stored_stdin /\ Q.stored_stdout = P.stored_stdout
    BY <1>1, <1>24, ReturnFromPipeLeftDoes
  <2>2. m \in Node /\ b # 0
    <3>1. m \in Node
      BY <2>1, ParentChild
    <3>2. b \in Node
      BY <2>1, <3>1, NodeShape
    <3> QED BY <3>1, <3>2, Nodes
  <2>3. b \in Node /\ Parent[b] = m /\ b \notin PipeLeft /\ InSubshell[b]
    BY <2>1, <2>2, RightIs, ChildIsIn
  <2>4. Wires(P) /\ Files(P) /\ OnTty(P) /\ Saved(P) /\ Unpiped(P)
    BY <1>2, <1>6, <1>7, <1>8, <2>1 DEF Gone, Wires, Begins
  <2>5. Q.pc = "exec" /\ Q.node = b /\ Q.is_exec_in_child_ps = P.is_exec_in_child_ps
    BY <2>1 DEF At, SameFlags
  <2>6. OnTty(Q) /\ Saved(Q) /\ Unpiped(Q)
    BY <2>1, <2>4 DEF OnTty, Saved, Unpiped
  <2>7. P.pre_in_pipe_fd # -1 => P.is_exec_in_child_ps /\ Fed(Q)
    BY <2>1, <2>4 DEF Wires, Fed
  <2>8. Files(Q)
    <3>1. ASSUME NEW fd \in FD \ Held(Q), fd > 2 PROVE Q.fds[fd] = Closed
      <4>1. fd # -1 /\ fd # 1
        BY <3>1 DEF FD
      <4>2. fd \notin Held(P)
        BY <2>1, <2>4, <3>1, <4>1 DEF Held, Unpiped, STDOUT_FILENO
      <4> QED BY <2>1, <2>4, <3>1, <4>2 DEF Files
    <3> QED BY <2>1, <2>4, <3>1 DEF Files
  <2> QED BY <2>1, <2>3, <2>5, <2>6, <2>7, <2>8 DEF Wired, Wires, Begins, Feeding
<1>25. CASE ReturnAndWait(Shell)
  <2>1. /\ P.pc = "return" /\ n \in Node
        /\ m # 0 => Ast[m].left = n /\ Ast[m].kind # "ND_PIPE"
        /\ Q.pc \in {"wait", "decide"} /\ SameFiles(P, Q)
    BY <1>1, <1>25, ReturnAndWaitDoes
  <2>2. n \notin PipeLeft
    BY <2>1, PipeLeftParent
  <2>3. Wires(P) /\ Stays(P) /\ P.pre_in_pipe_fd = -1
    BY <1>2, <1>6, <1>9, <2>1, <2>2 DEF Gone, Stays, Begins, Feeding
  <2> QED BY <2>1, <2>3, WiresMoved DEF Wired, Begins
<1>26. CASE WaitChild(Shell) \/ WaitNoChild(Shell) \/ EndOfBrackets(Shell)
  <2>1. P.pc \in {"wait", "decide"} /\ Q.pc \in {"wait", "decide", "return"} /\ SameFiles(P, Q)
    BY <1>1, <1>26, WaitDoes, EndOfBracketsDoes DEF At
  <2>2. Wires(P) /\ Stays(P) /\ P.pre_in_pipe_fd = -1
    BY <1>2, <1>6, <1>9, <2>1 DEF Gone, Stays, Begins, Feeding
  <2> QED BY <2>1, <2>2, WiresMoved DEF Wired, Begins
<1>27. CASE exec_and_node(Shell) \/ exec_or_node(Shell)
  <2> DEFINE b == Ast[n].right
  <2>1. /\ P.pc = "decide" /\ n \in Node /\ Ast[n].kind \in {"ND_AND_OP", "ND_OR_OP"}
        /\ SameFiles(P, Q) /\ (At(Q, "return", n) \/ At(Q, "exec", b))
    BY <1>1, <1>27, DecideDoes
  <2>2. b \in Node /\ b # 0
    BY <2>1, NodeShape, Nodes
  <2>3. Parent[b] = n /\ b \notin PipeLeft
    BY <2>1, <2>2, RightIs
  <2>4. Wires(P) /\ Stays(P) /\ P.pre_in_pipe_fd = -1
    BY <1>2, <1>6, <1>9, <2>1 DEF Gone, Stays, Begins, Feeding
  <2>5. Q.pc \in {"return", "exec"} /\ (Q.pc = "exec" => Q.node = b)
    BY <2>1 DEF At
  <2> QED BY <2>1, <2>3, <2>4, <2>5, WiresMoved DEF Wired, Begins
<1>28. CASE EndOfLine(Shell)
  <2> DEFINE C == close_stored_fds(P)
             old == {P.stored_stdin, P.stored_stdout}
  <2>1. /\ P.pc = "decide"
        /\ Q.pc = "prompt" /\ Q.fds = C.fds /\ Q.fd_num = NoHeredocs
        /\ SameHeld(C, Q)
    BY <1>1, <1>28, EndOfLineDoes
  <2>2. /\ C.fds = Shut(P, old)
        /\ C.stored_stdin = -1 /\ C.stored_stdout = -1
        /\ C.in_pipe_fd = P.in_pipe_fd /\ C.out_pipe_fd = P.out_pipe_fd
        /\ C.pre_in_pipe_fd = P.pre_in_pipe_fd
    BY <1>1, CloseStoredDoes
  <2>3. /\ Std(P) /\ Files(P) /\ OnTty(P) /\ Saved(P) /\ Unpiped(P) /\ P.pre_in_pipe_fd = -1
    BY <1>2, <1>6, <1>7, <1>8, <1>9, <2>1 DEF Gone, Wires, Begins, Feeding
  <2>4. old \subseteq Num
    BY <2>3 DEF Std
  <2> HIDE DEF C, old
  <2>5. \A fd \in 0 .. 2 : fd \in FD /\ fd \notin old
    BY <2>4, NumIs
  <2>6. \A fd \in FD : Q.fds[fd] = IF fd \in old THEN Closed ELSE P.fds[fd]
    BY <2>1, <2>2 DEF Shut
  <2>7. Q.fds[0] = Tty /\ Q.fds[1] = Tty /\ Q.fds[2] = Tty
    BY <2>3, <2>5, <2>6 DEF OnTty, Files
  <2>8. ASSUME NEW fd \in FD, fd > 2 PROVE Q.fds[fd] = Closed
    <3>1. fd # -1 /\ fd # 1
      BY <2>8 DEF FD
    <3>2. fd \in Held(P) => fd \in old
      BY <2>3, <3>1 DEF Held, Unpiped, STDOUT_FILENO, old
    <3> QED BY <2>3, <2>6, <2>8, <3>2 DEF Files
  <2>9. Files(Q) /\ OnTty(Q)
    BY <2>1, <2>7, <2>8 DEF Files, OnTty
  <2>10. NotSaved(Q) /\ Unpiped(Q) /\ Q.pre_in_pipe_fd = -1
    BY <2>1, <2>2, <2>3 DEF NotSaved, Unpiped, SameHeld
  <2> QED BY <2>1, <2>9, <2>10 DEF Wired, Wires, Begins
<1>29. CASE EndOfInput(Shell)
  BY <1>1, <1>3, <1>29, EndOfInputDoes
<1> QED BY <1>1, <1>3, <1>4, <1>5, <1>10, <1>11, <1>12, <1>13, <1>14, <1>15, <1>16, <1>17, <1>18,
           <1>19, <1>20, <1>21, <1>22, <1>23, <1>24, <1>25, <1>26, <1>27, <1>28, <1>29, Happens
        DEF Aside, Advances, Step, RunsOn

\* It holds at the start.
LEMMA WiresFirst ==
    ASSUME Init
    PROVE  Wired(proc[Shell])
<1>1. proc[Shell] = init_ctx /\ proc[Shell].pc = "prompt"
  BY ShellStarts
<1>2. /\ init_ctx.fd_num = NoHeredocs /\ init_ctx.in_pipe_fd = -1 /\ init_ctx.out_pipe_fd = -1
      /\ init_ctx.pre_in_pipe_fd = -1 /\ init_ctx.stored_stdin = -1 /\ init_ctx.stored_stdout = -1
      /\ init_ctx.fds = [fd \in FD |-> IF fd <= 2 THEN Tty ELSE Closed]
  BY DEF init_ctx, NoProcess
<1>3. 0 \in FD /\ 1 \in FD /\ 2 \in FD
  BY Standard
<1>4. init_ctx.fds[0] = Tty /\ init_ctx.fds[1] = Tty /\ init_ctx.fds[2] = Tty
  BY <1>2, <1>3
<1>5. ASSUME NEW fd \in FD, fd > 2 PROVE init_ctx.fds[fd] = Closed
  BY <1>2, <1>5 DEF FD
<1>6. Files(init_ctx) /\ OnTty(init_ctx) /\ NotSaved(init_ctx) /\ Unpiped(init_ctx)
  BY <1>2, <1>4, <1>5 DEF Files, OnTty, NotSaved, Unpiped
<1> QED BY <1>1, <1>2, <1>6 DEF Wired, Wires, Begins

\* CleanPrompt: after a line that leaves nothing behind (Tidy), the shell asks
\* for the next one with the terminal on 0, 1 and 2 and no other descriptor
\* open.  (The lines Tidy leaves out are those whose redirects, heredocs or
\* pipes exec_builtin, exec_redirect and exec_round_brackets do not clean up.)
THEOREM PromptIsClean ==
    ASSUME Tidy
    PROVE  Spec => []CleanPrompt
<1>1. Init => Sound /\ Wired(proc[Shell])
  BY SoundFirst, WiresFirst
<1>2. TypeOK /\ [Next]_vars /\ Sound /\ Wired(proc[Shell]) => Sound' /\ Wired(proc'[Shell])
  BY SoundKept, WiresKept
<1>3. Wired(proc[Shell]) => CleanPrompt
  <2> DEFINE P == proc[Shell]
  <2>1. SUFFICES ASSUME Wired(P), P.pc = "prompt", NEW fd \in FD
                 PROVE  P.fds[fd] = IF fd <= 2 THEN Tty ELSE Closed
    BY DEF CleanPrompt
  <2>2. /\ Files(P) /\ OnTty(P) /\ NotSaved(P) /\ Unpiped(P) /\ P.pre_in_pipe_fd = -1
    BY <2>1 DEF Wired, Wires, Gone, Begins, Feeding, Redirecting
  <2> HIDE DEF P
  <2>3. CASE fd > 2
    <3>1. fd \notin Held(P)
      BY <2>1, <2>2, <2>3 DEF Held, NotSaved, Unpiped, STDOUT_FILENO, FD
    <3> QED BY <2>1, <2>2, <2>3, <3>1 DEF Files, FD
  <2>4. CASE ~ (fd > 2)
    <3>1. fd = 0 \/ fd = 1 \/ fd = 2
      BY <2>1, <2>4 DEF FD
    <3> QED BY <2>2, <3>1 DEF Files, OnTty
  <2> QED BY <2>3, <2>4
<1>4. (Wired(proc[Shell]))' <=> Wired(proc'[Shell])
  BY DEF Wired, Gone, Wires, Files, Held, OnTty, Redirecting, FreeFds, NotSaved, Saved, Begins,
     Piped, Unpiped, Feeding, Fed, ListOf
<1> QED BY <1>1, <1>2, <1>3, <1>4, TypeCorrect, PTL DEF Spec

\* NoPipeHeldInWait: in wait_children_status after such a line the shell holds
\* no pipe at all, and nobody else waits.
THEOREM WaitHoldsNoPipe ==
    ASSUME Tidy
    PROVE  Spec => []NoPipeHeldInWait
<1> DEFINE Kids == \A p \in Proc \ {Shell} : Kid(proc[p])
<1>1. Init => Sound /\ Kids /\ Wired(proc[Shell])
  BY SoundFirst, KidsFirst, WiresFirst
<1>2. TypeOK /\ [Next]_vars /\ Sound /\ Kids /\ Wired(proc[Shell])
        => Sound' /\ Kids' /\ Wired(proc'[Shell])
  <2>1. NoneSuperseded
    BY TidyGives
  <2> QED BY <2>1, SoundKept, KidsKept, WiresKept
<1>3. Kids /\ Wired(proc[Shell]) /\ TypeOK => NoPipeHeldInWait
  <2> DEFINE P == proc[Shell]
  <2>1. SUFFICES ASSUME Kids, Wired(P), TypeOK, NEW p \in Proc, proc[p].pc = "wait", NEW fd \in FD
                 PROVE  proc[p].fds[fd][1] \notin {"r", "w"}
    BY DEF NoPipeHeldInWait
  <2>2. p = Shell
    BY <2>1 DEF Kid
  <2>3. /\ Files(P) /\ OnTty(P) /\ Saved(P) /\ Unpiped(P) /\ P.pre_in_pipe_fd = -1
    BY <2>1, <2>2 DEF Wired, Wires, Gone, Begins, Feeding, Redirecting
  <2> HIDE DEF P
  <2>4. P.fds[fd] \in {Tty, Closed}
    <3>1. CASE fd \in {P.stored_stdin, P.stored_stdout}
      BY <2>3, <3>1 DEF Saved
    <3>2. CASE fd \notin {P.stored_stdin, P.stored_stdout} /\ fd > 2
      <4>1. fd \notin Held(P)
        BY <2>1, <2>3, <3>2 DEF Held, Unpiped, STDOUT_FILENO, FD
      <4> QED BY <2>1, <2>3, <3>2, <4>1 DEF Files
    <3>3. CASE ~ (fd > 2)
      <4>1. fd = 0 \/ fd = 1 \/ fd = 2
        BY <2>1, <3>3 DEF FD
      <4> QED BY <2>3, <4>1 DEF Files, OnTty
    <3> QED BY <3>1, <3>2, <3>3
  <2>5. P.fds[fd][1] \notin {"r", "w"}
    BY <2>4 DEF Tty, Closed
  <2> QED BY <2>2, <2>5 DEF P
<1>4. (Wired(proc[Shell]))' <=> Wired(proc'[Shell])
  BY DEF Wired, Gone, Wires, Files, Held, OnTty, Redirecting, FreeFds, NotSaved, Saved, Begins,
     Piped, Unpiped, Feeding, Fed, ListOf
<1> QED BY <1>1, <1>2, <1>3, <1>4, TypeCorrect, PTL DEF Spec

(***************************************************************************)
(* The pipes between the commands of a pipeline.                           *)
(***************************************************************************)
\* Where a child's output and input lead, once setup_child_process_fd_flg is
\* done with its descriptors.
Out(P) == IF P.pc = "child" /\ P.out_pipe_fd \notin {-1, STDOUT_FILENO}
          THEN P.fds[P.out_pipe_fd] ELSE P.fds[STDOUT_FILENO]
In(P) == IF P.pc = "child" /\ P.pre_in_pipe_fd # -1
         THEN P.fds[P.pre_in_pipe_fd] ELSE P.fds[STDIN_FILENO]

\* A child has the descriptors of the shell, then nothing of a pipe but 0 and 1.
Settled(P) == /\ P.fd_num = NoHeredocs
              /\ \A fd \in FD \ {0, 1} : P.fds[fd] \in {Closed, Tty}
Inherited(P) == /\ Files(P) /\ OnTty(P) /\ Saved(P)
                /\ Piped(P) \/ Unpiped(P)
                /\ P.pre_in_pipe_fd # -1 => Fed(P)
Tied(P) == /\ Gone(P) \/ (IF P.pc = "child" THEN Inherited(P) ELSE Settled(P))
           /\ P.pc = "redirect" => P.i \in DOMAIN Ast[ListOf(P)].redirects

\* setup_child_process_fd_flg moves the ends of the pipes to 0 and 1 and closes
\* the rest of them.
LEMMA SetupTies ==
    ASSUME NEW P \in Process, P.pc = "child", Std(P), Inherited(P)
    PROVE  LET S == setup_child_process_fd_flg(P)
           IN  /\ \A fd \in FD \ {0, 1} : S.fds[fd] \in {Closed, Tty}
               /\ S.fds[0] = In(P) /\ S.fds[1] = Out(P)
<1> DEFINE C == ConnectInput(P)
           D == Close(C, P.in_pipe_fd)
           E == ConnectOutput(D)
           S == setup_child_process_fd_flg(P)
           pre == P.pre_in_pipe_fd
           in == P.in_pipe_fd
           out == P.out_pipe_fd
<1>1. P.fds \in [FD -> Desc] /\ 0 \in FD /\ 1 \in FD /\ 2 \in FD /\ -1 \notin FD
  BY Standard DEF Process
<1>2. /\ pre # -1 => pre \in FD /\ pre \notin {0, 1, 2} /\ P.fds[pre] # Closed
      /\ in # -1 => in \in FD /\ in \notin {0, 1, 2}
      /\ out \notin {-1, 1} => out \in FD /\ out \notin {0, 1, 2} /\ P.fds[out] # Closed
                               /\ out # in /\ out # pre
      /\ in # -1 => in # pre
  <2>1. pre \in Num /\ in \in Num /\ out \in Num \cup {1}
    BY DEF Std, STDOUT_FILENO
  <2>2. \A fd \in Num \ {-1} : fd \in FD /\ fd \notin {0, 1, 2}
    BY NumIs
  <2>3. pre # -1 => \E k \in Pipe : P.fds[pre] = ReadEnd(k)
    BY DEF Inherited, Fed
  <2>4. out \notin {-1, 1} => \E k \in Pipe : P.fds[in] = ReadEnd(k) /\ P.fds[out] = WriteEnd(k)
    BY DEF Inherited, Piped, Unpiped, STDOUT_FILENO
  <2>5. in # -1 => in # pre
    BY DEF Inherited, Piped, Unpiped
  <2>6. \A j, k \in Pipe : ReadEnd(j) # WriteEnd(k) /\ ReadEnd(j) # Closed /\ WriteEnd(k) # Closed
    BY DEF ReadEnd, WriteEnd, Closed
  <2>7. out \notin {-1, 1} => out # in /\ P.fds[out] # Closed
    BY <2>4, <2>6
  <2>8. out \notin {-1, 1} /\ pre # -1 => out # pre
    BY <2>3, <2>4, <2>6
  <2> HIDE DEF pre, in, out
  <2> QED BY <2>1, <2>2, <2>3, <2>5, <2>6, <2>7, <2>8
<1>3. \A X : OnlyFds(X, X)
  BY DEF OnlyFds, SameHeld, SameFlags
<1>4. /\ C \in Process /\ OnlyFds(P, C)
      /\ \A fd \in FD : C.fds[fd] = CASE fd = pre -> Closed
                                      [] fd # pre /\ fd = 0 -> In(P)
                                      [] OTHER -> P.fds[fd]
  <2>1. CASE pre # -1
    <3>1. C = MoveTo(P, pre, STDIN_FILENO) /\ In(P) = P.fds[pre] /\ IsOpen(P, pre)
      BY <1>2, <2>1 DEF ConnectInput, In, IsOpen
    <3> HIDE DEF C, pre
    <3>2. 0 \in FD /\ STDIN_FILENO = 0
      BY <1>1 DEF STDIN_FILENO
    <3>3. /\ C \in Process /\ OnlyFds(P, C)
          /\ C.fds = [fd \in FD |-> CASE fd = pre -> Closed
                                      [] fd # pre /\ fd = 0 /\ IsOpen(P, pre) -> P.fds[pre]
                                      [] OTHER -> P.fds[fd]]
      BY <3>1, <3>2, MoveToDoes
    <3>4. ASSUME NEW fd \in FD
          PROVE  C.fds[fd] = CASE fd = pre -> Closed
                               [] fd # pre /\ fd = 0 -> In(P)
                               [] OTHER -> P.fds[fd]
      BY <3>1, <3>3
    <3> QED BY <3>3, <3>4
  <2>2. CASE pre = -1
    <3>1. C = P /\ In(P) = P.fds[0]
      BY <2>2 DEF ConnectInput, In, STDIN_FILENO
    <3> QED BY <1>1, <1>3, <2>2, <3>1
  <2> QED BY <2>1, <2>2
<1> HIDE DEF C
<1>5. /\ D \in Process /\ OnlyFds(C, D)
      /\ \A fd \in FD : D.fds[fd] = IF fd = in THEN Closed ELSE C.fds[fd]
  <2>1. D \in Process /\ OnlyFds(C, D) /\ D.fds = Refers(C, in, Closed)
    BY <1>4, CloseDoes
  <2>2. C.fds \in [FD -> Desc]
    BY <1>4 DEF Process
  <2> HIDE DEF D, in
  <2> QED BY <2>1, <2>2 DEF Refers
<1> HIDE DEF D
<1>6. D.out_pipe_fd = out
  BY <1>4, <1>5 DEF OnlyFds, SameHeld
<1>7. out \notin {-1, 1} => D.fds[out] = P.fds[out] /\ Out(P) = P.fds[out] /\ IsOpen(D, out)
  <2> HIDE DEF pre, in
  <2> QED BY <1>2, <1>4, <1>5 DEF Out, IsOpen, STDOUT_FILENO
<1>8. /\ E \in Process /\ OnlyFds(D, E)
      /\ \A fd \in FD : E.fds[fd] = CASE out # 1 /\ fd = out -> Closed
                                      [] fd # out /\ out \notin {-1, 1} /\ fd = 1 -> Out(P)
                                      [] OTHER -> D.fds[fd]
  <2>1. CASE out \notin {-1, 1}
    <3>1. E = MoveTo(D, out, STDOUT_FILENO)
      BY <1>6, <2>1 DEF ConnectOutput, STDOUT_FILENO
    <3> HIDE DEF E, out
    <3>2. 1 \in FD /\ STDOUT_FILENO = 1
      BY <1>1 DEF STDOUT_FILENO
    <3>3. /\ E \in Process /\ OnlyFds(D, E)
          /\ E.fds = [fd \in FD |-> CASE fd = out -> Closed
                                      [] fd # out /\ fd = 1 /\ IsOpen(D, out) -> D.fds[out]
                                      [] OTHER -> D.fds[fd]]
      BY <1>5, <3>1, <3>2, MoveToDoes
    <3>4. ASSUME NEW fd \in FD
          PROVE  E.fds[fd] = CASE out # 1 /\ fd = out -> Closed
                               [] fd # out /\ out \notin {-1, 1} /\ fd = 1 -> Out(P)
                               [] OTHER -> D.fds[fd]
      BY <1>7, <2>1, <3>3
    <3> QED BY <3>3, <3>4
  <2>2. CASE out \in {-1, 1}
    <3>1. E = D
      BY <1>6, <2>2 DEF ConnectOutput, STDOUT_FILENO
    <3> QED BY <1>1, <1>3, <1>5, <2>2, <3>1
  <2> QED BY <2>1, <2>2
<1> HIDE DEF E
<1>9. S.fds = E.fds
  <2>1. S = [E EXCEPT !.is_exec_in_child_ps = TRUE]
    BY DEF setup_child_process_fd_flg, E, D, C
  <2> QED BY <1>8, <2>1 DEF Process
<1> HIDE DEF S
<1>10. S.fds[0] = In(P)
  <2>1. 0 # out /\ 0 # in /\ 0 # pre
    BY <1>1, <1>2
  <2> HIDE DEF pre, in, out
  <2> QED BY <1>1, <1>4, <1>5, <1>8, <1>9, <2>1
<1>11. S.fds[1] = Out(P)
  <2>1. 1 # in /\ 1 # pre
    BY <1>1, <1>2
  <2>2. out \in {-1, 1} => Out(P) = P.fds[1]
    BY DEF Out, STDOUT_FILENO
  <2> HIDE DEF pre, in, out
  <2> QED BY <1>1, <1>4, <1>5, <1>8, <1>9, <2>1, <2>2
<1>12. ASSUME NEW fd \in FD \ {0, 1} PROVE S.fds[fd] \in {Closed, Tty}
  <2>1. CASE fd \in {pre, in, out}
    <3> HIDE DEF pre, in, out
    <3> QED BY <1>4, <1>5, <1>8, <1>9, <1>12, <2>1
  <2>2. CASE fd \notin {pre, in, out}
    <3>1. S.fds[fd] = P.fds[fd]
      <4> HIDE DEF pre, in, out
      <4> QED BY <1>4, <1>5, <1>8, <1>9, <1>12, <2>2
    <3>2. CASE fd = 2
      BY <3>1, <3>2 DEF Inherited, Files
    <3>3. CASE fd \in {P.stored_stdin, P.stored_stdout}
      BY <3>1, <3>3 DEF Inherited, Saved
    <3>4. CASE fd # 2 /\ fd \notin {P.stored_stdin, P.stored_stdout}
      <4>1. fd > 2 /\ fd \notin Held(P)
        BY <1>12, <2>2, <3>4 DEF FD, Held
      <4> QED BY <1>12, <3>1, <4>1 DEF Inherited, Files
    <3> QED BY <3>2, <3>3, <3>4
  <2> QED BY <2>1, <2>2
<1> QED BY <1>10, <1>11, <1>12 DEF S

\* A redirect of a child takes away the end it names, and nothing else.
LEMMA RedirectTies ==
    ASSUME Tidy, NEW P \in Process, P.node \in Node, Ast[P.node].kind = "ND_CMD",
           Ast[P.node].left # 0, Settled(P), P.i \in DOMAIN Ast[ListOf(P)].redirects
    PROVE  LET A == Applied(P)
           IN  /\ Operator(P).op # "<<" /\ Settled(A)
               /\ ~ Redirects(P.node, {">", ">>"}) => A.fds[1] = P.fds[1]
               /\ ~ Redirects(P.node, {"<", "<<"}) => A.fds[0] = P.fds[0]
<1> DEFINE A == Applied(P)
           l == ListOf(P)
           list == Ast[l].redirects
           op == Operator(P).op
           std == IF op = "<" THEN STDIN_FILENO ELSE STDOUT_FILENO
<1>1. l = Ast[P.node].left /\ l \in RedirectNode /\ l \in Node
  BY NodeShape DEF ListOf, RedirectNode
<1>2. list \in Seq(Redirect) /\ Operator(P) = list[P.i]
  BY <1>1, NodeShape DEF Operator
<1>3. op \in {">", ">>", "<", "<<"}
  <2>1. list[P.i] \in Redirect
    BY <1>2
  <2> QED BY <1>2, <2>1 DEF Redirect
<1>4. op # "<<"
  BY <1>1, <1>2 DEF Tidy, HeredocOps
<1>5. RedirectsOf(P.node) = list
  BY <1>1 DEF RedirectsOf
<1>6. ASSUME NEW ops, op \in ops PROVE Redirects(P.node, ops)
  BY <1>2, <1>5, <1>6 DEF Redirects
<1>7. A.fd_num = P.fd_num /\ A.fds = IF Opens(P) THEN Refers(P, std, File) ELSE P.fds
  BY <1>4, AppliedDoes
<1>8. P.fds \in [FD -> Desc]
  BY DEF Process
<1>9. std = (IF op = "<" THEN 0 ELSE 1)
  BY DEF STDIN_FILENO, STDOUT_FILENO
<1> HIDE DEF A, std, op, list, l
<1>10. \A fd \in FD : fd # std => A.fds[fd] = P.fds[fd]
  BY <1>7, <1>8 DEF Refers
<1>11. Settled(A)
  BY <1>7, <1>9, <1>10 DEF Settled
<1>12. ~ Redirects(P.node, {">", ">>"}) => A.fds[1] = P.fds[1]
  <2>1. SUFFICES ASSUME ~ Redirects(P.node, {">", ">>"}) PROVE A.fds[1] = P.fds[1]
    OBVIOUS
  <2>2. op = "<"
    BY <1>3, <1>4, <1>6, <2>1
  <2> QED BY <1>9, <1>10, <2>2, Standard
<1>13. ~ Redirects(P.node, {"<", "<<"}) => A.fds[0] = P.fds[0]
  <2>1. SUFFICES ASSUME ~ Redirects(P.node, {"<", "<<"}) PROVE A.fds[0] = P.fds[0]
    OBVIOUS
  <2>2. op # "<"
    BY <1>6, <2>1
  <2> QED BY <1>9, <1>10, <2>2, Standard
<1> QED BY <1>4, <1>11, <1>12, <1>13 DEF A, op

\* A child stays at its node, and its ends of pipes with it.
Carried(P, Q) ==
    /\ ~ Gone(P) /\ Q.node = P.node
    /\ ~ Redirects(P.node, {">", ">>"}) => Out(Q) = Out(P)
    /\ ~ Redirects(P.node, {"<", "<<"}) => In(Q) = In(P)
Forked(r) == exec_cmd_forked(Shell) /\ ForkOf(proc[Shell], proc'[r])

\* What a process with the same files at the same node has is what it had.
LEMMA CarriedSame ==
    ASSUME NEW P, NEW Q, ~ Gone(P), ~ Gone(Q), Q.node = P.node, SameFiles(P, Q),
           P.pc = "child" <=> Q.pc = "child"
    PROVE  /\ Carried(P, Q)
           /\ (Inherited(P) <=> Inherited(Q)) /\ (Settled(P) <=> Settled(Q))
<1>1. In(Q) = In(P) /\ Out(Q) = Out(P)
  BY DEF In, Out, SameFiles, SameHeld
<1>2. Settled(P) <=> Settled(Q)
  BY DEF Settled, SameFiles
<1>3. Inherited(P) <=> Inherited(Q)
  BY WiresFiles DEF Inherited
<1> QED BY <1>1, <1>2, <1>3 DEF Carried

\* A child keeps the pipes it was given, or puts them to their use, or ends.
LEMMA KidPasses ==
    ASSUME Tidy, TypeOK, [Next]_vars, Sound, Wired(proc[Shell]),
           \A p \in Proc \ {Shell} : Kid(proc[p]),
           NEW r \in Proc \ {Shell}, Tied(proc[r])
    PROVE  LET P == proc[r]
               Q == proc'[r]
           IN  Tied(Q) /\ (Gone(Q) \/ Carried(P, Q) \/ Forked(r))
<1> DEFINE P == proc[r]
           Q == proc'[r]
           n == P.node
           ok == Tied(Q) /\ (Gone(Q) \/ Carried(P, Q) \/ Forked(r))
<1> SUFFICES ok
  OBVIOUS
<1>1. P \in Process /\ Kid(P) /\ Listed(P) /\ Steady(P)
  BY Here DEF Sound
<1>2. CASE Gone(Q)
  BY <1>2 DEF Tied, Gone
<1>3. CASE Alike(P, Q)
  <2>1. Q.pc = P.pc /\ Q.node = n /\ Q.i = P.i /\ SameFiles(P, Q) /\ ListOf(Q) = ListOf(P)
    BY <1>3 DEF Alike, At, ListOf
  <2>2. CASE ~ Gone(Q)
    <3>1. ~ Gone(P)
      BY <2>1, <2>2 DEF Gone
    <3> HIDE DEF P, Q
    <3>2. /\ Carried(P, Q)
          /\ (Inherited(P) <=> Inherited(Q)) /\ (Settled(P) <=> Settled(Q))
      BY <2>1, <2>2, <3>1, CarriedSame
    <3>3. Tied(P)
      BY DEF P
    <3>4. Tied(Q)
      BY <2>1, <3>1, <3>2, <3>3 DEF Tied
    <3> QED BY <3>2, <3>4
  <2> QED BY <1>2, <2>2
<1>4. CASE NewChild(r)
  <2>1. PICK p \in Proc \ {r} : exec_cmd_forked(p) /\ ForkOf(proc[p], Q)
    BY <1>4 DEF NewChild
  <2>2. proc[p].pc = "exec"
    BY <2>1 DEF ForkOf
  <2>3. p = Shell
    BY <2>1, <2>2 DEF Kid
  <2> DEFINE S == proc[Shell]
  <2>4. Wires(S)
    BY <2>2, <2>3 DEF Wired, Gone
  <2>5. S.pc = "exec" /\ Q.pc = "child" /\ SameFiles(S, Q)
    BY <2>1, <2>3 DEF ForkOf, At
  <2> HIDE DEF S, Q
  <2>6. Inherited(S)
    BY <2>4, <2>5 DEF Inherited, Wires, Redirecting
  <2>7. Inherited(Q)
    BY <2>5, <2>6, WiresFiles DEF Inherited
  <2>8. Tied(Q)
    BY <2>5, <2>7 DEF Tied
  <2> QED BY <2>1, <2>3, <2>8 DEF Forked, Q
<1>5. CASE ChildSetup(r)
  <2> DEFINE S == setup_child_process_fd_flg(P)
  <2>1. /\ P.pc = "child" /\ At(Q, "cmd", n) /\ Q.fds = S.fds /\ Q.fd_num = P.fd_num
    BY <1>5, ChildSetupDoes
  <2>2. Std(P) /\ Inherited(P)
    BY <1>1, <2>1 DEF Steady, Gone, Tied
  <2>3. /\ \A fd \in FD \ {0, 1} : S.fds[fd] \in {Closed, Tty}
        /\ S.fds[0] = In(P) /\ S.fds[1] = Out(P)
    BY <1>1, <2>1, <2>2, SetupTies
  <2> HIDE DEF S
  <2>4. Q.pc = "cmd" /\ Q.node = n
    BY <2>1 DEF At
  <2>5. Settled(Q)
    BY <2>1, <2>2, <2>3 DEF Settled, Inherited, Files
  <2>6. In(Q) = In(P) /\ Out(Q) = Out(P)
    <3>1. In(Q) = Q.fds[0] /\ Out(Q) = Q.fds[1]
      BY <2>4 DEF In, Out, STDIN_FILENO, STDOUT_FILENO
    <3> QED BY <2>1, <2>3, <3>1
  <2> QED BY <2>1, <2>4, <2>5, <2>6 DEF Tied, Carried, Gone
<1>6. CASE exec_cmd(r) \/ exec_cmd_with_heredoc(r)
  <2>1. /\ P.pc = "cmd" /\ n \in Node /\ Ast[n].kind = "ND_CMD"
        /\ \/ Gone(Q)
           \/ /\ Q.node = n /\ Expanded(P, Q)
              /\ SameFiles(P, Q) \/ HasHeredoc(P)
    BY <1>6, exec_cmdDoes DEF NewBody
  <2>2. P.is_exec_in_child_ps /\ Settled(P) /\ ~ Gone(P)
    BY <1>1, <2>1 DEF Kid, Tied, Gone
  <2>3. ~ HasHeredoc(P)
    <3>1. Ast[n].left # 0 => Ast[n].left \in RedirectNode
      BY <2>1, NodeShape
    <3>2. P.fd_num = NoHeredocs
      BY <2>2 DEF Settled
    <3> QED BY <3>1, <3>2 DEF HasHeredoc, NoHeredocs
  <2>4. CASE ~ Gone(Q)
    <3>1. Q.node = n /\ SameFiles(P, Q)
          /\ Q.pc \in {"redirect", "builtin", "program"}
          /\ (Q.pc = "redirect" => Q.i = 1 /\ Ast[n].left # 0)
      BY <2>1, <2>2, <2>3, <2>4 DEF Expanded
    <3>2. Q.pc = "redirect" => Q.i \in DOMAIN Ast[ListOf(Q)].redirects
      BY <2>1, <3>1, NodeShape, FirstOperator DEF ListOf
    <3>3. P.pc # "child" /\ Q.pc # "child"
      BY <2>1, <3>1
    <3> HIDE DEF P, Q
    <3>4. Carried(P, Q) /\ Settled(Q)
      BY <2>2, <2>4, <3>1, <3>3, CarriedSame DEF n
    <3> QED BY <3>2, <3>3, <3>4 DEF Tied
  <2> QED BY <1>2, <2>4
<1>7. CASE apply_redirects(r)
  <2> DEFINE A == Applied(P)
  <2>1. P.pc = "redirect" /\ n \in Node /\ P.is_exec_in_child_ps /\ Ast[n].kind = "ND_CMD"
        /\ Ast[n].left # 0 /\ Settled(P) /\ P.i \in DOMAIN Ast[ListOf(P)].redirects
        /\ ~ Gone(P)
    BY <1>1, <1>7 DEF apply_redirects, Kid, Listed, Tied, Gone
  <2>2. \/ Gone(Q)
        \/ Redirected(P, A, Q)
    BY <1>7, apply_redirectsDoes
  <2>3. /\ Operator(P).op # "<<" /\ Settled(A)
        /\ ~ Redirects(n, {">", ">>"}) => A.fds[1] = P.fds[1]
        /\ ~ Redirects(n, {"<", "<<"}) => A.fds[0] = P.fds[0]
    BY <1>1, <2>1, RedirectTies
  <2> HIDE DEF A
  <2>4. CASE ~ Gone(Q)
    <3>1. /\ Q.node = n /\ Q.pc \in {"redirect", "builtin", "program"} /\ SameFiles(A, Q)
          /\ Q.pc = "redirect" => Q.i = P.i + 1 /\ P.i # Len(Ast[ListOf(P)].redirects)
      BY <2>1, <2>2, <2>3, <2>4 DEF Redirected, At
    <3>2. Q.pc = "redirect" => Q.i \in DOMAIN Ast[ListOf(Q)].redirects
      <4>1. ListOf(Q) = ListOf(P) /\ ListOf(P) \in Node
        BY <2>1, <3>1, NodeShape DEF ListOf, RedirectNode
      <4>2. Ast[ListOf(P)].redirects \in Seq(Redirect)
        BY <4>1, NodeShape
      <4> QED BY <2>1, <3>1, <4>1, <4>2
    <3>3. /\ In(P) = P.fds[0] /\ Out(P) = P.fds[1] /\ In(Q) = A.fds[0] /\ Out(Q) = A.fds[1]
      BY <2>1, <3>1 DEF In, Out, SameFiles, STDIN_FILENO, STDOUT_FILENO
    <3>4. Carried(P, Q)
      BY <2>1, <2>3, <3>1, <3>3 DEF Carried
    <3>5. Settled(Q)
      BY <2>3, <3>1 DEF Settled, SameFiles
    <3> QED BY <3>1, <3>2, <3>4, <3>5 DEF Tied
  <2> QED BY <1>2, <2>2, <2>4
<1>8. CASE run_builtin(r)
  <2>1. P.pc = "builtin" /\ (Gone(Q) \/ ~ P.is_exec_in_child_ps)
    BY <1>8, run_builtinDoes
  <2> QED BY <1>1, <1>2, <2>1 DEF Kid
<1>9. CASE RunsOn(r)
  <2>1. P.pc \in {"program", "builtin"}
        /\ (Gone(Q) \/ (Q.pc = P.pc /\ Q.node = n /\ SameFiles(P, Q)))
    BY <1>9, RunsOnDoes DEF At
  <2>2. CASE ~ Gone(Q)
    <3>1. Q.pc = P.pc /\ Q.node = n /\ SameFiles(P, Q) /\ ~ Gone(P) /\ Settled(P)
      BY <2>1, <2>2 DEF Tied, Gone
    <3> HIDE DEF P, Q
    <3>2. Carried(P, Q) /\ Settled(Q)
      BY <2>2, <3>1, CarriedSame DEF n
    <3> QED BY <2>1, <3>1, <3>2 DEF Tied
  <2> QED BY <1>2, <2>1, <2>2
<1>10. ASSUME \/ ReadLine(r) \/ EndOfInput(r) \/ Heredoc(r) \/ HeredocsRead(r) \/ exec_pipe(r)
              \/ exec_logical(r) \/ exec_round_brackets(r) \/ exec_redirect(r)
              \/ exec_cmd_here(r) \/ exec_cmd_forked(r) \/ ReturnFromRight(r)
              \/ ReturnFromPipeLeft(r) \/ ReturnAndWait(r) \/ WaitChild(r) \/ WaitNoChild(r)
              \/ exec_and_node(r) \/ exec_or_node(r) \/ EndOfBrackets(r) \/ EndOfLine(r)
       PROVE  FALSE
  <2>1. P.pc \in {"prompt", "heredoc", "exec", "return", "wait", "decide"}
    BY <1>10 DEF ReadLine, EndOfInput, Heredoc, HeredocsRead, exec_pipe, exec_logical,
       exec_round_brackets, exec_redirect, exec_cmd_here, exec_cmd_forked, AtNode,
       ReturnFromRight, ReturnFromPipeLeft, ReturnAndWait, WaitChild, WaitNoChild, exec_and_node,
       exec_or_node, EndOfBrackets, EndOfLine, Deciding
  <2> QED BY <1>1, <2>1 DEF Kid
<1> HIDE DEF ok
<1> QED BY <1>2, <1>3, <1>4, <1>5, <1>6, <1>7, <1>8, <1>9, <1>10, Happens
        DEF Aside, Advances, Step, RunsOn

\* Once the shell has ended, it has ended for good.
LEMMA GoneStays ==
    ASSUME TypeOK, [Next]_vars, Gone(proc[Shell])
    PROVE  Gone(proc'[Shell])
<1> DEFINE P == proc[Shell]
           Q == proc'[Shell]
<1>1. Shell \in Proc
  BY BoundsAssumption DEF Shell, Proc
<1>2. CASE Aside(P, Q)
  BY <1>2 DEF Aside, Alike, At, Gone
<1>3. ASSUME Advances(Shell) PROVE FALSE
  BY <1>3 DEF Advances, Step, Gone, ReadLine, EndOfInput, Heredoc, HeredocsRead, exec_pipe,
     exec_logical, exec_round_brackets, exec_redirect, exec_cmd_here, exec_cmd_forked, AtNode,
     ChildSetup, exec_cmd, exec_cmd_with_heredoc, apply_redirects, run_builtin, Write, Read,
     ReadEof, Reading, ProgramExit, ReturnFromRight, ReturnFromPipeLeft, ReturnAndWait, WaitChild,
     WaitNoChild, exec_and_node, exec_or_node, EndOfBrackets, EndOfLine, Deciding
<1> QED BY <1>1, <1>2, <1>3, Happens DEF NewChild

\* As long as the shell runs, every other process, a zombie too, is its child.
Own(r) == ~ Gone(proc[Shell]) /\ proc[r].pc # "free" => proc[r].parent = Shell

\* Own is an invariant.
LEMMA OwnKept ==
    ASSUME TypeOK, [Next]_vars, \A p \in Proc \ {Shell} : Kid(proc[p]),
           NEW r \in Proc \ {Shell}, Own(r), ~ Gone(proc'[Shell]), proc'[r].pc # "free"
    PROVE  proc'[r].parent = Shell
<1> DEFINE P == proc[r]
           Q == proc'[r]
<1>1. /\ proc \in [Proc -> Good] /\ Shell \in Proc /\ 0 \notin Proc
      /\ ~ Gone(proc[Shell])
  BY ProcType, GoneStays, BoundsAssumption DEF Shell, Proc
<1>2. ~ Gone(proc'[Shell])
  OBVIOUS
<1>3. CASE Q = P
  BY <1>1, <1>3 DEF Own
<1>4. ASSUME NEW p \in Proc, NEW X, Set(p, X), p = r => P.pc # "free" /\ X.parent = P.parent
      PROVE  Q.parent = Shell
  <2>1. p = r => Q = X
    BY <1>1, <1>4 DEF Set
  <2>2. p # r => Q = P
    BY <1>1, <1>4 DEF Set
  <2> QED BY <1>1, <1>3, <1>4, <2>1, <2>2 DEF Own
<1>5. ASSUME NEW p \in Proc, NEW s \in 0 .. 255, Exit(p, s), proc[p].pc # "free"
      PROVE  Q.parent = Shell
  <2>1. Gone(proc'[p])
    BY <1>1, <1>5, ExitDoes DEF Exit
  <2>2. p # Shell
    BY <2>1
  <2>3. CASE p = r
    <3> DEFINE Z == [NoProcess EXCEPT !.pc = "zombie", !.c_status = s, !.parent = P.parent]
    <3>1. P.parent = Shell
      BY <1>1, <1>5, <2>3 DEF Own
    <3>2. Q = Z
      BY <1>1, <1>5, <2>3, <3>1 DEF Exit, ExitIn
    <3>3. Z.parent = P.parent
      BY DEF NoProcess
    <3> QED BY <3>1, <3>2, <3>3
  <2>4. CASE p # r
    <3>1. Q = (IF P.parent = p THEN IF P.pc = "zombie" THEN NoProcess ELSE [P EXCEPT !.parent = 0]
               ELSE P)
      BY <1>1, <1>5, <2>4 DEF Exit, ExitIn
    <3>2. CASE P.parent = p
      <4>1. P.pc = "free"
        BY <1>1, <2>2, <3>2 DEF Own
      <4>2. [P EXCEPT !.parent = 0].pc = "free"
        BY <1>1, <4>1 DEF Good, Process
      <4> QED BY <3>1, <3>2, <4>1, <4>2
    <3> QED BY <1>3, <3>1, <3>2
  <2> QED BY <2>3, <2>4
<1>6. ASSUME NEW p \in Proc, Plain(p) PROVE Q.parent = Shell
  <2>1. proc[p].pc # "free"
    BY <1>6 DEF Plain, EndOfInput, Heredoc, HeredocsRead, exec_pipe, exec_logical,
       exec_round_brackets, exec_redirect, exec_cmd_here, AtNode, ChildSetup, exec_cmd,
       exec_cmd_with_heredoc, apply_redirects, run_builtin, Write, Read, ReadEof, Reading,
       ProgramExit, ReturnFromRight, ReturnFromPipeLeft
  <2>2. CASE \E X : GoesOn(proc[p], X) /\ Set(p, X)
    <3>1. PICK X : GoesOn(proc[p], X) /\ Set(p, X)
      BY <2>2
    <3>2. X.parent = proc[p].parent
      BY <3>1 DEF GoesOn, Carries
    <3> QED BY <1>4, <2>1, <3>1, <3>2
  <2> QED BY <1>5, <1>6, <2>1, <2>2, PlainMoves DEF Moves
<1>7. ASSUME NEW p \in Proc, Clearing(p) \/ ReturnAndWait(p) \/ WaitNoChild(p)
      PROVE  Q.parent = Shell
  <2>1. p = Shell
    <3>1. proc[p].pc \in {"prompt", "decide", "return", "wait"}
      BY <1>7 DEF Clearing, ReadLine, exec_and_node, exec_or_node, EndOfBrackets, EndOfLine,
         Deciding, ReturnAndWait, WaitNoChild
    <3> QED BY <3>1 DEF Kid
  <2>2. CASE Clearing(p)
    BY <1>1, <1>4, <1>5, <2>1, <2>2, ClearingClears DEF Clears, Gone
  <2>3. CASE ReturnAndWait(p)
    BY <1>4, <2>1, <2>3, ReturnAndWaitShape
  <2>4. CASE WaitNoChild(p)
    BY <1>4, <2>1, <2>4 DEF WaitNoChild
  <2> QED BY <1>7, <2>2, <2>3, <2>4
<1>8. ASSUME NEW p \in Proc, WaitChild(p) PROVE Q.parent = Shell
  <2>1. p = Shell
    BY <1>8 DEF WaitChild, Kid
  <2>2. PICK q \in Awaited(p) :
          proc' = [proc EXCEPT ![q] = NoProcess,
                               ![p] = AfterWaitpid(proc[p], proc[q].c_status)]
    BY <1>8 DEF WaitChild
  <2>3. Q = NoProcess \/ Q = P
    BY <1>1, <2>1, <2>2
  <2>4. NoProcess.pc = "free"
    BY DEF NoProcess
  <2> QED BY <1>3, <2>3, <2>4
<1>9. ASSUME NEW p \in Proc, exec_cmd_forked(p) PROVE Q.parent = Shell
  <2>1. p = Shell /\ proc[p] \in Process
    BY <1>9, Here DEF exec_cmd_forked, AtNode, Kid
  <2>2. EXIT_FAILURE \in 0 .. 255
    BY DEF EXIT_FAILURE
  <2>3. CASE Exit(p, EXIT_FAILURE)
    BY <1>1, <1>5, <2>1, <2>3, <2>2 DEF Gone
  <2>4. CASE FreeSlots # {} /\ proc' = ExitIn(AfterFork(p), p, EXIT_FAILURE)
    <3>1. AfterFork(p) \in [Proc -> Good]
      BY <1>9, <2>4, ForkType
    <3>2. Gone(proc'[Shell])
      BY <1>1, <2>1, <2>4, <2>2, <3>1, ExitDoes
    <3> QED BY <1>2, <3>2
  <2>5. CASE FreeSlots # {} /\ proc' = [AfterFork(p) EXCEPT ![p] = ParentDone(p)]
    <3>1. AfterFork(p) \in [Proc -> Good]
      BY <1>9, <2>5, ForkType
    <3>2. Q = AfterFork(p)[r]
      BY <2>1, <2>5, <3>1
    <3>3. CASE r = NewProcess
      <4>1. Q = ForkedChild(p)
        BY <1>1, <2>1, <3>2, <3>3 DEF AfterFork
      <4>2. ForkedChild(p).parent = p
        BY <2>1 DEF ForkedChild, Process
      <4> QED BY <2>1, <4>1, <4>2
    <3>4. CASE r # NewProcess
      <4>1. Q = P
        BY <1>1, <2>1, <3>2, <3>4 DEF AfterFork
      <4> QED BY <1>3, <4>1
    <3> QED BY <3>3, <3>4
  <2> QED BY <1>9, <2>3, <2>4, <2>5, ForkCases
<1>10. CASE UNCHANGED vars
  BY <1>3, <1>10 DEF vars
<1>11. ASSUME NEW p \in Proc, Advances(p) PROVE Q.parent = Shell
  BY <1>6, <1>7, <1>8, <1>9, <1>11 DEF Advances, Step, Plain, Clearing
<1>12. Next \/ UNCHANGED vars
  OBVIOUS
<1> QED BY <1>10, <1>11, <1>12 DEF Next, Advances, Ended

\* After the command at n of a pipeline comes what is at k.
Follows(n, k) ==
    \E m \in Node : /\ Ast[m].kind = "ND_PIPE" /\ Ast[m].left = n
                    /\ LET r == Ast[m].right
                       IN  k = r \/ (Ast[r].kind = "ND_PIPE" /\ k = Ast[r].left)

\* Follows goes on from Feeds, and only into pipelines.
LEMMA FollowsIs ==
    ASSUME NEW n \in Node, NEW k \in Node
    PROVE  /\ Feeds(n, k) => Follows(n, k)
           /\ Follows(n, k) => Parent[k] # 0 /\ Ast[Parent[k]].kind = "ND_PIPE"
<1>1. Feeds(n, k) => Follows(n, k)
  BY DEF Feeds, Follows
<1>2. ASSUME Follows(n, k) PROVE Parent[k] # 0 /\ Ast[Parent[k]].kind = "ND_PIPE"
  <2>1. PICK m \in Node : /\ Ast[m].kind = "ND_PIPE" /\ Ast[m].left = n
                          /\ LET r == Ast[m].right
                             IN  k = r \/ (Ast[r].kind = "ND_PIPE" /\ k = Ast[r].left)
    BY <1>2 DEF Follows
  <2> DEFINE r == Ast[m].right
  <2>2. r \in Node /\ Parent[r] = m /\ m # 0 /\ r # 0
    <3>1. r \in Node
      BY <2>1, NodeShape
    <3> QED BY <3>1, Nodes, RightChild
  <2>3. CASE k = r
    BY <2>1, <2>2, <2>3
  <2>4. CASE Ast[r].kind = "ND_PIPE" /\ k = Ast[r].left
    <3>1. Parent[k] = r
      BY <2>2, <2>4, LeftIs
    <3> QED BY <2>2, <2>4, <3>1
  <2> QED BY <2>1, <2>3, <2>4
<1> QED BY <1>1, <1>2

\* Who is fed by a command comes later in the tree.
LEMMA FeedsUp ==
    ASSUME NEW n \in Node, NEW k \in Node, Ast[k].kind = "ND_CMD", Feeds(n, k)
    PROVE  n < k
<1>1. PICK m \in Node : /\ Ast[m].kind = "ND_PIPE" /\ Ast[m].left = n
                        /\ k = IF Ast[Ast[m].right].kind = "ND_PIPE"
                               THEN Ast[Ast[m].right].left ELSE Ast[m].right
  BY DEF Feeds
<1> DEFINE r == Ast[m].right
<1>2. r \in Node /\ r # 0 /\ r \in Nat /\ k \in Nat /\ n \in Nat
  <2>1. r \in Node
    BY <1>1, NodeShape
  <2> QED BY <2>1, Nodes
<1>3. First[r] = n + 1
  BY <1>1, <1>2, Order
<1>4. First[k] <= k /\ First[k] \in Nat
  BY Order
<1>5. CASE Ast[r].kind = "ND_PIPE"
  <2>1. k = Ast[r].left /\ k # 0
    BY <1>1, <1>5, Nodes
  <2>2. First[r] = First[k]
    BY <1>2, <2>1, Order
  <2> QED BY <1>2, <1>3, <1>4, <2>2
<1>6. CASE Ast[r].kind # "ND_PIPE"
  BY <1>1, <1>2, <1>3, <1>4, <1>6
<1> QED BY <1>5, <1>6

\* Where the shell is when the reader for the output of n is not there yet, and
\* where it is once it has forked for n.
Awaits(P, n) == \/ P.pc = "return" /\ P.node = n /\ n \in PipeLeft
                \/ P.pc = "exec" /\ Follows(n, P.node)
Past(P, n) == /\ P.pc \in {"exec", "cmd", "redirect", "builtin"} => n < First[P.node]
              /\ P.pc = "return" => n <= P.node

\* The shell goes on through the tree: it stays past the commands it has forked
\* for, and keeps the end of the last one's pipe until the reader is there.
LEMMA ShellPasses ==
    ASSUME Tidy, TypeOK, [Next]_vars, Sound, Wired(proc[Shell]), NEW n \in Node,
           Past(proc[Shell], n), proc[Shell].pc \notin {"prompt", "heredoc", "decide"}
    PROVE  LET P == proc[Shell]
               Q == proc'[Shell]
           IN  /\ Past(Q, n)
               /\ Awaits(Q, n) =>
                    /\ Awaits(P, n) /\ Q.pre_in_pipe_fd = P.pre_in_pipe_fd
                    /\ P.pre_in_pipe_fd # -1 =>
                         Q.fds[P.pre_in_pipe_fd] = P.fds[P.pre_in_pipe_fd]
<1> DEFINE P == proc[Shell]
           Q == proc'[Shell]
           x == P.node
           m == Parent[x]
           stays == Q.fds = P.fds /\ Q.pre_in_pipe_fd = P.pre_in_pipe_fd
           ok == /\ Past(Q, n)
                 /\ Awaits(Q, n) =>
                      /\ Awaits(P, n) /\ Q.pre_in_pipe_fd = P.pre_in_pipe_fd
                      /\ P.pre_in_pipe_fd # -1 =>
                           Q.fds[P.pre_in_pipe_fd] = P.fds[P.pre_in_pipe_fd]
<1> SUFFICES ok
  OBVIOUS
<1>1. Shell \in Proc /\ P \in Process /\ AtItsNode(P) /\ n \in Nat
  BY Here, Nodes, BoundsAssumption DEF Shell, Proc
<1>2. ASSUME Past(Q, n), ~ Awaits(Q, n) PROVE ok
  BY <1>2
<1>3. CASE Q.pc \notin {"exec", "cmd", "redirect", "builtin", "return"}
  <2>1. Past(Q, n) /\ ~ Awaits(Q, n)
    BY <1>3 DEF Past, Awaits
  <2> QED BY <1>2, <2>1
<1>4. CASE Alike(P, Q)
  BY <1>4 DEF Alike, At, SameFiles, SameHeld, Past, Awaits
<1>5. ASSUME x \in Node, Ast[x].kind \in {"ND_CMD", "ND_REDIRECTS"}, n < First[x]
      PROVE  n < x
  <2> HIDE DEF x
  <2>1. First[x] <= x /\ First[x] \in Nat /\ x \in Nat
    BY <1>5, Order
  <2> QED BY <1>1, <1>5, <2>1
<1>6. ASSUME Q.pc = "exec", Q.node \in Node, n < First[Q.node], ~ Follows(n, Q.node)
      PROVE  ok
  <2>1. Past(Q, n) /\ ~ Awaits(Q, n)
    BY <1>6 DEF Past, Awaits
  <2> QED BY <1>2, <2>1
<1>7. ASSUME Q.pc \in {"cmd", "redirect", "builtin"}, n < First[Q.node] PROVE ok
  <2>1. Past(Q, n) /\ ~ Awaits(Q, n)
    BY <1>7 DEF Past, Awaits
  <2> QED BY <1>2, <2>1
<1>8. ASSUME Q.pc = "return", Q.node \in Node, n < Q.node PROVE ok
  <2>1. n # Q.node /\ n <= Q.node
    BY <1>1, <1>8, Nodes
  <2>2. Past(Q, n) /\ ~ Awaits(Q, n)
    BY <1>8, <2>1 DEF Past, Awaits
  <2> QED BY <1>2, <2>2
<1>9. CASE Gone(Q)
  BY <1>3, <1>9 DEF Gone
<1>10. CASE exec_pipe(Shell)
  <2>1. P.pc = "exec" /\ x \in Node /\ Ast[x].kind = "ND_PIPE"
    BY <1>1, <1>10, exec_pipeDoes
  <2>2. CASE ~ Gone(Q)
    <3>1. PICK a \in FreeFds(P), b \in FreeFds(P), k \in UnusedPipes :
            /\ At(Q, "exec", Ast[x].left)
            /\ Q.fds = [P.fds EXCEPT ![a] = ReadEnd(k), ![b] = WriteEnd(k)]
            /\ Q.pre_in_pipe_fd = P.pre_in_pipe_fd
      BY <1>1, <1>10, <2>2, exec_pipeDoes
    <3>2. Q.pc = "exec" /\ Q.node = Ast[x].left
      BY <3>1 DEF At
    <3>3. /\ Ast[x].left \in Node /\ Parent[Ast[x].left] = x /\ Ast[x].left # 0
          /\ First[Ast[x].left] = First[x]
      <4>1. Ast[x].left \in Node /\ Parent[Ast[x].left] = x
        BY <2>1, LeftIs
      <4>2. Ast[x].left # 0
        BY <4>1, Nodes
      <4> QED BY <2>1, <4>1, <4>2, Order
    <3>4. n < First[x]
      BY <2>1 DEF Past
    <3>5. Past(Q, n)
      BY <3>2, <3>3, <3>4 DEF Past
    <3>6. ASSUME Follows(n, Ast[x].left) PROVE Follows(n, x)
      <4>1. PICK c \in Node :
              /\ Ast[c].kind = "ND_PIPE" /\ Ast[c].left = n
              /\ \/ Ast[x].left = Ast[c].right
                 \/ Ast[Ast[c].right].kind = "ND_PIPE" /\ Ast[x].left = Ast[Ast[c].right].left
        BY <3>6 DEF Follows
      <4>2. Ast[c].right \in Node /\ Ast[c].right # 0
        <5>1. Ast[c].right \in Node
          BY <4>1, NodeShape
        <5> QED BY <5>1, Nodes
      <4>3. Ast[x].left # Ast[c].right
        <5>1. Parent[Ast[c].right] = c /\ Ast[c].right # Ast[c].left
          BY <4>2, RightIs
        <5> QED BY <3>3, <5>1
      <4>4. Ast[Ast[c].right].kind = "ND_PIPE" /\ Ast[x].left = Ast[Ast[c].right].left
        BY <4>1, <4>3
      <4>5. Parent[Ast[x].left] = Ast[c].right
        BY <4>2, <4>4, LeftIs
      <4> QED BY <3>3, <4>1, <4>5 DEF Follows
    <3>7. Awaits(Q, n) => Awaits(P, n)
      BY <2>1, <3>2, <3>6 DEF Awaits
    <3>8. P.pre_in_pipe_fd # -1 => Q.fds[P.pre_in_pipe_fd] = P.fds[P.pre_in_pipe_fd]
      <4>1. SUFFICES ASSUME P.pre_in_pipe_fd # -1
                     PROVE  Q.fds[P.pre_in_pipe_fd] = P.fds[P.pre_in_pipe_fd]
        OBVIOUS
      <4>2. PICK j \in Pipe : P.fds[P.pre_in_pipe_fd] = ReadEnd(j)
        BY <2>1, <4>1 DEF Wired, Gone, Wires, Fed
      <4>3. P.fds[a] = Closed /\ P.fds[b] = Closed
        BY DEF FreeFds
      <4>4. P.pre_in_pipe_fd # a /\ P.pre_in_pipe_fd # b
        BY <4>2, <4>3 DEF ReadEnd, Closed
      <4>5. P.fds \in [FD -> Desc] /\ P.pre_in_pipe_fd \in FD
        BY <1>1, <4>1 DEF Process, FdOrNone
      <4> QED BY <3>1, <4>4, <4>5
    <3> QED BY <3>1, <3>5, <3>7, <3>8
  <2> QED BY <1>9, <2>2
<1>11. CASE exec_logical(Shell) \/ exec_round_brackets(Shell)
  <2>1. /\ P.pc = "exec" /\ x \in Node
        /\ Ast[x].kind \in {"ND_AND_OP", "ND_OR_OP", "ND_RND_BRACKET"}
        /\ Q.pc = "exec" /\ Q.node = Ast[x].left
    BY <1>1, <1>11, exec_logicalDoes, exec_round_bracketsDoes DEF At
  <2>2. Ast[x].left \in Node /\ Parent[Ast[x].left] = x
    BY <2>1, LeftIs
  <2>3. Ast[x].left # 0
    BY <2>2, Nodes
  <2>4. First[Ast[x].left] = First[x]
    BY <2>1, <2>3, Order
  <2>5. ~ Follows(n, Ast[x].left)
    BY <2>1, <2>2, FollowsIs
  <2>6. n < First[x]
    BY <2>1 DEF Past
  <2> HIDE DEF ok
  <2> QED BY <1>6, <2>1, <2>2, <2>4, <2>5, <2>6
<1>12. CASE exec_redirect(Shell) \/ exec_cmd_here(Shell)
  <2>1. P.pc = "exec" /\ Q.pc \in {"redirect", "cmd"} /\ Q.node = x
    BY <1>1, <1>12, exec_redirectDoes, exec_cmd_hereDoes DEF At
  <2>2. n < First[x]
    BY <2>1 DEF Past
  <2> HIDE DEF ok
  <2> QED BY <1>7, <2>1, <2>2
<1>13. CASE exec_cmd_forked(Shell)
  <2>1. /\ P.pc = "exec" /\ x \in Node /\ Ast[x].kind = "ND_CMD"
        /\ Gone(Q) \/ (Q.pc = "return" /\ Q.node = x)
    BY <1>1, <1>13, exec_cmd_forkedDoes DEF At
  <2>2. n < x
    BY <1>5, <2>1 DEF Past
  <2> HIDE DEF ok
  <2> QED BY <1>8, <1>9, <2>1, <2>2
<1>14. CASE exec_cmd(Shell) \/ exec_cmd_with_heredoc(Shell)
  <2>1. /\ P.pc = "cmd" /\ x \in Node /\ Ast[x].kind = "ND_CMD"
        /\ Gone(Q) \/ (Q.node = x /\ Q.pc \in {"return", "redirect", "builtin", "program"})
    BY <1>1, <1>14, exec_cmdDoes DEF Expanded
  <2>2. n < First[x]
    BY <2>1 DEF Past
  <2>3. n < x
    BY <1>5, <2>1, <2>2
  <2> HIDE DEF ok
  <2> QED BY <1>3, <1>7, <1>8, <1>9, <2>1, <2>2, <2>3
<1>15. CASE apply_redirects(Shell)
  <2>1. /\ P.pc = "redirect" /\ x \in Node /\ Ast[x].kind \in {"ND_CMD", "ND_REDIRECTS"}
        /\ Gone(Q) \/ (Q.node = x /\ Q.pc \in {"return", "redirect", "builtin", "program"})
    BY <1>1, <1>15, apply_redirectsDoes DEF Redirected, At
  <2>2. n < First[x]
    BY <2>1 DEF Past
  <2>3. n < x
    BY <1>5, <2>1, <2>2
  <2> HIDE DEF ok
  <2> QED BY <1>3, <1>7, <1>8, <1>9, <2>1, <2>2, <2>3
<1>16. CASE run_builtin(Shell) \/ RunsOn(Shell)
  <2>1. /\ P.pc \in {"program", "builtin"}
        /\ Gone(Q) \/ (Q.node = x /\ Q.pc = "return" /\ P.pc = "builtin")
                   \/ (Q.node = x /\ Q.pc = P.pc)
    BY <1>1, <1>16, run_builtinDoes, RunsOnDoes DEF At
  <2>2. x \in Node /\ Ast[x].kind = "ND_CMD"
    BY <1>1, <2>1 DEF AtItsNode
  <2>3. P.pc = "builtin" => n < First[x] /\ n < x
    BY <1>5, <2>2 DEF Past
  <2> HIDE DEF ok
  <2> QED BY <1>3, <1>7, <1>8, <1>9, <2>1, <2>2, <2>3
<1>17. CASE ReturnFromRight(Shell)
  <2>1. /\ P.pc = "return" /\ x \in Node /\ m # 0 /\ Ast[m].right = x
        /\ Q.pc = "return" /\ Q.node = m
    BY <1>1, <1>17, ReturnFromRightDoes DEF At
  <2>2. m \in Node /\ x < m
    BY <2>1, ParentChild
  <2>3. n <= x /\ x \in Nat /\ m \in Nat
    BY <2>1, <2>2, Nodes DEF Past
  <2>4. n < m
    BY <1>1, <2>2, <2>3
  <2> HIDE DEF ok
  <2> QED BY <1>8, <2>1, <2>2, <2>4
<1>18. CASE ReturnFromPipeLeft(Shell)
  <2> DEFINE b == Ast[m].right
  <2>1. /\ P.pc = "return" /\ x \in Node /\ m # 0
        /\ Ast[m].left = x /\ Ast[m].kind = "ND_PIPE"
        /\ Q.pc = "exec" /\ Q.node = b /\ stays
    BY <1>1, <1>18, ReturnFromPipeLeftDoes DEF At
  <2>2. m \in Node
    BY <2>1, ParentChild
  <2>3. b \in Node
    BY <2>1, <2>2, NodeShape
  <2>4. b # 0 /\ x \in Nat
    BY <2>1, <2>3, Nodes
  <2>5. Parent[b] = m /\ b # Ast[m].left
    BY <2>2, <2>4, RightIs
  <2>6. First[b] = x + 1
    BY <2>1, <2>2, <2>4, Order
  <2>7. n <= x
    BY <2>1 DEF Past
  <2>8. Past(Q, n)
    BY <1>1, <2>1, <2>4, <2>6, <2>7 DEF Past
  <2>9. ASSUME Follows(n, b) PROVE n = x
    <3>1. PICK c \in Node :
            /\ Ast[c].kind = "ND_PIPE" /\ Ast[c].left = n
            /\ \/ b = Ast[c].right
               \/ Ast[Ast[c].right].kind = "ND_PIPE" /\ b = Ast[Ast[c].right].left
      BY <2>9 DEF Follows
    <3>2. Ast[c].right \in Node
      BY <3>1, NodeShape
    <3>3. b # Ast[Ast[c].right].left \/ Ast[Ast[c].right].kind # "ND_PIPE"
      <4>1. SUFFICES ASSUME b = Ast[Ast[c].right].left, Ast[Ast[c].right].kind = "ND_PIPE"
                     PROVE  FALSE
        OBVIOUS
      <4>2. Parent[b] = Ast[c].right
        BY <3>2, <4>1, LeftIs
      <4> QED BY <2>5, <4>1, <4>2
    <3>4. b = Ast[c].right
      BY <3>1, <3>3
    <3>5. Parent[b] = c
      BY <2>4, <3>4, RightIs
    <3> QED BY <2>1, <2>5, <3>1, <3>5
  <2>10. x \in PipeLeft
    BY <2>1, <2>2 DEF PipeLeft
  <2>11. Awaits(Q, n) => Awaits(P, n)
    BY <2>1, <2>9, <2>10 DEF Awaits
  <2> QED BY <2>1, <2>8, <2>11
<1>19. CASE ReturnAndWait(Shell) \/ WaitChild(Shell) \/ WaitNoChild(Shell)
  <2>1. Q.pc \in {"wait", "decide"}
    BY <1>1, <1>19, ReturnAndWaitDoes, WaitDoes
  <2> QED BY <1>3, <2>1
<1>20. ASSUME \/ ReadLine(Shell) \/ EndOfInput(Shell) \/ Heredoc(Shell) \/ HeredocsRead(Shell)
              \/ ChildSetup(Shell) \/ exec_and_node(Shell) \/ exec_or_node(Shell)
              \/ EndOfBrackets(Shell) \/ EndOfLine(Shell)
       PROVE  FALSE
  <2>1. P.pc \in {"prompt", "heredoc", "decide", "child"}
    BY <1>20 DEF ReadLine, EndOfInput, Heredoc, HeredocsRead, ChildSetup, exec_and_node,
       exec_or_node, EndOfBrackets, EndOfLine, Deciding
  <2> QED BY <2>1 DEF Sound, ShellRuns
<1> HIDE DEF ok
<1> QED BY <1>1, <1>4, <1>9, <1>10, <1>11, <1>12, <1>13, <1>14, <1>15, <1>16, <1>17, <1>18, <1>19,
           <1>20, Happens DEF Aside, NewChild, Advances, Step, RunsOn

\* The two ends of one pipe, held by the command R and the shell, or by two
\* commands.
Joined(x, y) == \E k \in Pipe : x = WriteEnd(k) /\ y = ReadEnd(k)
Gives(P, R) ==
    ~ Gone(R) /\ Awaits(P, R.node) /\ ~ Redirects(R.node, {">", ">>"})
    => P.pre_in_pipe_fd # -1 /\ Joined(Out(R), P.fds[P.pre_in_pipe_fd])
Linked(R, S) ==
    /\ ~ Gone(R) /\ ~ Gone(S) /\ Feeds(R.node, S.node)
    /\ ~ Redirects(R.node, {">", ">>"}) /\ ~ Redirects(S.node, {"<", "<<"})
    => Joined(Out(R), In(S))

\* How a command that runs stands to the shell.
Stands(P, R) == (~ Gone(R) => Past(P, R.node)) /\ Gives(P, R)

\* A shell that is gone is past every command and waits for none.
LEMMA GoneStands ==
    ASSUME NEW P, NEW R, Gone(P)
    PROVE  Stands(P, R)
BY DEF Stands, Gives, Past, Awaits, Gone

\* A fork gives the child both ends, and the shell keeps the one to read from.
LEMMA ForkStands ==
    ASSUME Tidy, TypeOK, Sound, Wired(proc[Shell]), NEW r \in Proc \ {Shell}, Forked(r)
    PROVE  Stands(proc'[Shell], proc'[r])
<1> DEFINE P == proc[Shell]
           Q == proc'[Shell]
           R == proc'[r]
           n == P.node
           D == CloseHeredoc(reset_parent_process_fd(P))
<1>1. Shell \in Proc /\ P \in Process
  BY Here, BoundsAssumption DEF Shell, Proc
<1>2. /\ P.pc = "exec" /\ n \in Node /\ Ast[n].kind = "ND_CMD"
      /\ R.pc = "child" /\ R.node = n /\ SameFiles(P, R)
  BY DEF Forked, ForkOf, At
<1>3. Gone(Q) \/ (Q.pc = "return" /\ Q.node = n /\ SameFiles(D, Q))
  BY <1>1, exec_cmd_forkedDoes DEF Forked, At
<1>4. CASE Gone(Q)
  BY <1>4, GoneStands
<1>5. CASE Q.pc = "return" /\ Q.node = n /\ SameFiles(D, Q)
  <2>1. Past(Q, R.node)
    <3>1. n \in Nat
      BY <1>2, Nodes
    <3> QED BY <1>2, <1>5, <3>1 DEF Past
  <2>2. ASSUME Awaits(Q, R.node)
        PROVE  Q.pre_in_pipe_fd # -1 /\ Joined(Out(R), Q.fds[Q.pre_in_pipe_fd])
    <3>1. n \in PipeLeft
      BY <1>2, <1>5, <2>2 DEF Awaits
    <3>2. Std(P) /\ Wires(P) /\ Piped(P) /\ Inherited(P)
      BY <1>1, <1>2, <3>1 DEF Sound, Steady, Wired, Gone, Wires, Begins, Redirecting, Inherited
    <3>3. PICK k \in Pipe : /\ P.fds[P.in_pipe_fd] = ReadEnd(k)
                            /\ P.fds[P.out_pipe_fd] = WriteEnd(k)
      BY <3>2 DEF Piped
    <3>4. P.in_pipe_fd # -1 /\ P.out_pipe_fd \notin {-1, STDOUT_FILENO}
      BY <3>2 DEF Piped
    <3>5. D.pre_in_pipe_fd = P.in_pipe_fd /\ D.fds[P.in_pipe_fd] = P.fds[P.in_pipe_fd]
      BY <1>1, <1>2, <3>2, <3>4, ParentKeeps DEF Inherited
    <3> HIDE DEF D
    <3>6. Q.pre_in_pipe_fd = P.in_pipe_fd /\ Q.fds[Q.pre_in_pipe_fd] = ReadEnd(k)
      BY <1>5, <3>3, <3>5 DEF SameFiles, SameHeld
    <3>7. Out(R) = WriteEnd(k)
      BY <1>2, <3>3, <3>4 DEF Out, SameFiles, SameHeld
    <3> QED BY <3>4, <3>6, <3>7 DEF Joined
  <2>3. Stands(Q, R)
    <3> HIDE DEF Q, R
    <3> QED BY <2>1, <2>2 DEF Stands, Gives
  <2> QED BY <2>3
<1> QED BY <1>3, <1>4, <1>5

\* What holds of the commands that run, and of each two of them.
Others == Proc \ {Shell}
Tree == \A r \in Others : Kid(proc[r]) /\ Tied(proc[r]) /\ Own(r) /\ Stands(proc[Shell], proc[r])
Links == \A r, s \in Others : Linked(proc[r], proc[s])

\* The node of a command that runs.
LEMMA KidNode ==
    ASSUME TypeOK, NEW r \in Others, Kid(proc[r]), ~ Gone(proc[r])
    PROVE  proc[r].node \in Node /\ Ast[proc[r].node].kind = "ND_CMD"
<1>1. AtItsNode(proc[r])
  BY DEF TypeOK, Others
<1> QED BY <1>1 DEF Kid, AtItsNode, Gone

\* Between two lines, and when the shell decides, none runs.
LEMMA NoneLeft ==
    ASSUME NoLostChild, ~ Gone(proc[Shell]), NEW r \in Others, Own(r),
           proc[Shell].pc \in {"prompt", "heredoc", "decide"}
    PROVE  Gone(proc[r])
<1>1. Shell \in Proc
  BY BoundsAssumption DEF Shell, Proc
<1>2. ChildrenOf(Shell) = {}
  BY <1>1 DEF NoLostChild, RunsShellCode
<1>3. proc[r].parent # Shell
  BY <1>2 DEF ChildrenOf, Others
<1> QED BY <1>3 DEF Own, Gone

\* Stands is an invariant of the shell and each of its children,
LEMMA StandsKept ==
    ASSUME Tidy, TypeOK, [Next]_vars, NoLostChild, Sound, Wired(proc[Shell]), Tree,
           NEW r \in Others
    PROVE  Stands(proc'[Shell], proc'[r])
<1> DEFINE P == proc[Shell]
           Q == proc'[Shell]
           R == proc[r]
           S == proc'[r]
           n == R.node
<1>1. Gone(S) \/ Carried(R, S) \/ Forked(r)
  BY KidPasses DEF Tree, Others
<1>2. CASE Forked(r)
  BY <1>2, ForkStands DEF Others
<1>3. CASE Gone(S)
  BY <1>3 DEF Stands, Gives
<1>4. CASE Gone(Q)
  BY <1>4, GoneStands
<1>5. CASE Carried(R, S) /\ ~ Gone(Q)
  <2>1. ~ Gone(R) /\ S.node = n
    BY <1>5 DEF Carried
  <2>2. n \in Node
    BY <2>1, KidNode DEF Tree
  <2>3. ~ Gone(P)
    BY <1>5, GoneStays
  <2>4. P.pc \notin {"prompt", "heredoc", "decide"}
    BY <2>1, <2>3, NoneLeft DEF Tree
  <2>5. Past(P, n) /\ Gives(P, R)
    BY <2>1 DEF Tree, Stands
  <2>6. /\ Past(Q, n)
        /\ Awaits(Q, n) =>
             /\ Awaits(P, n) /\ Q.pre_in_pipe_fd = P.pre_in_pipe_fd
             /\ P.pre_in_pipe_fd # -1 =>
                  Q.fds[P.pre_in_pipe_fd] = P.fds[P.pre_in_pipe_fd]
    BY <2>2, <2>4, <2>5, ShellPasses
  <2>7. ~ Redirects(n, {">", ">>"}) => Out(S) = Out(R)
    BY <1>5 DEF Carried
  <2>8. Stands(Q, S)
    <3> HIDE DEF P, Q, R, S
    <3> QED BY <2>1, <2>5, <2>6, <2>7 DEF Stands, Gives, n
  <2> QED BY <2>8
<1> QED BY <1>1, <1>2, <1>3, <1>4, <1>5

\* and Linked one of each two of them.
LEMMA LinkedKept ==
    ASSUME Tidy, TypeOK, [Next]_vars, Sound, Wired(proc[Shell]), Tree, Links,
           NEW r \in Others, NEW s \in Others
    PROVE  Linked(proc'[r], proc'[s])
<1> DEFINE P == proc[Shell]
           R == proc[r]
           S == proc[s]
           R1 == proc'[r]
           S1 == proc'[s]
           a == R1.node
           b == S1.node
<1>1. SUFFICES ASSUME ~ Gone(R1), ~ Gone(S1), Feeds(a, b),
                      ~ Redirects(a, {">", ">>"}), ~ Redirects(b, {"<", "<<"})
               PROVE  Joined(Out(R1), In(S1))
  BY DEF Linked
<1>2. (Carried(R, R1) \/ Forked(r)) /\ (Carried(S, S1) \/ Forked(s))
  BY <1>1, KidPasses DEF Tree, Others
<1>3. \A q \in Others : Forked(q) =>
        /\ P.pc = "exec" /\ P.node \in Node /\ Ast[P.node].kind = "ND_CMD"
        /\ proc'[q].node = P.node /\ proc'[q].pc = "child" /\ SameFiles(P, proc'[q])
  BY DEF Forked, ForkOf, At
<1>4. \A q \in Others : Carried(proc[q], proc'[q]) =>
        /\ ~ Gone(proc[q]) /\ proc'[q].node = proc[q].node
        /\ proc[q].node \in Node /\ Ast[proc[q].node].kind = "ND_CMD"
  BY KidNode DEF Carried, Tree
<1>5. /\ a \in Node /\ b \in Node /\ Ast[b].kind = "ND_CMD"
  BY <1>2, <1>3, <1>4
<1>6. a < b
  <2> HIDE DEF a, b
  <2> QED BY <1>1, <1>5, FeedsUp
<1>7. CASE Carried(R, R1) /\ Carried(S, S1)
  <2>1. a = R.node /\ b = S.node /\ ~ Gone(R) /\ ~ Gone(S)
        /\ Out(R1) = Out(R) /\ In(S1) = In(S)
    BY <1>1, <1>7 DEF Carried
  <2>2. Linked(R, S)
    BY DEF Links
  <2> QED BY <1>1, <2>1, <2>2 DEF Linked
<1>8. CASE Carried(R, R1) /\ Forked(s)
  <2>1. a = R.node /\ ~ Gone(R) /\ Out(R1) = Out(R)
    BY <1>1, <1>8 DEF Carried
  <2>2. P.pc = "exec" /\ b = P.node /\ S1.pc = "child" /\ SameFiles(P, S1)
    BY <1>3, <1>8
  <2>3. Follows(a, b)
    <3> HIDE DEF a, b
    <3> QED BY <1>1, <1>5, FollowsIs
  <2>4. Awaits(P, R.node)
    BY <2>1, <2>2, <2>3 DEF Awaits
  <2>5. Gives(P, R)
    BY DEF Tree, Stands
  <2>6. P.pre_in_pipe_fd # -1 /\ Joined(Out(R), P.fds[P.pre_in_pipe_fd])
    BY <1>1, <2>1, <2>4, <2>5 DEF Gives
  <2>7. In(S1) = P.fds[P.pre_in_pipe_fd]
    BY <2>2, <2>6 DEF In, SameFiles, SameHeld
  <2> QED BY <2>1, <2>6, <2>7
<1>9. CASE Forked(r) /\ Carried(S, S1)
  <2>1. P.pc = "exec" /\ a = P.node /\ Ast[a].kind = "ND_CMD" /\ b = S.node /\ ~ Gone(S)
    BY <1>3, <1>4, <1>9
  <2>2. b < First[a]
    BY <2>1 DEF Tree, Stands, Past
  <2>3. First[a] <= a /\ First[a] \in Nat /\ a \in Nat /\ b \in Nat
    <3> HIDE DEF a, b
    <3> QED BY <1>5, <2>1, Order, Nodes
  <2> QED BY <1>6, <2>2, <2>3
<1>10. CASE Forked(r) /\ Forked(s)
  <2>1. a = b /\ a \in Nat
    BY <1>3, <1>5, <1>10, Nodes
  <2> QED BY <1>6, <2>1
<1> QED BY <1>2, <1>7, <1>8, <1>9, <1>10

\* PipelineWired: in such a line, whatever the order in which the children and
\* the shell go on, the commands of a pipeline that run are joined by the pipe
\* exec_pipe made between them, and hold no other end of a pipe.
THEOREM PipelinesAreWired ==
    ASSUME Tidy
    PROVE  Spec => []PipelineWired
<1> DEFINE Inv == Sound /\ Wired(proc[Shell]) /\ Tree /\ Links
<1>1. Init => Inv
  <2>1. SUFFICES ASSUME Init PROVE Tree /\ Links
    BY SoundFirst, WiresFirst
  <2>2. \A r \in Others : Gone(proc[r]) /\ proc[r].pc = "free" /\ Kid(proc[r])
    <3>1. \A r \in Others : proc[r] = NoProcess
      BY <2>1 DEF Init, Others
    <3>2. NoProcess.pc = "free"
      BY DEF NoProcess
    <3> QED BY <2>1, <3>1, <3>2, KidsFirst DEF Gone, Others
  <2>3. Tree
    BY <2>2 DEF Tree, Tied, Own, Stands, Gives
  <2>4. Links
    BY <2>2 DEF Links, Linked
  <2> QED BY <2>3, <2>4
<1>2. TypeOK /\ NoLostChild /\ [Next]_vars /\ Inv => Inv'
  <2>1. SUFFICES ASSUME TypeOK, NoLostChild, [Next]_vars, Sound, Wired(proc[Shell]), Tree, Links
                 PROVE  Inv'
    OBVIOUS
  <2>2. Sound' /\ Wired(proc'[Shell])
    BY <2>1, SoundKept, WiresKept
  <2>3. \A r \in Others : Kid(proc'[r])
    BY <2>1, TidyGives, KidsKept DEF Tree, Others
  <2>4. ASSUME NEW r \in Others PROVE Tied(proc'[r])
    BY <2>1, KidPasses DEF Tree, Others
  <2>5. ASSUME NEW r \in Others, ~ Gone(proc'[Shell]), proc'[r].pc # "free"
        PROVE  proc'[r].parent = Shell
    BY <2>1, <2>5, OwnKept DEF Tree, Others
  <2>6. ASSUME NEW r \in Others PROVE Stands(proc'[Shell], proc'[r])
    BY <2>1, StandsKept
  <2>7. Tree'
    BY <2>3, <2>4, <2>5, <2>6 DEF Tree, Own
  <2>8. \A r, s \in Others : Linked(proc'[r], proc'[s])
    BY <2>1, LinkedKept
  <2>9. Links'
    BY <2>8 DEF Links
  <2> QED BY <2>2, <2>7, <2>9
<1>3. TypeOK /\ Inv => PipelineWired
  <2>1. SUFFICES ASSUME TypeOK, Sound, Tree, Links PROVE PipelineWired
    OBVIOUS
  <2>2. \A p \in Proc : Runs(p) => p \in Others /\ ~ Gone(proc[p]) /\ proc[p].pc # "child"
    BY <2>1 DEF Runs, Others, Sound, ShellRuns, Gone
  <2>3. ASSUME NEW p \in Proc, NEW q \in Proc, Runs(p), Runs(q),
               Feeds(proc[p].node, proc[q].node),
               ~ Redirects(proc[p].node, {">", ">>"}), ~ Redirects(proc[q].node, {"<", "<<"})
        PROVE  \E k \in Pipe : /\ proc[p].fds[STDOUT_FILENO] = WriteEnd(k)
                               /\ proc[q].fds[STDIN_FILENO] = ReadEnd(k)
    <3>1. p \in Others /\ q \in Others /\ ~ Gone(proc[p]) /\ ~ Gone(proc[q])
      BY <2>2, <2>3
    <3>2. Linked(proc[p], proc[q])
      BY <2>1, <3>1 DEF Links
    <3>3. Joined(Out(proc[p]), In(proc[q]))
      BY <2>3, <3>1, <3>2 DEF Linked
    <3>4. Out(proc[p]) = proc[p].fds[STDOUT_FILENO] /\ In(proc[q]) = proc[q].fds[STDIN_FILENO]
      BY <2>2, <2>3 DEF Out, In
    <3> QED BY <3>3, <3>4 DEF Joined
  <2>4. ASSUME NEW p \in Proc, Runs(p), NEW fd \in FD \ {STDIN_FILENO, STDOUT_FILENO}
        PROVE  proc[p].fds[fd][1] \notin {"r", "w"}
    <3>1. p \in Others /\ ~ Gone(proc[p]) /\ proc[p].pc # "child"
      BY <2>2, <2>4
    <3>2. Settled(proc[p])
      BY <2>1, <3>1 DEF Tree, Tied
    <3>3. proc[p].fds[fd] \in {Closed, Tty}
      BY <2>4, <3>2 DEF Settled, STDIN_FILENO, STDOUT_FILENO
    <3> QED BY <3>3 DEF Closed, Tty
  <2> QED BY <2>3, <2>4 DEF PipelineWired
<1>4. (Wired(proc[Shell]))' <=> Wired(proc'[Shell])
  BY DEF Wired, Gone, Wires, Files, Held, OnTty, Redirecting, FreeFds, NotSaved, Saved, Begins,
     Piped, Unpiped, Feeding, Fed, ListOf
<1> QED BY <1>1, <1>2, <1>3, <1>4, TypeCorrect, ChildrenKept, PTL DEF Spec

(***************************************************************************)
(* No line takes the shell down.                                           *)
(***************************************************************************)
\* Brackets are a subshell.
LEMMA BracketsAreIn ==
    ASSUME NEW n \in Node, InBrackets[n]
    PROVE  InSubshell[n]
<1> DEFINE S == {m \in Node : InBrackets[m] /\ ~ InSubshell[m]}
<1>1. ASSUME S # {} PROVE FALSE
  <2>1. S \subseteq Nat /\ \A m \in S : m <= Len(Ast)
    BY Nodes
  <2>2. PICK m \in S : \A l \in S : l <= m
    <3>1. Len(Ast) \in Nat
      BY Nodes
    <3> HIDE DEF S
    <3> QED BY <1>1, <2>1, <3>1, NatMax
  <2>3. Parent[m] # 0
    BY <2>2, RootIsIn
  <2> DEFINE p == Parent[m]
  <2>4. p \in Node /\ m < p
    BY <2>2, <2>3, ParentChild
  <2>5. p \in S
    <3> HIDE DEF p
    <3>1. Parent[m] = p
      BY DEF p
    <3> QED BY <2>2, <2>4, <3>1, ChildIsIn DEF Bracket
  <2>6. p <= m
    BY <2>2, <2>5
  <2> QED BY <2>2, <2>4, <2>6, Nodes
<1> QED BY <1>1

\* A line starts with nothing set.
LEMMA StartsClear ==
    ASSUME NEW P \in Process, CanBackup(P)
    PROVE  LET C == clear_ctx(P)
           IN  /\ C.pids = << >> /\ ~ C.is_exec_in_child_ps /\ ~ C.is_in_round_bracket
               /\ C.head_node = 0
<1> DEFINE B == [P EXCEPT !.in_pipe_fd = -1, !.out_pipe_fd = -1, !.pre_in_pipe_fd = -1,
                          !.pids = << >>, !.is_exec_in_child_ps = FALSE,
                          !.is_in_round_bracket = FALSE, !.head_node = 0]
           a == IF B.stored_stdin > 2 THEN B.stored_stdin ELSE -1
           b == IF B.stored_stdout > 2 THEN B.stored_stdout ELSE -1
           D == Close(B, a)
           E == Close(D, b)
           in == NthFree(E, 1)
           out == NthFree(E, 2)
           C == [E EXCEPT !.stored_stdin = in, !.stored_stdout = out,
                          !.fds[in] = E.fds[STDIN_FILENO], !.fds[out] = E.fds[STDOUT_FILENO]]
<1>1. clear_ctx(P) = C /\ clear_ctx(P) = backup_std_fds(B)
  BY DEF clear_ctx, backup_std_fds
<1>2. B \in Process
  BY Null, ZenonT(60) DEF Process
<1>3. /\ B.fds = P.fds /\ B.pids = << >>
      /\ ~ B.is_exec_in_child_ps /\ ~ B.is_in_round_bracket /\ B.head_node = 0
  BY DEF Process
<1>4. Cardinality(FreeFds(B)) >= 2
  BY <1>3 DEF CanBackup, FreeFds
<1> HIDE DEF B
<1>5. backup_std_fds(B).pids = << >>
  BY <1>2, <1>3, <1>4, BackupType DEF SameStep, Carries
<1>6. D \in Process /\ OnlyFds(B, D)
  BY <1>2, CloseDoes
<1> HIDE DEF D
<1>7. E \in Process /\ OnlyFds(D, E)
  BY <1>6, CloseDoes
<1> HIDE DEF E
<1>8. ~ E.is_exec_in_child_ps /\ ~ E.is_in_round_bracket /\ E.head_node = 0
  BY <1>3, <1>6, <1>7 DEF OnlyFds, SameFlags
<1>9. ~ C.is_exec_in_child_ps /\ ~ C.is_in_round_bracket /\ C.head_node = 0
  <2> HIDE DEF in, out
  <2> QED BY <1>7, <1>8 DEF Process
<1> HIDE DEF C
<1> QED BY <1>1, <1>5, <1>9

\* The flags are down wherever the shell is outside brackets and pipelines, and
\* where it carries out a command itself.
Outside(P) ==
    /\ P.pc = "heredoc" => ~ P.is_exec_in_child_ps /\ ~ P.is_in_round_bracket
    /\ P.pc \in {"exec", "redirect", "cmd", "builtin", "return"} /\ ~ InBrackets[P.node]
         => ~ P.is_in_round_bracket
    /\ P.pc \in {"wait", "decide"} /\ P.node # 0
         /\ ~ InBrackets[P.node] /\ P.node \notin Bracket => ~ P.is_in_round_bracket
    /\ P.pc = "exec" /\ ~ InSubshell[P.node] => ~ P.is_exec_in_child_ps
    /\ P.pc \in {"cmd", "builtin", "redirect"} => ~ P.is_exec_in_child_ps

\* On tidy lines Outside is an invariant of the shell.
LEMMA OutsideKept ==
    ASSUME Tidy, TypeOK, [Next]_vars, ShellRuns(proc[Shell]), Wired(proc[Shell]),
           Outside(proc[Shell])
    PROVE  Outside(proc'[Shell])
<1> DEFINE P == proc[Shell]
           Q == proc'[Shell]
           n == P.node
<1>1. Shell \in Proc /\ P \in Process
  BY Here, BoundsAssumption DEF Shell, Proc
<1>2. CASE Aside(P, Q)
  BY <1>2 DEF Aside, Gone, Alike, At, SameFlags, Outside
<1>3. CASE NewChild(Shell)
  BY <1>3 DEF NewChild
<1>4. CASE Gone(Q)
  BY <1>4 DEF Gone, Outside
<1>5. CASE ReadLine(Shell)
  <2>1. CASE Q.pc = "prompt"
    BY <2>1 DEF Outside
  <2>2. CASE CanBackup(P) /\ Q.pc = "heredoc" /\ SameFlags(clear_ctx(P), Q)
    <3>1. ~ Q.is_exec_in_child_ps /\ ~ Q.is_in_round_bracket
      BY <1>1, <2>2, StartsClear DEF SameFlags
    <3> QED BY <2>2, <3>1 DEF Outside
  <2> QED BY <1>1, <1>4, <1>5, <2>1, <2>2, ReadLineDoes
<1>6. CASE Heredoc(Shell)
  BY <1>1, <1>4, <1>6, HeredocDoes DEF Outside, At, SameFlags, Heredoc
<1>7. CASE HeredocsRead(Shell)
  BY <1>1, <1>7, HeredocsReadDoes DEF Outside, At
<1>8. CASE exec_pipe(Shell) \/ exec_logical(Shell) \/ exec_round_brackets(Shell)
  <2>1. /\ P.pc = "exec" /\ n \in Node
        /\ Ast[n].kind \in {"ND_PIPE", "ND_AND_OP", "ND_OR_OP", "ND_RND_BRACKET"}
    BY <1>1, <1>8, exec_pipeDoes, exec_logicalDoes, exec_round_bracketsDoes
  <2>2. \/ Gone(Q)
        \/ /\ At(Q, "exec", Ast[n].left)
           /\ Ast[n].kind = "ND_PIPE" => Q.is_in_round_bracket = P.is_in_round_bracket
           /\ Ast[n].kind \in {"ND_AND_OP", "ND_OR_OP"} => SameFlags(P, Q)
    BY <1>1, <1>8, exec_pipeDoes, exec_logicalDoes, exec_round_bracketsDoes
  <2>3. Ast[n].left \in Node /\ Parent[Ast[n].left] = n
    BY <2>1, NodeShape, LeftChild, Nodes
  <2>4. /\ InBrackets[Ast[n].left] <=> n \in Bracket \/ InBrackets[n]
        /\ InSubshell[Ast[n].left]
             <=> Ast[n].kind \in {"ND_PIPE", "ND_RND_BRACKET"} \/ InSubshell[n]
    BY <2>1, <2>3, ChildIsIn
  <2> QED BY <1>4, <2>1, <2>2, <2>4 DEF Outside, At, SameFlags, Bracket
<1>9. CASE exec_redirect(Shell)
  <2>1. P.pc = "exec" /\ n \in Node /\ Ast[n].kind = "ND_REDIRECTS"
        /\ At(Q, "redirect", n) /\ SameFlags(P, Q)
    BY <1>1, <1>9, exec_redirectDoes
  <2>2. Parent[n] # 0 => Ast[Parent[n]].kind # "ND_CMD"
    BY <2>1 DEF Wired, Wires, Gone
  <2>3. ~ InSubshell[n]
    BY <2>1, <2>2 DEF Tidy, RedirectNode
  <2> QED BY <2>1, <2>3 DEF Outside, At, SameFlags
<1>10. CASE exec_cmd_here(Shell)
  BY <1>1, <1>10, exec_cmd_hereDoes DEF Outside, At, SameFlags, RunsHere
<1>11. CASE exec_cmd_forked(Shell)
  BY <1>1, <1>4, <1>11, exec_cmd_forkedDoes DEF Outside, At, SameFlags
<1>12. CASE exec_cmd(Shell) \/ exec_cmd_with_heredoc(Shell)
  BY <1>1, <1>4, <1>12, exec_cmdDoes DEF Outside, Expanded, SameFlags
<1>13. CASE apply_redirects(Shell)
  BY <1>1, <1>4, <1>13, apply_redirectsDoes DEF Outside, Redirected, SameFlags, At
<1>14. CASE run_builtin(Shell) \/ RunsOn(Shell)
  BY <1>1, <1>4, <1>14, run_builtinDoes, RunsOnDoes DEF Outside, SameFlags, At, ShellRuns
<1>15. CASE ReturnFromRight(Shell)
  <2>1. /\ P.pc = "return" /\ n \in Node /\ Parent[n] # 0 /\ Ast[Parent[n]].right = n
        /\ At(Q, "return", Parent[n]) /\ SameFlags(P, Q)
    BY <1>1, <1>15, ReturnFromRightDoes
  <2>2. Parent[n] \in Node /\ n # 0
    BY <2>1, ParentChild, Nodes
  <2>3. WellFormed(Parent[n])
    BY <2>2, AstAssumption
  <2>4. Parent[n] \notin Bracket
    BY <2>1, <2>2, <2>3 DEF WellFormed, Bracket
  <2>5. InBrackets[n] => InBrackets[Parent[n]]
    BY <2>1, <2>2, <2>4, ChildIsIn
  <2> QED BY <2>1, <2>5 DEF Outside, SameFlags, At
<1>16. CASE ReturnFromPipeLeft(Shell)
  <2> DEFINE m == Parent[n]
  <2>1. /\ P.pc = "return" /\ n \in Node /\ m # 0 /\ Ast[m].left = n
        /\ Ast[m].kind = "ND_PIPE" /\ At(Q, "exec", Ast[m].right) /\ SameFlags(P, Q)
    BY <1>1, <1>16, ReturnFromPipeLeftDoes
  <2>2. m \in Node
    BY <2>1, ParentChild
  <2>3. Ast[m].right \in Node /\ Parent[Ast[m].right] = m
    <3> HIDE DEF m
    <3>1. Ast[m].right \in Node /\ Ast[m].right # 0
      BY <2>1, <2>2, NodeShape, Nodes
    <3> QED BY <2>2, <3>1, RightChild
  <2>4. InBrackets[n] <=> m \in Bracket \/ InBrackets[m]
    BY <2>1, <2>2, ChildIsIn
  <2>5. (InBrackets[Ast[m].right] <=> m \in Bracket \/ InBrackets[m])
        /\ InSubshell[Ast[m].right]
    BY <2>1, <2>2, <2>3, ChildIsIn
  <2> QED BY <2>1, <2>4, <2>5 DEF Outside, SameFlags, At
<1>17. CASE ReturnAndWait(Shell)
  <2>1. /\ P.pc = "return" /\ n \in Node /\ Q.pc \in {"wait", "decide"}
        /\ Q.node = Parent[n] /\ SameFlags(P, Q)
    BY <1>1, <1>17, ReturnAndWaitDoes
  <2>2. Parent[n] # 0 => (InBrackets[n] <=> Parent[n] \in Bracket \/ InBrackets[Parent[n]])
    BY <2>1, ParentChild, ChildIsIn
  <2> QED BY <2>1, <2>2 DEF Outside, SameFlags
<1>18. CASE WaitChild(Shell) \/ WaitNoChild(Shell)
  BY <1>1, <1>18, WaitDoes DEF Outside, SameFlags
<1>19. CASE exec_and_node(Shell) \/ exec_or_node(Shell)
  <2>1. /\ P.pc = "decide" /\ n \in Node /\ Ast[n].kind \in {"ND_AND_OP", "ND_OR_OP"}
        /\ \/ At(Q, "return", n) /\ SameFlags(P, Q)
           \/ /\ At(Q, "exec", Ast[n].right)
              /\ Q.is_exec_in_child_ps = Flagged(P)
              /\ Q.is_in_round_bracket = P.is_in_round_bracket
    BY <1>1, <1>19, DecideDoes
  <2>2. Ast[n].right \in Node /\ Parent[Ast[n].right] = n
    <3> HIDE DEF n
    <3>1. Ast[n].right \in Node /\ Ast[n].right # 0
      BY <2>1, NodeShape, Nodes
    <3> QED BY <2>1, <3>1, RightChild
  <2>3. n \notin Bracket /\ n # 0
    BY <2>1, Nodes DEF Bracket
  <2>4. /\ InBrackets[Ast[n].right] <=> InBrackets[n]
        /\ InSubshell[Ast[n].right] <=> InSubshell[n]
    BY <2>1, <2>2, <2>3, ChildIsIn
  <2>5. InBrackets[n] => InSubshell[n]
    BY <2>1, BracketsAreIn
  <2> QED BY <2>1, <2>3, <2>4, <2>5 DEF Outside, Flagged, SameFlags, At
<1>20. CASE EndOfBrackets(Shell)
  BY <1>1, <1>20, EndOfBracketsDoes DEF Outside, At
<1>21. CASE EndOfLine(Shell) \/ EndOfInput(Shell)
  BY <1>1, <1>4, <1>21, EndOfLineDoes, EndOfInputDoes DEF Outside
<1>22. CASE ChildSetup(Shell)
  BY <1>22 DEF ChildSetup, ShellRuns
<1> QED BY <1>1, <1>2, <1>3, <1>5, <1>6, <1>7, <1>8, <1>9, <1>10, <1>11, <1>12, <1>13, <1>14,
           <1>15, <1>16, <1>17, <1>18, <1>19, <1>20, <1>21, <1>22, Happens
        DEF Advances, Step, RunsOn

\* What the shell's pids become in a step: they stay, they are forgotten, or
\* there is the child just forked at their end.
LEMMA PidsBecome ==
    ASSUME TypeOK, [Next]_vars, ~ Gone(proc'[Shell])
    PROVE  \/ proc'[Shell].pids = proc[Shell].pids
           \/ proc'[Shell].pids = << >>
           \/ exec_cmd_forked(Shell) /\ Len(proc'[Shell].pids) = Len(proc[Shell].pids) + 1
<1> DEFINE P == proc[Shell]
           Q == proc'[Shell]
           ok == \/ Q.pids = P.pids
                 \/ Q.pids = << >>
                 \/ exec_cmd_forked(Shell) /\ Len(Q.pids) = Len(P.pids) + 1
<1>1. Shell \in Proc /\ P \in Process /\ proc \in [Proc -> Good]
  BY Here, ProcType, BoundsAssumption DEF Shell, Proc
<1>2. CASE Aside(P, Q)
  BY <1>2 DEF Aside, Alike
<1>3. CASE NewChild(Shell)
  BY <1>3 DEF NewChild
<1>4. ASSUME NEW s \in 0 .. 255, Exit(Shell, s) PROVE FALSE
  BY <1>1, <1>4, ExitDoes DEF Exit
<1>5. ASSUME NEW X, Set(Shell, X), X.pids \in {<< >>, P.pids} PROVE ok
  BY <1>1, <1>5 DEF Set
<1>6. CASE Plain(Shell)
  <2>1. PICK X : GoesOn(P, X) /\ Set(Shell, X)
    BY <1>1, <1>4, <1>6, PlainMoves DEF Moves
  <2> QED BY <1>5, <2>1 DEF GoesOn, Carries
<1>7. CASE Clearing(Shell)
  BY <1>1, <1>4, <1>5, <1>7, ClearingClears DEF Clears
<1>8. CASE ReturnAndWait(Shell)
  BY <1>1, <1>5, <1>8, ReturnAndWaitShape DEF Carries
<1>9. CASE WaitChild(Shell) \/ WaitNoChild(Shell)
  <2>1. \E s : Q = AfterWaitpid(P, s)
    <3>1. CASE WaitNoChild(Shell)
      BY <1>1, <3>1 DEF WaitNoChild, Set
    <3>2. CASE WaitChild(Shell)
      BY <1>1, <3>2 DEF WaitChild
    <3> QED BY <1>9, <3>1, <3>2
  <2>2. \A s : AfterWaitpid(P, s).pids = P.pids
    BY <1>1 DEF AfterWaitpid, Process
  <2> QED BY <2>1, <2>2
<1>10. CASE exec_cmd_forked(Shell)
  <2>1. CASE FreeSlots # {} /\ proc' = ExitIn(AfterFork(Shell), Shell, EXIT_FAILURE)
    <3>1. AfterFork(Shell) \in [Proc -> Good]
      BY <1>1, <1>10, <2>1, ForkType
    <3> QED BY <1>1, <2>1, <3>1, Null, ExitDoes
  <2>2. CASE FreeSlots # {} /\ proc' = [AfterFork(Shell) EXCEPT ![Shell] = ParentDone(Shell)]
    <3>1. /\ AfterFork(Shell) \in [Proc -> Good]
          /\ ForkedParent(Shell).pids = Append(P.pids, NewProcess)
          /\ Carries(ForkedParent(Shell), ParentDone(Shell))
      BY <1>1, <1>10, <2>2, ForkType
    <3>2. Q = ParentDone(Shell)
      BY <1>1, <2>2, <3>1
    <3>3. P.pids \in Seq(Proc \cup {0})
      BY <1>1 DEF Process
    <3>4. Len(Q.pids) = Len(P.pids) + 1
      BY <3>1, <3>2, <3>3 DEF Carries
    <3> QED BY <1>10, <3>4
  <2> QED BY <1>1, <1>4, <1>10, <2>1, <2>2, Null, ForkCases
<1> QED BY <1>1, <1>2, <1>3, <1>6, <1>7, <1>8, <1>9, <1>10, Happens
        DEF Advances, Step, Plain, Clearing

\* The commands of the tree with root b, and those of them before node c.
CommandsOf(b) == {k \in Node : Ast[k].kind = "ND_CMD" /\ Root[k] = b}
Passed(b, c)  == {k \in CommandsOf(b) : k < c}

\* They are few.
LEMMA PassedIsFinite ==
    ASSUME NEW b, NEW c
    PROVE  /\ IsFiniteSet(CommandsOf(b)) /\ Cardinality(CommandsOf(b)) \in Nat
           /\ IsFiniteSet(Passed(b, c)) /\ Cardinality(Passed(b, c)) \in Nat
           /\ Cardinality(Passed(b, c)) <= Cardinality(CommandsOf(b))
<1>1. IsFiniteSet(Node)
  BY Nodes, FS_Interval
<1>2. IsFiniteSet(CommandsOf(b))
  BY <1>1, FS_Subset DEF CommandsOf
<1>3. Passed(b, c) \subseteq CommandsOf(b)
  BY DEF Passed
<1> QED BY <1>2, <1>3, FS_Subset, FS_CardinalityType

\* Further on there are no fewer,
LEMMA PassedGrows ==
    ASSUME NEW b, NEW c \in Nat, NEW d \in Nat, c <= d
    PROVE  Cardinality(Passed(b, c)) <= Cardinality(Passed(b, d))
<1>1. CommandsOf(b) \subseteq Nat
  BY Nodes DEF CommandsOf
<1>2. Passed(b, c) \subseteq Passed(b, d)
  BY <1>1 DEF Passed
<1> QED BY <1>2, PassedIsFinite, FS_Subset

\* and behind a command there is one more.
LEMMA PassedCommand ==
    ASSUME NEW n \in Node, Ast[n].kind = "ND_CMD", NEW c \in Nat, c <= n
    PROVE  Cardinality(Passed(Root[n], c)) + 1 <= Cardinality(Passed(Root[n], n + 1))
<1> DEFINE S == Passed(Root[n], c)
           T == Passed(Root[n], n + 1)
<1>1. n \in Nat /\ CommandsOf(Root[n]) \subseteq Nat /\ n \in CommandsOf(Root[n])
  BY Nodes DEF CommandsOf
<1>2. n \notin S /\ S \cup {n} \subseteq T
  BY <1>1 DEF Passed
<1>3. IsFiniteSet(S) /\ IsFiniteSet(T)
  BY PassedIsFinite
<1> HIDE DEF S, T
<1>4. Cardinality(S \cup {n}) = Cardinality(S) + 1
  BY <1>2, <1>3, FS_AddElement
<1>5. Cardinality(S \cup {n}) <= Cardinality(T)
  BY <1>2, <1>3, FS_Subset
<1>6. Cardinality(S) + 1 <= Cardinality(T)
  BY <1>4, <1>5
<1> QED BY <1>6 DEF S, T

\* The shell has no more pids than its line has commands before node c.
FewUpTo(P, c) == Len(P.pids) <= Cardinality(Passed(P.head_node, c))

\* It has no more pids than commands it has left behind.
Few(P) ==
    /\ P.pc = "heredoc" => P.pids = << >>
    /\ P.pc = "exec" => FewUpTo(P, First[P.node])
    /\ P.pc \in {"cmd", "redirect", "builtin", "return"} => FewUpTo(P, P.node + 1)
    /\ P.pc \in {"wait", "decide"} /\ P.node # 0 => FewUpTo(P, Ast[P.node].left + 1)

\* What is few stays few further on.
LEMMA FewSame ==
    ASSUME NEW P \in Process, NEW Q, NEW b \in Nat, NEW c \in Nat, b <= c,
           FewUpTo(P, b), Q.pids \in {<< >>, P.pids}, Q.head_node = P.head_node
    PROVE  FewUpTo(Q, c)
<1>1. Cardinality(Passed(P.head_node, b)) <= Cardinality(Passed(P.head_node, c))
  BY PassedGrows
<1>2. /\ Cardinality(Passed(P.head_node, b)) \in Nat
      /\ Cardinality(Passed(P.head_node, c)) \in Nat
  BY PassedIsFinite
<1>3. Len(P.pids) \in Nat /\ Len(<< >>) = 0
  BY DEF Process
<1>4. Len(Q.pids) <= Len(P.pids)
  BY <1>3
<1>5. Len(Q.pids) \in Nat
  BY <1>3
<1> QED BY <1>1, <1>2, <1>3, <1>4, <1>5 DEF FewUpTo

\* The lowest number below a node is a number.
LEMMA FirstIsNat ==
    ASSUME NEW n \in Node
    PROVE  First[n] \in Nat
<1> DEFINE S == {m \in Node : First[m] \notin Nat}
<1>1. ASSUME S # {} PROVE FALSE
  <2>1. S \subseteq Nat
    BY Nodes
  <2>2. PICK m \in S : \A l \in S : m <= l
    <3> HIDE DEF S
    <3> QED BY <1>1, <2>1, NatMin
  <2>3. /\ m \in Node /\ m \in Nat /\ First[m] \notin Nat
        /\ Ast[m].left \in NodeOrNull /\ Ast[m].left \in Nat /\ Ast[m].left < m
    BY <2>2, Order, NodeShape
  <2>4. First[m] = IF Ast[m].left = 0 THEN m ELSE First[Ast[m].left]
    BY <2>3, FirstDef
  <2>5. Ast[m].left \in Node /\ First[Ast[m].left] \notin Nat
    BY <2>3, <2>4 DEF NodeOrNull
  <2>6. m <= Ast[m].left
    BY <2>2, <2>5
  <2> QED BY <2>3, <2>6
<1> QED BY <1>1

\* Few is an invariant of the shell.
LEMMA FewKept ==
    ASSUME TypeOK, [Next]_vars, ShellRuns(proc[Shell]), ShellAt(proc[Shell]), Few(proc[Shell])
    PROVE  Few(proc'[Shell])
<1> DEFINE P == proc[Shell]
           Q == proc'[Shell]
           n == P.node
<1>1. Shell \in Proc /\ P \in Process
  BY Here, BoundsAssumption DEF Shell, Proc
<1>2. n \in Node => /\ n \in Nat /\ n # 0 /\ n + 1 \in Nat /\ Ast[n].left \in Nat
                    /\ Ast[n].left + 1 \in Nat /\ Ast[n].left + 1 <= n + 1
  BY Order
<1>3. CASE Gone(Q)
  BY <1>3 DEF Gone, Few
<1>4. SUFFICES ASSUME ~ Gone(Q) PROVE Few(Q)
  BY <1>3
<1>5. ~ exec_cmd_forked(Shell) => Q.pids \in {<< >>, P.pids}
  BY <1>4, PidsBecome
<1>6. CASE Aside(P, Q)
  <2>1. /\ Q.pc = P.pc /\ Q.node = n /\ Q.pids = P.pids /\ Q.head_node = P.head_node
    BY <1>4, <1>6 DEF Aside, Alike, At, SameFlags
  <2> QED BY <2>1 DEF Few, FewUpTo
<1>7. CASE NewChild(Shell)
  BY <1>7 DEF NewChild
<1>8. CASE ReadLine(Shell)
  <2>1. CASE Q.pc = "prompt"
    BY <2>1 DEF Few
  <2>2. CASE CanBackup(P) /\ Q.pc = "heredoc" /\ Q.pids = clear_ctx(P).pids
    <3>1. Q.pids = << >>
      BY <1>1, <2>2, StartsClear
    <3> QED BY <2>2, <3>1 DEF Few
  <2> QED BY <1>1, <1>4, <1>8, <2>1, <2>2, ReadLineDoes
<1>9. CASE Heredoc(Shell)
  <2>1. P.pc = "heredoc"
    BY <1>9 DEF Heredoc
  <2>2. ~ exec_cmd_forked(Shell)
    BY <2>1 DEF exec_cmd_forked, AtNode
  <2>3. Q.pc = "heredoc"
    BY <1>1, <1>4, <1>9, HeredocDoes DEF At
  <2> QED BY <1>5, <2>1, <2>2, <2>3 DEF Few
<1>10. CASE HeredocsRead(Shell)
  <2>1. P.pc = "heredoc" /\ Q.pc = "exec" /\ ~ exec_cmd_forked(Shell)
    BY <1>1, <1>10, HeredocsReadDoes DEF At, exec_cmd_forked, AtNode
  <2>2. Q.pids = << >>
    BY <1>5, <2>1 DEF Few
  <2>3. 0 <= Cardinality(Passed(Q.head_node, First[Q.node]))
    BY PassedIsFinite
  <2> QED BY <2>1, <2>2, <2>3 DEF Few, FewUpTo
<1>11. CASE exec_pipe(Shell) \/ exec_logical(Shell) \/ exec_round_brackets(Shell)
  <2>1. /\ P.pc = "exec" /\ n \in Node
        /\ Ast[n].kind \in {"ND_PIPE", "ND_AND_OP", "ND_OR_OP", "ND_RND_BRACKET"}
    BY <1>1, <1>11, exec_pipeDoes, exec_logicalDoes, exec_round_bracketsDoes
  <2>2. At(Q, "exec", Ast[n].left) /\ Q.head_node = P.head_node
    BY <1>1, <1>4, <1>11, exec_pipeDoes, exec_logicalDoes, exec_round_bracketsDoes
       DEF SameFiles, SameFlags
  <2>3. Ast[n].left \in Node /\ First[Ast[n].left] = First[n]
    BY <2>1, NodeShape, Nodes, Order
  <2>4. ~ exec_cmd_forked(Shell)
    BY <2>1 DEF exec_cmd_forked, AtNode
  <2>5. First[n] \in Nat /\ First[n] <= First[n]
    BY <2>1, FirstIsNat
  <2>6. FewUpTo(Q, First[n])
    BY <1>1, <1>5, <2>1, <2>2, <2>4, <2>5, FewSame DEF Few
  <2> QED BY <2>2, <2>3, <2>6 DEF Few, At
<1>12. CASE exec_redirect(Shell) \/ exec_cmd_here(Shell)
  <2>1. /\ P.pc = "exec" /\ n \in Node /\ Ast[n].kind \in {"ND_CMD", "ND_REDIRECTS"}
        /\ Q.pc \in {"redirect", "cmd"} /\ Q.node = n /\ Q.head_node = P.head_node
    BY <1>1, <1>12, exec_redirectDoes, exec_cmd_hereDoes DEF SameFlags, At
  <2>2. ~ exec_cmd_forked(Shell)
    BY <2>1, <1>12 DEF exec_cmd_forked, exec_cmd_here, exec_redirect, AtNode
  <2>3. First[n] \in Nat /\ First[n] <= n + 1
    BY <1>2, <2>1, Order
  <2>4. FewUpTo(Q, n + 1)
    BY <1>1, <1>2, <1>5, <2>1, <2>2, <2>3, FewSame DEF Few
  <2> QED BY <2>1, <2>4 DEF Few
<1>13. CASE exec_cmd_forked(Shell)
  <2>1. /\ P.pc = "exec" /\ n \in Node /\ Ast[n].kind = "ND_CMD"
        /\ At(Q, "return", n) /\ Q.head_node = P.head_node
    BY <1>1, <1>4, <1>13, exec_cmd_forkedDoes DEF SameFlags
  <2>2. First[n] \in Nat /\ First[n] <= n /\ n + 1 \in Nat
    BY <1>2, <2>1, Order
  <2>3. Root[n] = P.head_node /\ Len(P.pids) <= Cardinality(Passed(P.head_node, First[n]))
    BY <2>1 DEF ShellAt, Few, FewUpTo
  <2>4. Cardinality(Passed(P.head_node, First[n])) + 1 <= Cardinality(Passed(P.head_node, n + 1))
    BY <2>1, <2>2, <2>3, PassedCommand
  <2>5. /\ Cardinality(Passed(P.head_node, First[n])) \in Nat
        /\ Cardinality(Passed(P.head_node, n + 1)) \in Nat /\ Len(P.pids) \in Nat
    BY <1>1, PassedIsFinite DEF Process
  <2>6. \/ Len(Q.pids) = Len(P.pids) \/ Len(Q.pids) = 0 \/ Len(Q.pids) = Len(P.pids) + 1
    <3>1. Q.pids = P.pids \/ Q.pids = << >> \/ Len(Q.pids) = Len(P.pids) + 1
      BY <1>4, PidsBecome
    <3>2. Len(<< >>) = 0
      OBVIOUS
    <3> HIDE DEF P, Q
    <3> QED BY <3>1, <3>2
  <2>7. FewUpTo(Q, n + 1)
    BY <2>1, <2>3, <2>4, <2>5, <2>6 DEF FewUpTo
  <2> QED BY <2>1, <2>7 DEF Few, At
<1>14. CASE exec_cmd(Shell) \/ exec_cmd_with_heredoc(Shell) \/ apply_redirects(Shell)
            \/ run_builtin(Shell) \/ RunsOn(Shell)
  <2>1. /\ P.pc \in {"cmd", "redirect", "builtin"} /\ n \in Node /\ Q.node = n
        /\ Q.pc \in {"return", "redirect", "builtin", "program"} /\ Q.head_node = P.head_node
    <3>1. CASE RunsOn(Shell)
      <4>1. P.pc = "builtin" /\ Q.pc = "builtin" /\ Q.node = n /\ Q.head_node = P.head_node
        BY <1>1, <1>4, <3>1, RunsOnDoes DEF ShellRuns, At, SameFlags
      <4>2. n \in Node
        BY <1>1, <4>1, Here DEF AtItsNode
      <4> QED BY <4>1, <4>2
    <3>2. CASE ~ RunsOn(Shell)
      BY <1>1, <1>4, <1>14, <3>2, exec_cmdDoes, apply_redirectsDoes, run_builtinDoes
         DEF Expanded, Redirected, SameFlags, At
    <3> QED BY <3>1, <3>2
  <2>2. ~ exec_cmd_forked(Shell)
    BY <2>1 DEF exec_cmd_forked, AtNode
  <2>3. FewUpTo(Q, n + 1)
    BY <1>1, <1>2, <1>5, <2>1, <2>2, FewSame DEF Few
  <2> QED BY <2>1, <2>3 DEF Few
<1>15. CASE ReturnFromRight(Shell) \/ ReturnAndWait(Shell)
  <2> DEFINE m == Parent[n]
  <2>1. /\ P.pc = "return" /\ n \in Node /\ Q.node = m /\ Q.head_node = P.head_node
        /\ \/ m # 0 /\ Q.pc = "return"
           \/ Q.pc \in {"wait", "decide"} /\ (m # 0 => Ast[m].left = n)
    BY <1>1, <1>15, ReturnFromRightDoes, ReturnAndWaitDoes DEF SameFlags, At
  <2>2. ~ exec_cmd_forked(Shell)
    BY <2>1 DEF exec_cmd_forked, AtNode
  <2>3. FewUpTo(P, n + 1)
    BY <2>1 DEF Few
  <2>4. CASE m # 0
    <3>1. m \in Node /\ m + 1 \in Nat /\ n + 1 <= m + 1
      BY <1>2, <2>1, <2>4, ParentChild, Order
    <3> HIDE DEF m
    <3>2. CASE Q.pc = "return"
      <4>1. FewUpTo(Q, m + 1)
        BY <1>1, <1>2, <1>5, <2>1, <2>2, <2>3, <3>1, FewSame
      <4> QED BY <2>1, <3>2, <4>1 DEF Few
    <3>3. CASE Q.pc \in {"wait", "decide"}
      <4>1. Ast[m].left + 1 = n + 1
        BY <2>1, <2>4, <3>3
      <4>2. FewUpTo(Q, n + 1)
        BY <1>1, <1>2, <1>5, <2>1, <2>2, <2>3, FewSame
      <4> QED BY <2>1, <3>3, <4>1, <4>2 DEF Few
    <3> QED BY <2>1, <3>2, <3>3
  <2>5. CASE m = 0
    BY <2>1, <2>5 DEF Few
  <2> QED BY <2>4, <2>5
<1>16. CASE ReturnFromPipeLeft(Shell)
  <2> DEFINE m == Parent[n]
             r == Ast[m].right
  <2>1. /\ P.pc = "return" /\ n \in Node /\ m # 0 /\ Ast[m].left = n /\ Ast[m].kind = "ND_PIPE"
        /\ At(Q, "exec", r) /\ Q.head_node = P.head_node
    BY <1>1, <1>16, ReturnFromPipeLeftDoes DEF SameFlags
  <2>2. m \in Node
    BY <2>1, ParentChild
  <2>3. r \in Node /\ r # 0 /\ First[r] = n + 1
    <3> HIDE DEF m
    <3> QED BY <2>1, <2>2, NodeShape, Nodes, Order
  <2>4. ~ exec_cmd_forked(Shell)
    BY <2>1 DEF exec_cmd_forked, AtNode
  <2>5. FewUpTo(Q, n + 1)
    BY <1>1, <1>2, <1>5, <2>1, <2>4, FewSame DEF Few
  <2> QED BY <2>1, <2>3, <2>5 DEF Few, At
<1>17. CASE WaitChild(Shell) \/ WaitNoChild(Shell)
  <2>1. P.pc = "wait" /\ Q.pc \in {"wait", "decide"} /\ Q.node = n /\ Q.head_node = P.head_node
    BY <1>1, <1>17, WaitDoes DEF SameFlags
  <2>2. ~ exec_cmd_forked(Shell)
    BY <2>1 DEF exec_cmd_forked, AtNode
  <2>3. CASE n # 0
    <3>1. n \in Node /\ FewUpTo(P, Ast[n].left + 1)
      BY <1>1, <2>1, <2>3 DEF Few, Process, NodeOrNull
    <3>2. FewUpTo(Q, Ast[n].left + 1)
      BY <1>1, <1>2, <1>5, <2>1, <2>2, <3>1, FewSame
    <3> QED BY <2>1, <3>2 DEF Few
  <2> QED BY <2>1, <2>3 DEF Few
<1>18. CASE exec_and_node(Shell) \/ exec_or_node(Shell) \/ EndOfBrackets(Shell)
  <2> DEFINE r == Ast[n].right
  <2>1. /\ P.pc = "decide" /\ n \in Node /\ Q.head_node = P.head_node
        /\ \/ At(Q, "return", n)
           \/ At(Q, "exec", r) /\ Ast[n].kind \in {"ND_AND_OP", "ND_OR_OP"}
    BY <1>1, <1>18, DecideDoes, EndOfBracketsDoes DEF SameFlags
  <2>2. ~ exec_cmd_forked(Shell) /\ FewUpTo(P, Ast[n].left + 1)
    BY <1>2, <2>1 DEF exec_cmd_forked, AtNode, Few
  <2>3. CASE At(Q, "return", n)
    <3>1. FewUpTo(Q, n + 1)
      BY <1>1, <1>2, <1>5, <2>1, <2>2, FewSame
    <3> QED BY <2>3, <3>1 DEF Few, At
  <2>4. CASE At(Q, "exec", r) /\ Ast[n].kind \in {"ND_AND_OP", "ND_OR_OP"}
    <3>1. First[r] = Ast[n].left + 1
      BY <2>1, <2>4, NodeShape, Nodes, Order
    <3>2. FewUpTo(Q, Ast[n].left + 1)
      BY <1>1, <1>2, <1>5, <2>1, <2>2, FewSame
    <3> QED BY <2>4, <3>1, <3>2 DEF Few, At
  <2> QED BY <2>1, <2>3, <2>4
<1>19. CASE EndOfLine(Shell) \/ EndOfInput(Shell)
  BY <1>1, <1>3, <1>19, EndOfLineDoes, EndOfInputDoes DEF Few
<1>20. CASE ChildSetup(Shell)
  BY <1>20 DEF ChildSetup, ShellRuns
<1> QED BY <1>1, <1>6, <1>7, <1>8, <1>9, <1>10, <1>11, <1>12, <1>13, <1>14,
           <1>15, <1>16, <1>17, <1>18, <1>19, <1>20, Happens DEF Advances, Step, RunsOn

\* A system with room for the lines: descriptors for the terminal, its copies
\* and the pipes of one command, and processes for the commands of a line.
Ample == /\ MaxFd >= 7
         /\ \A n \in Node : /\ Cardinality(CommandsOf(Root[n])) < NProc
                            /\ Cardinality(CommandsOf(Root[n])) < MaxProcessCount

\* One element more makes a set larger by one at most.
LEMMA OneMore ==
    ASSUME NEW S, IsFiniteSet(S), NEW x
    PROVE  /\ IsFiniteSet(S \cup {x}) /\ Cardinality(S \cup {x}) \in Nat
           /\ Cardinality(S \cup {x}) <= Cardinality(S) + 1
<1>1. Cardinality(S) \in Nat
  BY FS_CardinalityType
<1>2. /\ IsFiniteSet(S \cup {x})
      /\ Cardinality(S \cup {x}) = IF x \in S THEN Cardinality(S) ELSE Cardinality(S) + 1
  BY FS_AddElement
<1> QED BY <1>1, <1>2

\* There are descriptors for a pipe.
LEMMA PipeHasRoom ==
    ASSUME Ample, NEW P \in Process, Files(P), Unpiped(P)
    PROVE  ~ (Cardinality(FreeFds(P)) < 2)
<1> DEFINE U0 == 0 .. 2
           U1 == U0 \cup {P.stored_stdin}
           U2 == U1 \cup {P.stored_stdout}
           U == U2 \cup {P.pre_in_pipe_fd}
           F == FD \ U
<1>1. IsFiniteSet(U0) /\ Cardinality(U0) = 3
  <2>1. 0 \in Int /\ 2 \in Int
    OBVIOUS
  <2>2. IsFiniteSet(0 .. 2) /\ Cardinality(0 .. 2) = IF 0 > 2 THEN 0 ELSE 2 - 0 + 1
    BY <2>1, FS_Interval, Zenon
  <2> QED BY <2>2
<1> HIDE DEF U0
<1>2. IsFiniteSet(U1) /\ Cardinality(U1) \in Nat /\ Cardinality(U1) <= 4
  <2>1. IsFiniteSet(U1) /\ Cardinality(U1) \in Nat /\ Cardinality(U1) <= Cardinality(U0) + 1
    BY <1>1, OneMore
  <2> QED BY <1>1, <2>1
<1> HIDE DEF U1
<1>3. IsFiniteSet(U2) /\ Cardinality(U2) \in Nat /\ Cardinality(U2) <= 5
  <2>1. IsFiniteSet(U2) /\ Cardinality(U2) \in Nat /\ Cardinality(U2) <= Cardinality(U1) + 1
    BY <1>2, OneMore
  <2> QED BY <1>2, <2>1
<1> HIDE DEF U2
<1>4. IsFiniteSet(U) /\ Cardinality(U) \in Nat /\ Cardinality(U) <= 6
  <2>1. IsFiniteSet(U) /\ Cardinality(U) \in Nat /\ Cardinality(U) <= Cardinality(U2) + 1
    BY <1>3, OneMore
  <2> QED BY <1>3, <2>1
<1>5. IsFiniteSet(FD) /\ Cardinality(FD) = MaxFd + 1
  BY BoundsAssumption, FS_Interval DEF FD
<1>6. ASSUME NEW fd \in F PROVE fd \in FreeFds(P)
  <2>1. fd \in FD /\ fd > 2
    BY <1>6, Standard DEF U, U2, U1, U0
  <2>2. fd \notin Held(P)
    BY <1>6, <2>1, Standard DEF U, U2, U1, Held, Unpiped, STDOUT_FILENO
  <2> QED BY <2>1, <2>2 DEF Files, FreeFds
<1> HIDE DEF U
<1>7. IsFiniteSet(F) /\ Cardinality(F) = Cardinality(FD) - Cardinality(FD \cap U)
  BY <1>5, FS_Difference
<1>8. Cardinality(FD \cap U) \in Nat /\ Cardinality(FD \cap U) <= Cardinality(U)
  BY <1>4, FS_Subset, FS_CardinalityType
<1> HIDE DEF F
<1>9. Cardinality(F) >= 2
  BY <1>4, <1>5, <1>7, <1>8, BoundsAssumption DEF Ample
<1>10. IsFiniteSet(FreeFds(P)) /\ Cardinality(FreeFds(P)) \in Nat
  BY <1>5, FS_Subset, FS_CardinalityType DEF FreeFds
<1>11. Cardinality(F) <= Cardinality(FreeFds(P))
  BY <1>6, <1>10, FS_Subset
<1>12. Cardinality(F) \in Nat
  BY <1>7, FS_CardinalityType
<1> QED BY <1>9, <1>10, <1>11, <1>12

\* There is a process for a command, and room for its pid.
LEMMA ForkHasRoom ==
    ASSUME Ample, TypeOK, PidsInBounds, ShellAt(proc[Shell]), Few(proc[Shell]),
           \A r \in Others : Own(r),
           proc[Shell].pc = "exec", proc[Shell].node \in Node,
           Ast[proc[Shell].node].kind = "ND_CMD"
    PROVE  ~ AtProcessLimit(proc[Shell]) /\ FreeSlots # {}
<1> DEFINE P == proc[Shell]
           n == P.node
           c == Cardinality(CommandsOf(Root[n]))
<1>1. Shell \in Proc /\ P \in Process
  BY Here, BoundsAssumption DEF Shell, Proc
<1>2. Len(P.pids) \in Nat
  BY <1>1 DEF Process
<1>3. Root[n] = P.head_node /\ Len(P.pids) <= Cardinality(Passed(P.head_node, First[n]))
  BY DEF ShellAt, Few, FewUpTo
<1>4. First[n] \in Nat /\ First[n] <= n
  BY Order
<1>5. Cardinality(Passed(Root[n], First[n])) + 1 <= Cardinality(Passed(Root[n], n + 1))
  BY <1>4, PassedCommand
<1>6. /\ Cardinality(Passed(Root[n], First[n])) \in Nat
      /\ Cardinality(Passed(Root[n], n + 1)) \in Nat
      /\ Cardinality(Passed(Root[n], n + 1)) <= c /\ c \in Nat
  BY PassedIsFinite
<1>7. c < NProc /\ c < MaxProcessCount
  BY DEF Ample
<1> HIDE DEF c
<1>8. Len(P.pids) + 1 <= c
  BY <1>2, <1>3, <1>5, <1>6
<1>9. ~ AtProcessLimit(P)
  BY <1>2, <1>6, <1>7, <1>8, BoundsAssumption DEF AtProcessLimit
<1>10. ASSUME FreeSlots = {} PROVE FALSE
  <2>1. \A r \in Others : proc[r].pc # "free"
    BY <1>10 DEF FreeSlots, Others
  <2>2. Others \subseteq ChildrenOf(Shell)
    BY <2>1 DEF Own, Gone, ChildrenOf, Others
  <2>3. IsFiniteSet(Proc) /\ Cardinality(Proc) = NProc
    BY BoundsAssumption, FS_Interval DEF Proc
  <2>4. IsFiniteSet(Others) /\ Cardinality(Others) = NProc - 1
    BY <1>1, <2>3, FS_RemoveElement DEF Others
  <2>5. IsFiniteSet(ChildrenOf(Shell)) /\ Cardinality(ChildrenOf(Shell)) \in Nat
    BY <2>3, FS_Subset, FS_CardinalityType DEF ChildrenOf
  <2>6. Cardinality(Others) <= Cardinality(ChildrenOf(Shell))
    BY <2>2, <2>5, FS_Subset
  <2>7. Cardinality(ChildrenOf(Shell)) <= Len(P.pids)
    BY <1>1 DEF PidsInBounds, RunsShellCode
  <2> QED BY <1>2, <1>6, <1>7, <1>8, <2>4, <2>5, <2>6, <2>7, BoundsAssumption
<1> QED BY <1>9, <1>10

\* The descriptors that reset_parent_process_fd closes are open.
LEMMA ResetSucceeds ==
    ASSUME NEW P \in Process, Wires(P), Std(P)
    PROVE  ~ ResetFails(P)
<1>1. /\ P.pre_in_pipe_fd \in FdOrNone /\ P.out_pipe_fd \in FdOrNone
  BY DEF Process
<1>2. P.pre_in_pipe_fd # -1 => IsOpen(P, P.pre_in_pipe_fd)
  BY <1>1 DEF Wires, Fed, IsOpen, FdOrNone, ReadEnd, Closed
<1>3. P.out_pipe_fd \notin {-1, STDOUT_FILENO} => IsOpen(P, P.out_pipe_fd)
  BY <1>1 DEF Wires, Piped, Unpiped, IsOpen, FdOrNone, WriteEnd, Closed
<1> QED BY <1>2, <1>3 DEF ResetFails, CloseFails

\* The status of a builtin is one that the shell can keep.
LEMMA StatusIsKept ==
    ASSUME NEW P \in Process, P.node \in Node
    PROVE  [P EXCEPT !.last_status = BuiltinStatus(P)] \in Process
<1> DEFINE s == BuiltinStatus(P)
<1>1. s \in 0 .. 255
  BY NodeShape DEF BuiltinStatus, Process
<1> HIDE DEF s
<1>2. [P EXCEPT !.last_status = s] \in Process
  BY <1>1 DEF Process
<1> QED BY <1>2 DEF s

\* What the shell does on a tidy line in a system with room for it never ends
\* in its exit, but for the end of its input and the builtin exit.
LEMMA NoExit ==
    ASSUME Tidy, Ample, TypeOK, PidsInBounds, [Next]_vars, Sound, Wired(proc[Shell]),
           Outside(proc[Shell]), Few(proc[Shell]), \A r \in Others : Own(r),
           proc[Shell].pc # "zombie", proc'[Shell].pc = "zombie"
    PROVE  \/ proc[Shell].pc = "prompt"
           \/ proc[Shell].pc = "builtin" /\ Ast[proc[Shell].node].cmd.exits
<1> DEFINE P == proc[Shell]
           Q == proc'[Shell]
           n == P.node
<1>1. Shell \in Proc /\ P \in Process /\ proc \in [Proc -> Good]
  BY Here, ProcType, BoundsAssumption DEF Shell, Proc
<1>2. ShellRuns(P) /\ ShellAt(P) /\ Listed(P) /\ (Gone(P) \/ Std(P)) /\ (Gone(P) \/ Wires(P))
  BY <1>1 DEF Sound, Steady, Wired
<1>3. SUFFICES ASSUME P.pc # "prompt", ~ (P.pc = "builtin" /\ Ast[n].cmd.exits) PROVE FALSE
  OBVIOUS
<1>4. ASSUME NEW X, Set(Shell, X), X.pc # "zombie" PROVE FALSE
  BY <1>1, <1>4 DEF Set
<1>5. ASSUME Q.pc # "zombie" PROVE FALSE
  BY <1>5
<1>6. CASE Aside(P, Q)
  BY <1>6 DEF Aside, Alike, At
<1>7. CASE NewChild(Shell)
  BY <1>7 DEF NewChild
<1>8. CASE ReadLine(Shell) \/ EndOfInput(Shell)
  <2>1. ReadLine(Shell) => P.pc = "prompt"
    BY DEF ReadLine
  <2>2. EndOfInput(Shell) => P.pc = "prompt"
    BY DEF EndOfInput
  <2> QED BY <1>3, <1>8, <2>1, <2>2
<1>9. CASE Heredoc(Shell)
  <2>1. HeredocNodes(P) # {}
    BY <1>9 DEF Heredoc
  <2>2. \A m \in RedirectNode : HeredocOps(m) = {}
    BY DEF Tidy
  <2> QED BY <2>1, <2>2 DEF HeredocNodes
<1>10. CASE HeredocsRead(Shell) \/ exec_logical(Shell) \/ exec_round_brackets(Shell)
            \/ exec_redirect(Shell) \/ exec_cmd_here(Shell)
  BY <1>1, <1>10, HeredocsReadDoes, exec_logicalDoes, exec_round_bracketsDoes, exec_redirectDoes,
     exec_cmd_hereDoes DEF At
<1>11. CASE exec_pipe(Shell)
  <2>1. P.pc = "exec" /\ n \in Node /\ Ast[n].kind = "ND_PIPE"
    BY <1>1, <1>11, exec_pipeDoes
  <2>2. n \notin PipeLeft
    BY <2>1, PipeLeftIs
  <2>3. Files(P) /\ Unpiped(P)
    BY <1>2, <2>1, <2>2 DEF Gone, Wires, Begins
  <2>4. ~ (Cardinality(FreeFds(P)) < 2)
    BY <1>1, <2>3, PipeHasRoom
  <2> DEFINE r == NthFree(P, 1)
             w == NthFree(P, 2)
             f == [P.fds EXCEPT ![r] = ReadEnd(NewPipe), ![w] = WriteEnd(NewPipe)]
             Y == [P EXCEPT !.fds = f, !.is_exec_in_child_ps = TRUE,
                            !.in_pipe_fd = r, !.out_pipe_fd = w, !.node = Ast[n].left]
  <2>5. Set(Shell, Y)
    BY <1>11, <2>4 DEF exec_pipe
  <2> HIDE DEF r, w, f
  <2>6. Y.pc = P.pc
    BY <1>1 DEF Process
  <2> HIDE DEF Y
  <2> QED BY <1>4, <2>1, <2>5, <2>6
<1>12. CASE exec_cmd_forked(Shell)
  <2>1. P.pc = "exec" /\ n \in Node /\ Ast[n].kind = "ND_CMD"
    BY <1>1, <1>12, exec_cmd_forkedDoes
  <2>2. ~ AtProcessLimit(P) /\ FreeSlots # {}
    BY <1>2, <2>1, ForkHasRoom
  <2>3. /\ AfterFork(Shell) \in [Proc -> Good] /\ ParentDone(Shell).pc = "return"
    BY <1>1, <1>12, <2>2, ForkType
  <2>4. ~ ResetFails(ForkedParent(Shell))
    <3>1. ~ ResetFails(P)
      BY <1>1, <1>2, <2>1, ResetSucceeds DEF Gone
    <3>2. SameFiles(P, ForkedParent(Shell))
      BY <1>1 DEF Process, ForkedParent, SameFiles, SameHeld
    <3> QED BY <3>1, <3>2 DEF SameFiles, SameHeld, ResetFails, CloseFails, IsOpen
  <2>5. proc' = [AfterFork(Shell) EXCEPT ![Shell] = ParentDone(Shell)]
    BY <1>12, <2>2, <2>4 DEF exec_cmd_forked, ForkedChild, ForkedParent, AfterFork, ParentDone
  <2>6. Q = ParentDone(Shell)
    BY <1>1, <2>3, <2>5
  <2> QED BY <2>3, <2>6
<1>13. CASE exec_cmd(Shell) \/ exec_cmd_with_heredoc(Shell)
  <2>1. P.pc = "cmd" /\ n \in Node /\ Ast[n].kind = "ND_CMD"
    BY <1>1, <1>13, exec_cmdDoes
  <2>2. Ast[n].cmd.word = "builtin"
    BY <1>2, <2>1, TypedIsBuiltin DEF ShellRuns
  <2>3. ~ HasHeredoc(P)
    <3>1. P.fd_num = NoHeredocs
      BY <1>2, <2>1 DEF Gone, Wires, Files
    <3>2. Ast[n].left # 0 => Ast[n].left \in RedirectNode
      BY <2>1, NodeShape
    <3> QED BY <3>1, <3>2 DEF HasHeredoc, NoHeredocs
  <2>4. AfterExpansion(Shell, P)
    BY <1>13, <2>3 DEF exec_cmd, exec_cmd_with_heredoc
  <2>5. Set(Shell, [P EXCEPT !.pc = "redirect", !.i = 1]) \/ Set(Shell, Launch(P))
    BY <2>2, <2>4 DEF AfterExpansion
  <2>6. [P EXCEPT !.pc = "redirect", !.i = 1].pc = "redirect"
    BY <1>1 DEF Process
  <2>7. Launch(P).pc = "builtin"
    BY <1>1, <2>2, LaunchDoes
  <2> QED BY <1>4, <2>5, <2>6, <2>7
<1>14. CASE apply_redirects(Shell)
  <2> DEFINE A == Applied(P)
             X == IF A.last_status # 0 \/ P.i = Len(Ast[ListOf(P)].redirects)
                  THEN AfterRedirects(A) ELSE [A EXCEPT !.i = P.i + 1]
  <2>1. P.pc = "redirect" /\ ~ P.is_exec_in_child_ps
    BY <1>14 DEF apply_redirects, Outside
  <2>2. Set(Shell, X)
    BY <1>14, <2>1 DEF apply_redirects, Applied, Operator, ListOf
  <2>3. A \in Process /\ A.pc = "redirect"
    BY <1>1, <2>1, AppliedDoes DEF SameStep
  <2> HIDE DEF A
  <2>4. [A EXCEPT !.i = P.i + 1].pc = "redirect"
    BY <2>3 DEF Process
  <2>5. AfterRedirects(A).pc # "zombie"
    <3>1. restore_std_fds(A) \in Process
      BY <2>3, RestoreDoes
    <3>2. \A v : Return(restore_std_fds(A), v).pc = "return" /\ Return(A, v).pc = "return"
      BY <2>3, <3>1 DEF Return, Process
    <3>3. Launch(A).pc \in {"builtin", "program"}
      BY <2>3, LaunchDoes
    <3>4. \/ AfterRedirects(A) = Launch(A)
          \/ \E v : AfterRedirects(A) \in {Return(restore_std_fds(A), v), Return(A, v)}
      BY DEF AfterRedirects
    <3> QED BY <3>2, <3>3, <3>4
  <2>6. X.pc # "zombie"
    BY <2>4, <2>5
  <2> HIDE DEF X
  <2> QED BY <1>4, <2>2, <2>6
<1>15. CASE run_builtin(Shell)
  <2> DEFINE s == BuiltinStatus(P)
             B == [P EXCEPT !.last_status = s]
  <2>1. P.pc = "builtin" /\ ~ P.is_exec_in_child_ps /\ ~ Ast[n].cmd.exits
    BY <1>3, <1>15 DEF run_builtin, Outside
  <2>2. Set(Shell, Return(IF s = 0 THEN restore_std_fds(B) ELSE B, s))
    BY <1>15, <2>1 DEF run_builtin
  <2>3. \A R, v : R \in Process => Return(R, v).pc = "return"
    BY DEF Return, Process
  <2>4. B \in Process
    <3>1. P.node \in Node
      BY <1>1, <2>1, Here DEF AtItsNode
    <3> QED BY <1>1, <3>1, StatusIsKept
  <2>5. restore_std_fds(B) \in Process
    BY <2>4, RestoreDoes
  <2> HIDE DEF B
  <2>6. Return(IF s = 0 THEN restore_std_fds(B) ELSE B, s).pc = "return"
    BY <2>3, <2>4, <2>5
  <2> QED BY <1>4, <2>2, <2>6
<1>16. CASE RunsOn(Shell)
  <2>1. Write(Shell) /\ P.pc = "builtin"
    BY <1>2, <1>16 DEF RunsOn, Read, ReadEof, ProgramExit, Reading, Write, ShellRuns
  <2>2. P.fds[STDOUT_FILENO][1] # "w"
    BY <1>2, <2>1 DEF Gone, Wires, Files, STDOUT_FILENO, Tty, File
  <2>3. Set(Shell, [P EXCEPT !.todo = @ - 1])
    BY <2>1, <2>2 DEF Write
  <2>4. [P EXCEPT !.todo = @ - 1].pc = "builtin"
    BY <1>1, <2>1 DEF Process
  <2> QED BY <1>4, <2>3, <2>4
<1>17. CASE ReturnFromRight(Shell) \/ ReturnFromPipeLeft(Shell) \/ ReturnAndWait(Shell)
            \/ WaitChild(Shell) \/ WaitNoChild(Shell)
  BY <1>1, <1>17, ReturnFromRightDoes, ReturnFromPipeLeftDoes, ReturnAndWaitDoes, WaitDoes DEF At
<1>18. CASE exec_and_node(Shell) \/ exec_or_node(Shell) \/ EndOfBrackets(Shell)
            \/ EndOfLine(Shell)
  BY <1>1, <1>18, DecideDoes, EndOfBracketsDoes, EndOfLineDoes DEF At
<1>19. CASE ChildSetup(Shell)
  BY <1>2, <1>19 DEF ChildSetup, ShellRuns
<1> QED BY <1>1, <1>6, <1>7, <1>8, <1>9, <1>10, <1>11, <1>12, <1>13, <1>14,
           <1>15, <1>16, <1>17, <1>18, <1>19, Happens DEF Advances, Step, RunsOn

\* OnlyExitEnds: on tidy lines, in a system with room for them, the shell ends
\* at the end of its input or in the builtin exit.  (What takes it down is a
\* fork or pipe that fails, a redirect in what it takes for a child, or a write
\* to a pipe: none of them happens.)
THEOREM ShellStaysUp ==
    ASSUME Tidy, Ample
    PROVE  Spec => OnlyExitEnds
<1> DEFINE Kin == \A r \in Others : Kid(proc[r]) /\ Own(r)
           Inv == /\ Sound /\ Wired(proc[Shell]) /\ Outside(proc[Shell]) /\ Few(proc[Shell])
                  /\ Kin
           End == proc[Shell].pc # "zombie" /\ proc'[Shell].pc = "zombie" =>
                    \/ proc[Shell].pc = "prompt"
                    \/ proc[Shell].pc = "builtin" /\ Ast[proc[Shell].node].cmd.exits
<1>1. Init => Inv
  <2>1. SUFFICES ASSUME Init PROVE Inv
    OBVIOUS
  <2>2. proc[Shell].pc = "prompt"
    BY <2>1, ShellStarts
  <2>3. Outside(proc[Shell]) /\ Few(proc[Shell])
    BY <2>2 DEF Outside, Few
  <2>4. NoProcess.pc = "free"
    BY DEF NoProcess
  <2>5. \A r \in Others : proc[r] = NoProcess
    BY <2>1 DEF Init, Others
  <2>6. Kin
    BY <2>4, <2>5 DEF Kid, Own
  <2> QED BY <2>1, <2>3, <2>6, SoundFirst, WiresFirst
<1>2. TypeOK /\ [Next]_vars /\ Inv => Inv'
  <2>1. SUFFICES ASSUME TypeOK, [Next]_vars, Inv PROVE Inv'
    OBVIOUS
  <2>2. Sound' /\ Wired(proc'[Shell])
    BY <2>1, SoundKept, WiresKept
  <2>3. Outside(proc'[Shell])
    BY <2>1, OutsideKept DEF Sound
  <2>4. Few(proc'[Shell])
    BY <2>1, FewKept DEF Sound
  <2>5. \A r \in Others : Kid(proc'[r])
    BY <2>1, TidyGives, KidsKept DEF Others
  <2>6. ASSUME NEW r \in Others, ~ Gone(proc'[Shell]), proc'[r].pc # "free"
        PROVE  proc'[r].parent = Shell
    BY <2>1, <2>6, OwnKept DEF Others
  <2>7. Kin'
    BY <2>5, <2>6 DEF Own
  <2> QED BY <2>2, <2>3, <2>4, <2>7
<1>3. TypeOK /\ PidsInBounds /\ Inv /\ [Next]_vars => [End]_vars
  BY NoExit
<1> QED BY <1>1, <1>2, <1>3, TypeCorrect, ChildrenBounded, PTL DEF Spec, OnlyExitEnds
=============================================================================
