------------------------ MODULE ExecutorInput_proofs ------------------------
(* The input a program starts with (InputDelivered): a file or a heredoc      *)
(* reaches the command it was typed for, and nobody else has read from it.    *)
EXTENDS ExecutorShell_proofs

(***************************************************************************)
(* Who is gone has nothing open.                                           *)
(***************************************************************************)
Emptied(P) == Gone(P) => \A fd \in FD : P.fds[fd] = Closed

\* Nothing is open in a slot that is not used,
LEMMA NoProcessEmpty == \A fd \in FD : NoProcess.fds[fd] = Closed
BY DEF NoProcess

\* exit() closes everything,
LEMMA ExitEmpties ==
    ASSUME NEW f \in [Proc -> Good], NEW p \in Proc, NEW s, NEW r \in Proc,
           r # p => Emptied(f[r])
    PROVE  Emptied(ExitIn(f, p, s)[r])
<1> DEFINE L == [f[r] EXCEPT !.parent = 0]
           Z == [NoProcess EXCEPT !.pc = "zombie", !.c_status = s, !.parent = f[p].parent]
<1>1. f[r] \in Process
  BY DEF Good
<1>2. L.pc = f[r].pc /\ L.fds = f[r].fds
  BY <1>1 DEF Process
<1>3. Z.fds = NoProcess.fds
  BY DEF NoProcess
<1>4. r = p => ExitIn(f, p, s)[r] = Z \/ ExitIn(f, p, s)[r] = NoProcess
  BY DEF ExitIn
<1>5. r # p => \/ ExitIn(f, p, s)[r] = L \/ ExitIn(f, p, s)[r] = NoProcess
               \/ ExitIn(f, p, s)[r] = f[r]
  BY DEF ExitIn
<1> HIDE DEF L, Z
<1> QED BY <1>2, <1>3, <1>4, <1>5, NoProcessEmpty DEF Emptied, Gone

\* and so it stays.
LEMMA EmptiedKept ==
    ASSUME TypeOK, [Next]_vars, \A q \in Proc : Emptied(proc[q]), NEW r \in Proc
    PROVE  Emptied(proc'[r])
<1>1. proc \in [Proc -> Good]
  BY ProcType
<1>2. ASSUME NEW p \in Proc, NEW Q, Set(p, Q), ~ Gone(Q) PROVE Emptied(proc'[r])
  BY <1>1, <1>2 DEF Set, Emptied
<1>3. ASSUME NEW p \in Proc, NEW s, Exit(p, s) PROVE Emptied(proc'[r])
  BY <1>1, <1>3, ExitEmpties DEF Exit
<1>4. ASSUME NEW p \in Proc, Plain(p) PROVE Emptied(proc'[r])
  <2>1. proc[p].pc \notin {"free", "zombie"}
    BY <1>4 DEF Plain, EndOfInput, Heredoc, HeredocsRead, exec_pipe, exec_logical,
       exec_round_brackets, exec_redirect, exec_cmd_here, AtNode, ChildSetup, exec_cmd,
       exec_cmd_with_heredoc, apply_redirects, run_builtin, Write, Read, ReadEof, Reading,
       ProgramExit, ReturnFromRight, ReturnFromPipeLeft
  <2>2. CASE \E X : GoesOn(proc[p], X) /\ Set(p, X)
    <3>1. PICK X : GoesOn(proc[p], X) /\ Set(p, X)
      BY <2>2
    <3>2. ~ Gone(X)
      BY <2>1, <3>1 DEF GoesOn, Busy, Gone
    <3> QED BY <1>2, <3>1, <3>2
  <2> QED BY <1>3, <1>4, <2>2, PlainMoves DEF Moves
<1>5. ASSUME NEW p \in Proc, Clearing(p) PROVE Emptied(proc'[r])
  BY <1>2, <1>3, <1>5, ClearingClears DEF Clears, Gone
<1>6. ASSUME NEW p \in Proc, ReturnAndWait(p) \/ WaitNoChild(p) PROVE Emptied(proc'[r])
  <2>1. \E X : Set(p, X)
    BY <1>6 DEF ReturnAndWait, WaitNoChild
  <2>2. PICK X : Set(p, X)
    BY <2>1
  <2>3. X = proc'[p]
    BY <1>1, <2>2 DEF Set
  <2>4. ~ Gone(proc'[p])
    BY <1>6, ReturnAndWaitDoes, WaitDoes DEF Gone
  <2> QED BY <1>2, <2>2, <2>3, <2>4
<1>7. ASSUME NEW p \in Proc, WaitChild(p) PROVE Emptied(proc'[r])
  <2>1. PICK q \in Awaited(p) :
          proc' = [proc EXCEPT ![q] = NoProcess,
                               ![p] = AfterWaitpid(proc[p], proc[q].c_status)]
    BY <1>7 DEF WaitChild
  <2>2. r # p => proc'[r] = NoProcess \/ proc'[r] = proc[r]
    BY <1>1, <2>1
  <2>3. r = p => ~ Gone(proc'[r])
    BY <1>7, WaitDoes DEF Gone
  <2> QED BY <2>2, <2>3, NoProcessEmpty DEF Emptied
<1>8. ASSUME NEW p \in Proc, exec_cmd_forked(p) PROVE Emptied(proc'[r])
  <2>1. ASSUME FreeSlots # {}
        PROVE  AfterFork(p) \in [Proc -> Good] /\ Emptied(AfterFork(p)[r])
    <3>1. /\ AfterFork(p) \in [Proc -> Good] /\ ForkedChild(p).pc = "child"
          /\ ForkedParent(p).pc = "exec"
      BY <1>8, <2>1, ForkType
    <3>2. \/ AfterFork(p)[r] = ForkedChild(p) \/ AfterFork(p)[r] = ForkedParent(p)
          \/ AfterFork(p)[r] = proc[r]
      BY <1>1 DEF AfterFork
    <3> QED BY <3>1, <3>2 DEF Emptied, Gone
  <2>2. CASE FreeSlots # {} /\ proc' = ExitIn(AfterFork(p), p, EXIT_FAILURE)
    BY <2>1, <2>2, ExitEmpties
  <2>3. CASE FreeSlots # {} /\ proc' = [AfterFork(p) EXCEPT ![p] = ParentDone(p)]
    <3>1. ParentDone(p).pc = "return"
      BY <1>8, <2>3, ForkType
    <3>2. proc'[r] = ParentDone(p) \/ proc'[r] = AfterFork(p)[r]
      BY <2>1, <2>3
    <3> QED BY <2>1, <2>3, <3>1, <3>2 DEF Emptied, Gone
  <2> QED BY <1>3, <1>8, <2>2, <2>3, ForkCases
<1>9. CASE UNCHANGED vars
  BY <1>9 DEF vars
<1> QED BY <1>4, <1>5, <1>6, <1>7, <1>8, <1>9, NextCases

(***************************************************************************)
(* Who is owed a heredoc: a command that has not got its heredoc yet, or a *)
(* child from its fork until its program starts.                           *)
(***************************************************************************)
BodyOf(n)    == Ast[n].redirects[LastOf(HeredocOps(n))].body
Source(P, n) == P.fds[IF P.fd_num[n] = -1 THEN STDIN_FILENO ELSE P.fd_num[n]]
InHand(P, n) == P.pc \in {"cmd", "redirect"} /\ n = ListOf(P)

\* The shell has passed the redirect lists before this node.
From(P)  == CASE P.pc = "exec" -> First[P.node]
              [] P.pc \in {"wait", "decide"} -> Ast[P.node].left + 1
              [] OTHER -> P.node + 1
Walks(P) == \/ P.pc \in {"exec", "cmd", "redirect", "builtin", "return"}
            \/ P.pc \in {"wait", "decide"} /\ P.node # 0

Unread(P) ==
    {n \in RedirectNode : /\ KeptHeredoc(n)
                          /\ \/ P.pc = "heredoc" /\ n <= P.i /\ Root[n] = P.node
                             \/ InHand(P, n) /\ P.fd_num[n] # -1
                             \/ Walks(P) /\ Root[n] = P.head_node /\ From(P) <= n}
Due(P) ==
    {n \in RedirectNode : /\ KeptHeredoc(n) /\ P.pc \in {"child", "cmd", "redirect"}
                          /\ n = Ast[P.node].left}
Claims(r, P) == IF r = Shell THEN Unread(P) ELSE Due(P)
Owed(r, P, n, k) == n \in Claims(r, P) /\ Source(P, n) = ReadEnd(k)

\* One of the numbers P remembers is that of a descriptor for reading from k,
\* and it may still be given to a child or moved to the standard input.
Looks(P, k) == \E fd \in Held(P) : fd \in FD /\ fd > 2 /\ P.fds[fd] = ReadEnd(k)
Minds(r, P) == r = Shell \/ P.pc = "child"

\* What r is owed is in a pipe, and
Filled(r, P, pipes) ==
    \A n \in Claims(r, P) :
        /\ \E k \in Pipe : Source(P, n) = ReadEnd(k) /\ pipes[k] = BodyOf(n)
        /\ r = Shell \/ P.pc # "redirect" => P.fd_num[n] # -1

\* nobody has any other use of that pipe.
Clear(r, R, s, S) ==
    \A k \in Pipe, n \in RedirectNode : Owed(s, S, n, k) =>
        /\ \A fd \in FD : R.fds[fd] # WriteEnd(k)
        /\ R.fds[STDIN_FILENO] = ReadEnd(k) => r = s /\ S.fd_num[n] = -1
        /\ Minds(r, R) /\ Looks(R, k) => r = s /\ InHand(S, n)
        /\ \A m \in RedirectNode : Owed(r, R, m, k) => r = s /\ m = n

Delivers == /\ \A r \in Proc : Filled(r, proc[r], pipe)
            /\ \A r, s \in Proc : Clear(r, proc[r], s, proc[s])

\* Whose turn it is not has no more than before,
Within(r, P, Q) ==
    /\ \A n \in Claims(r, Q) :
         /\ n \in Claims(r, P) /\ Source(Q, n) = Source(P, n) /\ Q.fd_num[n] = P.fd_num[n]
         /\ InHand(P, n) => InHand(Q, n)
         /\ r = Shell \/ Q.pc # "redirect" => r = Shell \/ P.pc # "redirect"
    /\ \A fd \in FD : Q.fds[fd] \in {P.fds[fd], Closed}
    /\ \A k \in Pipe : Minds(r, Q) /\ Looks(Q, k) => Minds(r, P) /\ Looks(P, k)

\* Descriptors for the ends of pipes, files and the terminal are all different.
LEMMA PipeEnds ==
    ASSUME NEW k, NEW j
    PROVE  /\ ReadEnd(k) = ReadEnd(j) => k = j
           /\ WriteEnd(k) = WriteEnd(j) => k = j
           /\ ReadEnd(k) # WriteEnd(j) /\ ReadEnd(k) # Closed /\ WriteEnd(k) # Closed
           /\ ReadEnd(k) # File /\ WriteEnd(k) # File
           /\ ReadEnd(k) # Tty /\ WriteEnd(k) # Tty
BY DEF ReadEnd, WriteEnd, Closed, File, Tty

\* The shell and the standard descriptors are among what the model has.
LEMMA ShellIs == Shell \in Proc /\ STDIN_FILENO \in FD /\ STDOUT_FILENO \in FD
BY BoundsAssumption, Standard DEF Shell, Proc, STDIN_FILENO, STDOUT_FILENO

\* Who is gone is owed nothing,
LEMMA GoneClaims ==
    ASSUME NEW r, NEW P, Gone(P)
    PROVE  Claims(r, P) = {}
BY DEF Gone, Claims, Unread, Due, InHand, Walks

\* so it has no more than before,
LEMMA GoneWithin ==
    ASSUME NEW r, NEW P, NEW Q, Gone(Q), Emptied(Q)
    PROVE  Within(r, P, Q)
<1>1. \A fd \in FD : Q.fds[fd] = Closed
  BY DEF Emptied
<1>2. \A k \in Pipe : ~ Looks(Q, k)
  BY <1>1, PipeEnds DEF Looks
<1> QED BY <1>1, <1>2, GoneClaims DEF Within

\* nor has who stays as it is,
LEMMA AlikeWithin ==
    ASSUME NEW r, NEW P, NEW Q, Alike(P, Q)
    PROVE  Within(r, P, Q)
<1>1. /\ Q.pc = P.pc /\ Q.node = P.node /\ Q.i = P.i /\ Q.head_node = P.head_node
      /\ Q.fds = P.fds /\ Q.fd_num = P.fd_num
  BY DEF Alike, At, SameFlags, SameFiles
<1>2. Held(Q) = Held(P)
  BY DEF Alike, SameFiles, SameHeld, Held
<1>3. \A n : InHand(P, n) <=> InHand(Q, n)
  BY <1>1 DEF InHand, ListOf
<1>4. Claims(r, Q) = Claims(r, P)
  BY <1>1, <1>3 DEF Claims, Unread, Due, Walks, From
<1> QED BY <1>1, <1>2, <1>3, <1>4 DEF Within, Source, Minds, Looks

\* nor who is one of these.
LEMMA AsideWithin ==
    ASSUME NEW r, NEW P, NEW Q, Aside(P, Q), Emptied(Q)
    PROVE  Within(r, P, Q)
BY GoneWithin, AlikeWithin DEF Aside

\* What is owed are heredocs that are kept.
LEMMA ClaimsAreLists ==
    ASSUME NEW r, NEW P
    PROVE  Claims(r, P) \subseteq {n \in RedirectNode : KeptHeredoc(n)}
BY DEF Claims, Unread, Due

\* Whose turn it is takes what nobody is owed: what it is owed afterwards it was
\* owed before, or it is in a pipe that nobody used;
OldClaim(p, n, k) ==
    LET P == proc[p]
        Q == proc'[p]
    IN  /\ Owed(p, P, n, k)
        /\ InHand(P, n) => InHand(Q, n)
        /\ P.fd_num[n] = -1 => Q.fd_num[n] = -1

NewClaim(p, n, k) ==
    LET Q == proc'[p]
    IN  /\ k \in UnusedPipes /\ pipe'[k] = BodyOf(n)
        /\ Q.fds[STDIN_FILENO] # ReadEnd(k) /\ \A fd \in FD : Q.fds[fd] # WriteEnd(k)
        /\ Minds(p, Q) /\ Looks(Q, k) => InHand(Q, n)
        /\ \A m \in RedirectNode : Owed(p, Q, m, k) => m = n

Receives(p) ==
    LET Q == proc'[p]
    IN  \A n \in Claims(p, Q) :
          /\ \E k \in Pipe : /\ Source(Q, n) = ReadEnd(k)
                             /\ OldClaim(p, n, k) \/ NewClaim(p, n, k)
          /\ p = Shell \/ Q.pc # "redirect" => Q.fd_num[n] # -1

\* of a pipe in use it gets no other end than it had,
Opened(p) ==
    LET P == proc[p]
        Q == proc'[p]
    IN  \A k \in Pipe \ UnusedPipes :
          /\ \A fd \in FD : Q.fds[fd] = WriteEnd(k) => \E g \in FD : P.fds[g] = WriteEnd(k)
          /\ Q.fds[STDIN_FILENO] = ReadEnd(k) =>
               \/ P.fds[STDIN_FILENO] = ReadEnd(k)
               \/ /\ \/ Minds(p, P) /\ Looks(P, k)
                     \/ \E m \in RedirectNode : Owed(p, P, m, k)
                  /\ \A n \in RedirectNode : Owed(p, Q, n, k) => Q.fd_num[n] = -1
          /\ Minds(p, Q) /\ Looks(Q, k) => Minds(p, P) /\ Looks(P, k)

\* and it writes to or reads from a pipe that nobody is owed.
Emits(p) ==
    LET P == proc[p]
        Q == proc'[p]
    IN  \A k \in Pipe : pipe'[k] # pipe[k] =>
          \/ k \in UnusedPipes
          \/ P.fds[STDOUT_FILENO] = WriteEnd(k)
          \/ P.fds[STDIN_FILENO] = ReadEnd(k) /\ Claims(p, P) = {}
          \/ \E n \in RedirectNode : Owed(p, P, n, k) /\ ~ Owed(p, Q, n, k)

Deals(p) == Receives(p) /\ Opened(p) /\ Emits(p)

\* A child that the shell forks takes over what was there for its command.
Births(c) ==
    LET P == proc[Shell]
        Q == proc'[Shell]
        C == proc'[c]
    IN  /\ c # Shell /\ P.pc = "exec" /\ C.pc = "child" /\ pipe' = pipe
        /\ C.fds = P.fds /\ C.fd_num = P.fd_num
        /\ \A k \in Pipe : Looks(C, k) => Looks(P, k)
        /\ Claims(c, C) \subseteq Claims(Shell, P) \ Claims(Shell, Q)
        /\ \A n, m \in Claims(c, C) : n = m
        /\ Within(Shell, P, Q)

\* The pipe that holds what somebody is owed is in use,
LEMMA OwedIsUsed ==
    ASSUME TypeOK, NEW s \in Proc, NEW k \in Pipe, NEW n \in RedirectNode,
           Owed(s, proc[s], n, k)
    PROVE  k \notin UnusedPipes
<1>1. proc[s].fd_num \in [RedirectNode -> FdOrNone]
  BY Here DEF Process
<1>2. \E fd \in FD : proc[s].fds[fd] = ReadEnd(k)
  BY <1>1, ShellIs DEF Owed, Source, FdOrNone
<1>3. s \in Readers(k)
  BY <1>2 DEF Readers, HasEnd
<1> QED BY <1>3 DEF UnusedPipes

\* while nobody has an end of a pipe that is not,
LEMMA UnusedHasNoEnd ==
    ASSUME NEW k \in UnusedPipes, NEW r \in Proc, NEW fd \in FD
    PROVE  proc[r].fds[fd] # ReadEnd(k) /\ proc[r].fds[fd] # WriteEnd(k)
BY DEF UnusedPipes, Readers, Writers, HasEnd

\* Who is not up was owed before what it is owed now,
LEMMA WithinOwed ==
    ASSUME NEW r, NEW P, NEW Q, Within(r, P, Q), NEW n \in RedirectNode, NEW k, Owed(r, Q, n, k)
    PROVE  Owed(r, P, n, k) /\ Q.fd_num[n] = P.fd_num[n] /\ (InHand(P, n) => InHand(Q, n))
BY DEF Owed, Within

\* and has no end of a pipe that it did not have,
LEMMA WithinFds ==
    ASSUME NEW r, NEW P, NEW Q, Within(r, P, Q), NEW fd \in FD, NEW k
    PROVE  /\ Q.fds[fd] = ReadEnd(k) => P.fds[fd] = ReadEnd(k)
           /\ Q.fds[fd] = WriteEnd(k) => P.fds[fd] = WriteEnd(k)
BY PipeEnds DEF Within

\* and of the newborn the shell was.
LEMMA BornOwed ==
    ASSUME NEW c, Births(c), NEW n \in RedirectNode, NEW k, Owed(c, proc'[c], n, k)
    PROVE  Owed(Shell, proc[Shell], n, k) /\ n \notin Claims(Shell, proc'[Shell])
BY DEF Owed, Births, Source

Turns(p, c) == /\ p \in Proc /\ Deals(p)
               /\ \A r \in Proc \ {p} : \/ Within(r, proc[r], proc'[r])
                                        \/ r = c /\ p = Shell /\ Births(c)

\* The contents of a pipe somebody is owed stay:
LEMMA StaysFull ==
    ASSUME TypeOK, Delivers, NEW p \in Proc, Emits(p), NEW s \in Proc, NEW n \in RedirectNode,
           NEW k \in Pipe, Owed(s, proc[s], n, k), s = p => Owed(p, proc'[p], n, k)
    PROVE  pipe'[k] = pipe[k]
<1> DEFINE P == proc[p]
<1>1. Clear(p, P, s, proc[s])
  BY DEF Delivers
<1>2. k \notin UnusedPipes
  BY OwedIsUsed
<1>3. P.fds[STDOUT_FILENO] # WriteEnd(k)
  BY <1>1, ShellIs DEF Clear
<1>4. P.fds[STDIN_FILENO] = ReadEnd(k) => s = p
  BY <1>1 DEF Clear
<1>5. s = p => Claims(p, P) # {}
  BY DEF Owed
<1>6. ASSUME NEW m \in RedirectNode, Owed(p, P, m, k), ~ Owed(p, proc'[p], m, k) PROVE FALSE
  <2>1. p = s /\ m = n
    BY <1>1, <1>6 DEF Clear
  <2> QED BY <1>6, <2>1
<1> QED BY <1>2, <1>3, <1>4, <1>5, <1>6 DEF Emits

\* everybody is still owed the contents,
LEMMA FilledKept ==
    ASSUME TypeOK, Delivers, NEW p, NEW c, Turns(p, c), NEW s \in Proc
    PROVE  Filled(s, proc'[s], pipe')
<1> DEFINE P == proc[s]
           Q == proc'[s]
<1> SUFFICES ASSUME NEW n \in Claims(s, Q)
             PROVE  /\ \E k \in Pipe : Source(Q, n) = ReadEnd(k) /\ pipe'[k] = BodyOf(n)
                    /\ s = Shell \/ Q.pc # "redirect" => Q.fd_num[n] # -1
  BY DEF Filled
<1>1. n \in RedirectNode
  BY ClaimsAreLists
<1>2. p \in Proc /\ Deals(p)
  BY DEF Turns
<1>3. Filled(s, P, pipe)
  BY DEF Delivers
<1>4. CASE s = p
  <2>1. PICK k \in Pipe : Source(Q, n) = ReadEnd(k) /\ (OldClaim(p, n, k) \/ NewClaim(p, n, k))
    BY <1>2, <1>4 DEF Deals, Receives
  <2>2. s = Shell \/ Q.pc # "redirect" => Q.fd_num[n] # -1
    BY <1>2, <1>4 DEF Deals, Receives
  <2>3. CASE OldClaim(p, n, k)
    <3>1. Owed(s, P, n, k) /\ Owed(s, Q, n, k)
      BY <1>4, <2>1, <2>3 DEF OldClaim, Owed
    <3>2. pipe'[k] = pipe[k]
      BY <1>1, <1>2, <1>4, <3>1, StaysFull DEF Deals
    <3>3. pipe[k] = BodyOf(n)
      BY <1>3, <3>1, PipeEnds DEF Filled, Owed
    <3> QED BY <2>1, <2>2, <3>2, <3>3
  <2>4. CASE NewClaim(p, n, k)
    BY <2>1, <2>2, <2>4 DEF NewClaim
  <2> QED BY <2>1, <2>3, <2>4
<1>5. CASE s # p /\ Within(s, P, Q)
  <2>1. /\ n \in Claims(s, P) /\ Source(Q, n) = Source(P, n) /\ Q.fd_num[n] = P.fd_num[n]
        /\ s = Shell \/ Q.pc # "redirect" => s = Shell \/ P.pc # "redirect"
    BY <1>5 DEF Within
  <2>2. PICK k \in Pipe : Source(P, n) = ReadEnd(k) /\ pipe[k] = BodyOf(n)
    BY <1>3, <2>1 DEF Filled
  <2>3. pipe'[k] = pipe[k]
    BY <1>1, <1>2, <1>5, <2>1, <2>2, StaysFull DEF Deals, Owed
  <2>4. s = Shell \/ Q.pc # "redirect" => Q.fd_num[n] # -1
    BY <1>3, <2>1 DEF Filled
  <2> QED BY <2>1, <2>2, <2>3, <2>4
<1>6. CASE s = c /\ p = Shell /\ Births(c)
  <2>1. /\ n \in Claims(Shell, proc[Shell]) /\ Source(Q, n) = Source(proc[Shell], n)
        /\ Q.fd_num = proc[Shell].fd_num /\ pipe' = pipe
    BY <1>6 DEF Births, Source
  <2>2. Filled(Shell, proc[Shell], pipe)
    BY ShellIs DEF Delivers
  <2>3. \E k \in Pipe : Source(proc[Shell], n) = ReadEnd(k) /\ pipe[k] = BodyOf(n)
    BY <2>1, <2>2 DEF Filled
  <2>4. proc[Shell].fd_num[n] # -1
    BY <2>1, <2>2 DEF Filled
  <2> QED BY <2>1, <2>3, <2>4
<1> QED BY <1>4, <1>5, <1>6 DEF Turns

\* and nobody else has come to use the pipe: not if who is owed it was not up,
LEMMA ClearWithin ==
    ASSUME TypeOK, Delivers, NEW p, NEW c, Turns(p, c), NEW r \in Proc, NEW s \in Proc,
           Within(s, proc[s], proc'[s]), s # p
    PROVE  Clear(r, proc'[r], s, proc'[s])
<1> DEFINE R == proc[r]
           T == proc'[r]
<1> SUFFICES ASSUME NEW k \in Pipe, NEW n \in RedirectNode, Owed(s, proc'[s], n, k)
             PROVE  /\ \A fd \in FD : T.fds[fd] # WriteEnd(k)
                    /\ T.fds[STDIN_FILENO] = ReadEnd(k) => r = s /\ proc'[s].fd_num[n] = -1
                    /\ Minds(r, T) /\ Looks(T, k) => r = s /\ InHand(proc'[s], n)
                    /\ \A m \in RedirectNode : Owed(r, T, m, k) => r = s /\ m = n
  BY DEF Clear
<1>1. /\ Owed(s, proc[s], n, k) /\ proc'[s].fd_num[n] = proc[s].fd_num[n]
      /\ InHand(proc[s], n) => InHand(proc'[s], n)
  BY WithinOwed
<1>2. \A q \in Proc : /\ \A fd \in FD : proc[q].fds[fd] # WriteEnd(k)
                      /\ proc[q].fds[STDIN_FILENO] = ReadEnd(k) => q = s /\ proc[s].fd_num[n] = -1
                      /\ Minds(q, proc[q]) /\ Looks(proc[q], k) => q = s /\ InHand(proc[s], n)
                      /\ \A m \in RedirectNode : Owed(q, proc[q], m, k) => q = s /\ m = n
  BY <1>1 DEF Delivers, Clear
<1>3. k \notin UnusedPipes
  BY <1>1, OwedIsUsed
<1>4. CASE Within(r, R, T)
  <2>1. \A fd \in FD : T.fds[fd] # WriteEnd(k)
    BY <1>2, <1>4, WithinFds
  <2>2. T.fds[STDIN_FILENO] = ReadEnd(k) => R.fds[STDIN_FILENO] = ReadEnd(k)
    BY <1>4, WithinFds, ShellIs
  <2>3. Minds(r, T) /\ Looks(T, k) => Minds(r, R) /\ Looks(R, k)
    BY <1>4 DEF Within
  <2>4. \A m \in RedirectNode : Owed(r, T, m, k) => Owed(r, R, m, k)
    BY <1>4, WithinOwed
  <2> QED BY <1>1, <1>2, <2>1, <2>2, <2>3, <2>4
<1>5. CASE r = p
  <2>1. Opened(p) /\ Receives(p)
    BY DEF Turns, Deals
  <2>2. /\ \A fd \in FD : T.fds[fd] = WriteEnd(k) => \E g \in FD : R.fds[g] = WriteEnd(k)
        /\ T.fds[STDIN_FILENO] = ReadEnd(k) =>
             \/ R.fds[STDIN_FILENO] = ReadEnd(k)
             \/ Minds(p, R) /\ Looks(R, k)
             \/ \E m \in RedirectNode : Owed(p, R, m, k)
        /\ Minds(p, T) /\ Looks(T, k) => Minds(p, R) /\ Looks(R, k)
    BY <1>3, <1>5, <2>1 DEF Opened
  <2>3. ASSUME NEW m \in RedirectNode, Owed(p, T, m, k) PROVE FALSE
    <3>1. OldClaim(p, m, k) \/ NewClaim(p, m, k)
      BY <1>5, <2>1, <2>3, PipeEnds DEF Receives, Owed
    <3>2. Owed(p, R, m, k)
      BY <1>3, <1>5, <3>1 DEF OldClaim, NewClaim
    <3> QED BY <1>2, <1>5, <3>2
  <2> QED BY <1>2, <1>5, <2>2, <2>3
<1>6. CASE r = c /\ p = Shell /\ Births(c)
  <2> DEFINE S == proc[Shell]
  <2>1. T.fds = S.fds /\ (Looks(T, k) => Looks(S, k))
    BY <1>6 DEF Births
  <2>2. \A m \in RedirectNode : Owed(r, T, m, k) => Owed(Shell, S, m, k)
    BY <1>6, BornOwed
  <2>3. Shell \in Proc /\ Shell # s /\ Minds(Shell, S)
    BY <1>6, ShellIs DEF Minds
  <2> QED BY <1>2, <2>1, <2>2, <2>3
<1> QED BY <1>4, <1>5, <1>6 DEF Turns

\* nor if it was up,
LEMMA ClearTurn ==
    ASSUME TypeOK, Delivers, NEW p, NEW c, Turns(p, c), NEW r \in Proc
    PROVE  Clear(r, proc'[r], p, proc'[p])
<1> DEFINE R == proc[r]
           T == proc'[r]
           P == proc[p]
           Q == proc'[p]
<1> SUFFICES ASSUME NEW k \in Pipe, NEW n \in RedirectNode, Owed(p, Q, n, k)
             PROVE  /\ \A fd \in FD : T.fds[fd] # WriteEnd(k)
                    /\ T.fds[STDIN_FILENO] = ReadEnd(k) => r = p /\ Q.fd_num[n] = -1
                    /\ Minds(r, T) /\ Looks(T, k) => r = p /\ InHand(Q, n)
                    /\ \A m \in RedirectNode : Owed(r, T, m, k) => r = p /\ m = n
  BY DEF Clear
<1>1. p \in Proc /\ Opened(p) /\ Receives(p)
  BY DEF Turns, Deals
<1>2. OldClaim(p, n, k) \/ NewClaim(p, n, k)
  BY <1>1, PipeEnds DEF Receives, Owed
<1>3. CASE OldClaim(p, n, k)
  <2>1. /\ Owed(p, P, n, k) /\ (InHand(P, n) => InHand(Q, n))
        /\ P.fd_num[n] = -1 => Q.fd_num[n] = -1
    BY <1>3 DEF OldClaim
  <2>2. \A q \in Proc : /\ \A fd \in FD : proc[q].fds[fd] # WriteEnd(k)
                        /\ proc[q].fds[STDIN_FILENO] = ReadEnd(k) => q = p /\ P.fd_num[n] = -1
                        /\ Minds(q, proc[q]) /\ Looks(proc[q], k) => q = p /\ InHand(P, n)
                        /\ \A m \in RedirectNode : Owed(q, proc[q], m, k) => q = p /\ m = n
    BY <1>1, <2>1 DEF Delivers, Clear
  <2>3. k \notin UnusedPipes
    BY <1>1, <2>1, OwedIsUsed
  <2>4. CASE r # p /\ Within(r, R, T)
    <3>1. \A fd \in FD : T.fds[fd] # WriteEnd(k)
      BY <2>2, <2>4, WithinFds
    <3>2. T.fds[STDIN_FILENO] = ReadEnd(k) => R.fds[STDIN_FILENO] = ReadEnd(k)
      BY <2>4, WithinFds, ShellIs
    <3>3. Minds(r, T) /\ Looks(T, k) => Minds(r, R) /\ Looks(R, k)
      BY <2>4 DEF Within
    <3>4. \A m \in RedirectNode : Owed(r, T, m, k) => Owed(r, R, m, k)
      BY <2>4, WithinOwed
    <3> QED BY <2>2, <2>4, <3>1, <3>2, <3>3, <3>4
  <2>5. CASE r = p
    <3>1. /\ \A fd \in FD : Q.fds[fd] = WriteEnd(k) => \E g \in FD : P.fds[g] = WriteEnd(k)
          /\ Q.fds[STDIN_FILENO] = ReadEnd(k) =>
               \/ P.fds[STDIN_FILENO] = ReadEnd(k)
               \/ Q.fd_num[n] = -1
          /\ Minds(p, Q) /\ Looks(Q, k) => Minds(p, P) /\ Looks(P, k)
      BY <1>1, <2>3 DEF Opened
    <3>2. ASSUME NEW m \in RedirectNode, Owed(p, Q, m, k) PROVE m = n
      <4>1. OldClaim(p, m, k) \/ NewClaim(p, m, k)
        BY <1>1, <3>2, PipeEnds DEF Receives, Owed
      <4>2. Owed(p, P, m, k)
        BY <2>3, <4>1 DEF OldClaim, NewClaim
      <4> QED BY <1>1, <2>2, <4>2
    <3> QED BY <1>1, <2>1, <2>2, <2>5, <3>1, <3>2
  <2>6. CASE r = c /\ p = Shell /\ Births(c)
    <3>1. T.fds = P.fds /\ (Looks(T, k) => Looks(P, k)) /\ P.pc = "exec"
      BY <2>6 DEF Births
    <3>2. P.fd_num[n] # -1 /\ n \in Claims(Shell, Q)
      BY <1>1, <2>1, <2>6 DEF Delivers, Filled, Owed
    <3>3. \A m \in RedirectNode : ~ Owed(r, T, m, k)
      BY <1>1, <2>2, <2>6, <3>2, BornOwed
    <3>4. ~ InHand(P, n)
      BY <3>1 DEF InHand
    <3> QED BY <1>1, <2>2, <2>6, <3>1, <3>2, <3>3, <3>4 DEF Minds
  <2> QED BY <2>4, <2>5, <2>6 DEF Turns
<1>4. CASE NewClaim(p, n, k)
  <2>1. k \in UnusedPipes
    BY <1>4 DEF NewClaim
  <2>2. CASE r # p /\ Within(r, R, T)
    <3>1. \A fd \in FD : R.fds[fd] # ReadEnd(k) /\ R.fds[fd] # WriteEnd(k)
      BY <2>1, UnusedHasNoEnd
    <3>2. \A fd \in FD : T.fds[fd] # ReadEnd(k) /\ T.fds[fd] # WriteEnd(k)
      BY <2>2, <3>1, WithinFds
    <3>3. ~ Looks(T, k)
      BY <3>2 DEF Looks
    <3>4. \A m \in RedirectNode : ~ Owed(r, T, m, k)
      BY <2>1, <2>2, WithinOwed, OwedIsUsed
    <3> QED BY <3>2, <3>3, <3>4, ShellIs
  <2>3. CASE r = p
    BY <1>4, <2>3 DEF NewClaim
  <2>4. CASE r = c /\ p = Shell /\ Births(c)
    <3>1. n \in Claims(Shell, P) /\ Source(P, n) = ReadEnd(k)
      BY <2>4 DEF Births, Within, Owed
    <3> QED BY <1>1, <2>1, <2>4, <3>1, OwedIsUsed DEF Owed
  <2> QED BY <2>2, <2>3, <2>4 DEF Turns
<1> QED BY <1>2, <1>3, <1>4

\* nor if it was born.
LEMMA ClearBorn ==
    ASSUME TypeOK, Delivers, NEW c, Turns(Shell, c), Births(c), c \in Proc, NEW r \in Proc
    PROVE  Clear(r, proc'[r], c, proc'[c])
<1> DEFINE R == proc[r]
           T == proc'[r]
           P == proc[Shell]
           Q == proc'[Shell]
           C == proc'[c]
<1> SUFFICES ASSUME NEW k \in Pipe, NEW n \in RedirectNode, Owed(c, C, n, k)
             PROVE  /\ \A fd \in FD : T.fds[fd] # WriteEnd(k)
                    /\ T.fds[STDIN_FILENO] # ReadEnd(k)
                    /\ ~ (Minds(r, T) /\ Looks(T, k))
                    /\ \A m \in RedirectNode : Owed(r, T, m, k) => r = c /\ m = n
  BY DEF Clear
<1>1. Owed(Shell, P, n, k) /\ n \notin Claims(Shell, Q)
  BY BornOwed
<1>2. \A q \in Proc : /\ \A fd \in FD : proc[q].fds[fd] # WriteEnd(k)
                      /\ proc[q].fds[STDIN_FILENO] = ReadEnd(k) => q = Shell /\ P.fd_num[n] = -1
                      /\ Minds(q, proc[q]) /\ Looks(proc[q], k) => q = Shell /\ InHand(P, n)
                      /\ \A m \in RedirectNode : Owed(q, proc[q], m, k) => q = Shell /\ m = n
  BY <1>1, ShellIs DEF Delivers, Clear
<1>3. P.fd_num[n] # -1
  BY <1>1, ShellIs DEF Delivers, Filled, Owed
<1>4. ~ InHand(P, n) /\ Within(Shell, P, Q) /\ C.fds = P.fds /\ (Looks(C, k) => Looks(P, k))
      /\ Shell \in Proc /\ Minds(Shell, P)
  BY ShellIs DEF Births, InHand, Minds
<1>5. CASE Within(r, R, T)
  <2>1. \A fd \in FD : T.fds[fd] # WriteEnd(k)
    BY <1>2, <1>5, WithinFds
  <2>2. T.fds[STDIN_FILENO] # ReadEnd(k)
    BY <1>2, <1>3, <1>5, WithinFds, ShellIs
  <2>3. ~ (Minds(r, T) /\ Looks(T, k))
    BY <1>2, <1>4, <1>5 DEF Within
  <2>4. ASSUME NEW m \in RedirectNode, Owed(r, T, m, k) PROVE FALSE
    <3>1. Owed(r, R, m, k)
      BY <1>5, <2>4, WithinOwed
    <3>2. r = Shell /\ m = n
      BY <1>2, <3>1
    <3> QED BY <1>1, <2>4, <3>2 DEF Owed
  <2> QED BY <2>1, <2>2, <2>3, <2>4
<1>6. CASE r = c
  <2>1. \A m \in RedirectNode : Owed(r, T, m, k) => m = n
    BY <1>6 DEF Births, Owed
  <2> QED BY <1>2, <1>3, <1>4, <1>6, <2>1
<1>7. r = Shell => Within(r, R, T)
  BY <1>4
<1> QED BY <1>5, <1>6, <1>7 DEF Turns

\* Whoever takes such a turn, Delivers is kept.
LEMMA DeliversKept ==
    ASSUME TypeOK, Delivers, NEW p, NEW c, Turns(p, c)
    PROVE  Delivers'
<1>1. ASSUME NEW r \in Proc, NEW s \in Proc PROVE Clear(r, proc'[r], s, proc'[s])
  <2>1. CASE s # p /\ Within(s, proc[s], proc'[s])
    BY <2>1, ClearWithin
  <2>2. CASE s = p
    BY <2>2, ClearTurn
  <2>3. CASE s = c /\ p = Shell /\ Births(c)
    BY <2>3, ClearBorn
  <2> QED BY <2>1, <2>2, <2>3 DEF Turns
<1> QED BY <1>1, FilledKept DEF Delivers

(***************************************************************************)
(* The shell walks on: most steps leave everybody what there was.          *)
(***************************************************************************)
LEMMA WithinDeals ==
    ASSUME TypeOK, Delivers, NEW p \in Proc, Within(p, proc[p], proc'[p]),
           \A k \in Pipe : pipe'[k] # pipe[k] =>
               \/ proc[p].fds[STDOUT_FILENO] = WriteEnd(k)
               \/ proc[p].fds[STDIN_FILENO] = ReadEnd(k) /\ Claims(p, proc[p]) = {}
    PROVE  Deals(p)
<1> DEFINE P == proc[p]
           Q == proc'[p]
<1>1. Filled(p, P, pipe)
  BY DEF Delivers
<1>2. ASSUME NEW n \in Claims(p, Q)
      PROVE  /\ \E k \in Pipe : Source(Q, n) = ReadEnd(k) /\ OldClaim(p, n, k)
             /\ p = Shell \/ Q.pc # "redirect" => Q.fd_num[n] # -1
  <2>1. /\ n \in Claims(p, P) /\ Source(Q, n) = Source(P, n) /\ Q.fd_num[n] = P.fd_num[n]
        /\ InHand(P, n) => InHand(Q, n)
        /\ p = Shell \/ Q.pc # "redirect" => p = Shell \/ P.pc # "redirect"
    BY <1>2 DEF Within
  <2>2. PICK k \in Pipe : Source(P, n) = ReadEnd(k)
    BY <1>1, <2>1 DEF Filled
  <2>3. OldClaim(p, n, k)
    BY <2>1, <2>2 DEF OldClaim, Owed
  <2>4. p = Shell \/ Q.pc # "redirect" => Q.fd_num[n] # -1
    BY <1>1, <2>1 DEF Filled
  <2> QED BY <2>1, <2>2, <2>3, <2>4
<1>3. Receives(p)
  BY <1>2 DEF Receives
<1>4. Opened(p)
  <2>1. \A k \in Pipe : /\ \A fd \in FD : Q.fds[fd] = WriteEnd(k) => P.fds[fd] = WriteEnd(k)
                        /\ Q.fds[STDIN_FILENO] = ReadEnd(k) => P.fds[STDIN_FILENO] = ReadEnd(k)
    BY WithinFds, ShellIs
  <2>2. \A k \in Pipe : Minds(p, Q) /\ Looks(Q, k) => Minds(p, P) /\ Looks(P, k)
    BY DEF Within
  <2> QED BY <2>1, <2>2 DEF Opened
<1>5. Emits(p)
  BY DEF Emits
<1> QED BY <1>3, <1>4, <1>5 DEF Deals

\* What the shell may still come to lies before it.
LEMMA QuietWithin ==
    ASSUME NEW P, NEW Q, SameFiles(P, Q), Q.head_node = P.head_node, Walks(P), Q.pc # "heredoc",
           NEW a \in Nat, NEW b \in Nat, a <= b, Walks(Q) => From(P) = a /\ From(Q) = b,
           \A n \in RedirectNode :
               KeptHeredoc(n) /\ InHand(Q, n) /\ Q.fd_num[n] # -1 => n \in Claims(Shell, P),
           \A n \in Claims(Shell, Q) : InHand(P, n) => InHand(Q, n)
    PROVE  Within(Shell, P, Q)
<1>1. ASSUME NEW n \in Claims(Shell, Q) PROVE n \in Claims(Shell, P)
  <2>1. n \in RedirectNode /\ KeptHeredoc(n) /\ n \in Nat
    BY <1>1, ClaimsAreLists, Nodes DEF RedirectNode
  <2>2. CASE InHand(Q, n) /\ Q.fd_num[n] # -1
    BY <2>1, <2>2
  <2>3. CASE Walks(Q) /\ Root[n] = Q.head_node /\ From(Q) <= n
    <3>1. From(P) <= n
      BY <2>1, <2>3
    <3> QED BY <2>1, <2>3, <3>1 DEF Claims, Unread
  <2> QED BY <1>1, <2>2, <2>3 DEF Claims, Unread
<1>2. Q.fds = P.fds /\ Q.fd_num = P.fd_num /\ Held(Q) = Held(P)
  BY DEF SameFiles, SameHeld, Held
<1> QED BY <1>1, <1>2 DEF Within, Source, Minds, Looks

\* The steps that only walk the tree.
Strolls(p) == \/ HeredocsRead(p) \/ exec_logical(p) \/ exec_round_brackets(p)
              \/ exec_redirect(p) \/ exec_cmd_here(p) \/ exec_cmd(p)
              \/ ReturnFromRight(p) \/ ReturnFromPipeLeft(p) \/ ReturnAndWait(p)
              \/ WaitChild(p) \/ WaitNoChild(p)
              \/ exec_and_node(p) \/ exec_or_node(p) \/ EndOfBrackets(p)

\* Such a step puts nothing into a pipe.
LEMMA StrollPipe ==
    ASSUME NEW p, Strolls(p)
    PROVE  pipe' = pipe
BY DEF Strolls, HeredocsRead, exec_logical, exec_round_brackets, exec_redirect, exec_cmd_here,
       exec_cmd, ReturnFromRight, ReturnFromPipeLeft, ReturnAndWait, WaitChild, WaitNoChild,
       exec_and_node, exec_or_node, EndOfBrackets

\* How far the shell has come is a number.
LEMMA FromIs ==
    ASSUME NEW P, P.node \in NodeOrNull, P.node \in Node \/ P.pc \in {"wait", "decide"},
           P.node # 0
    PROVE  /\ From(P) \in Nat
           /\ P.pc = "exec" => From(P) = First[P.node]
           /\ P.pc \in {"wait", "decide"} => From(P) = Ast[P.node].left + 1
           /\ P.pc \in {"cmd", "redirect", "builtin", "return"} => From(P) = P.node + 1
<1>1. P.node \in Node
  BY Nodes
<1>2. First[P.node] \in Nat /\ Ast[P.node].left + 1 \in Nat /\ P.node + 1 \in Nat
  BY <1>1, FirstIsNat, Order
<1> QED BY <1>1, <1>2 DEF From

\* A list of the command or the redirects the shell comes to is before it.
LEMMA ComesToList ==
    ASSUME NEW P \in Process, NEW Q, P.pc = "exec", P.node \in Node,
           Root[P.node] = P.head_node, Q.node = P.node,
           Ast[P.node].kind \in {"ND_CMD", "ND_REDIRECTS"},
           NEW n \in RedirectNode, KeptHeredoc(n), n = ListOf(Q)
    PROVE  n \in Claims(Shell, P)
<1>1. n \in Node /\ n # 0 /\ n \in Nat
  BY Nodes DEF RedirectNode
<1>2. First[P.node] <= n
  <2>1. CASE Ast[P.node].kind = "ND_CMD"
    <3>1. n = Ast[P.node].left
      BY <2>1 DEF ListOf
    <3>2. First[P.node] = n
      BY <1>1, <2>1, <3>1, Order
    <3> QED BY <1>1, <3>2
  <2>2. CASE Ast[P.node].kind = "ND_REDIRECTS"
    <3>1. n = P.node
      BY <2>2 DEF ListOf
    <3> QED BY <2>2, <3>1, Order
  <2> QED BY <2>1, <2>2
<1>3. Root[n] = P.head_node
  <2>1. CASE Ast[P.node].kind = "ND_CMD"
    <3>1. n = Ast[P.node].left
      BY <2>1 DEF ListOf
    <3>2. Parent[n] = P.node /\ P.node # 0
      BY <1>1, <3>1, LeftChild, Nodes
    <3> QED BY <1>1, <3>2, SameTree
  <2>2. CASE Ast[P.node].kind = "ND_REDIRECTS"
    BY <2>2 DEF ListOf
  <2> QED BY <2>1, <2>2
<1> QED BY <1>2, <1>3 DEF Claims, Unread, Walks, From

\* The shell begins to walk the tree with what it is owed,
LEMMA ReadWithin ==
    ASSUME TypeOK, ShellRuns(proc[Shell]), HeredocsRead(Shell)
    PROVE  Within(Shell, proc[Shell], proc'[Shell])
<1> DEFINE P == proc[Shell]
           Q == proc'[Shell]
<1>1. /\ P.pc = "heredoc" /\ HeredocNodes(P) = {} /\ At(Q, "exec", P.node) /\ SameFiles(P, Q)
      /\ Q.head_node = P.node
  BY ShellIs, HeredocsReadDoes
<1>2. Q.fds = P.fds /\ Q.fd_num = P.fd_num /\ Held(Q) = Held(P) /\ Q.pc = "exec"
  BY <1>1 DEF SameFiles, SameHeld, Held, At
<1>3. ASSUME NEW n \in Claims(Shell, Q) PROVE n \in Claims(Shell, P)
  <2>1. n \in RedirectNode /\ KeptHeredoc(n) /\ Root[n] = P.node
    BY <1>1, <1>2, <1>3 DEF Claims, Unread, InHand
  <2>2. n \in Nat /\ P.i \in Nat
    <3>1. P \in Process
      BY ShellIs, Here
    <3>2. P.i \in Nat
      BY <3>1 DEF Process
    <3> QED BY <2>1, <3>2, Nodes DEF RedirectNode
  <2>3. n <= P.i
    BY <1>1, <2>1, <2>2 DEF HeredocNodes, KeptHeredoc
  <2> QED BY <1>1, <2>1, <2>3 DEF Claims, Unread
<1>4. \A n : ~ InHand(P, n)
  BY <1>1 DEF InHand
<1> QED BY <1>2, <1>3, <1>4 DEF Within, Source, Minds, Looks

\* and wherever it walks, it is owed no more than before.
LEMMA StrollWithin ==
    ASSUME TypeOK, Sound, Strolls(Shell), Emptied(proc'[Shell])
    PROVE  Within(Shell, proc[Shell], proc'[Shell])
<1> DEFINE P == proc[Shell]
           Q == proc'[Shell]
           n == P.node
<1>1. P \in Process /\ Shell \in Proc
  BY ShellIs, Here
<1>2. CASE Gone(Q)
  BY <1>2, GoneWithin
<1>3. CASE HeredocsRead(Shell)
  BY <1>3, ReadWithin DEF Sound
<1>4. \A m : ~ InHand(P, m) \/ P.pc \in {"cmd", "redirect"}
  BY DEF InHand
<1>5. ASSUME NEW a \in Nat, NEW b \in Nat, a <= b, Walks(P), SameFiles(P, Q),
             Q.head_node = P.head_node, P.pc \notin {"cmd", "redirect"},
             Q.pc \in {"exec", "return", "wait", "decide"},
             Walks(Q) => From(P) = a /\ From(Q) = b
      PROVE  Within(Shell, P, Q)
  <2>1. \A m : ~ InHand(Q, m) /\ ~ InHand(P, m)
    BY <1>5 DEF InHand
  <2> QED BY <1>5, <2>1, QuietWithin
<1>6. n \in Node => n \in Nat /\ n + 1 \in Nat /\ First[n] \in Nat /\ Ast[n].left \in Nat
                    /\ Ast[n].left + 1 <= n + 1 /\ Ast[n].left + 1 \in Nat /\ n # 0
  BY Order, FirstIsNat
<1>7. CASE exec_logical(Shell) \/ exec_round_brackets(Shell)
  <2>1. /\ P.pc = "exec" /\ n \in Node
        /\ Ast[n].kind \in {"ND_AND_OP", "ND_OR_OP", "ND_RND_BRACKET"}
        /\ At(Q, "exec", Ast[n].left) /\ SameFiles(P, Q) /\ Q.head_node = P.head_node
    BY <1>1, <1>7, exec_logicalDoes, exec_round_bracketsDoes DEF SameFlags
  <2>2. First[n] = First[Ast[n].left]
    BY <2>1, NodeShape, Nodes, Order
  <2>3. From(P) = First[n] /\ From(Q) = First[n] /\ Walks(P) /\ Q.pc = "exec"
    BY <2>1, <2>2 DEF From, Walks, At
  <2> QED BY <1>5, <1>6, <2>1, <2>3
<1>8. CASE exec_redirect(Shell) \/ exec_cmd_here(Shell)
  <2>1. /\ P.pc = "exec" /\ n \in Node /\ Ast[n].kind \in {"ND_CMD", "ND_REDIRECTS"}
        /\ Q.pc \in {"redirect", "cmd"} /\ Q.node = n /\ SameFiles(P, Q)
        /\ Q.head_node = P.head_node
    BY <1>1, <1>8, exec_redirectDoes, exec_cmd_hereDoes DEF SameFlags, At
  <2>2. Root[n] = P.head_node
    BY <2>1 DEF Sound, ShellAt
  <2>3. /\ From(P) = First[n] /\ From(Q) = n + 1 /\ Walks(P)
        /\ First[n] <= n + 1 /\ First[n] \in Nat
    BY <1>6, <2>1, Order DEF From, Walks
  <2>4. \A m : ~ InHand(P, m)
    BY <2>1 DEF InHand
  <2>5. \A m \in RedirectNode : KeptHeredoc(m) /\ InHand(Q, m) => m \in Claims(Shell, P)
    BY <1>1, <2>1, <2>2, ComesToList DEF InHand
  <2> QED BY <1>6, <2>1, <2>3, <2>4, <2>5, QuietWithin
<1>9. CASE exec_cmd(Shell) /\ ~ Gone(Q)
  <2>1. /\ P.pc = "cmd" /\ n \in Node /\ Ast[n].kind = "ND_CMD" /\ ~ HasHeredoc(P)
    BY <1>1, <1>9, exec_cmdDoes DEF exec_cmd
  <2>2. Q.node = n /\ Expanded(P, Q) /\ SameFlags(P, Q) /\ SameFiles(P, Q)
    BY <1>1, <1>9, <2>1, AfterExpansionDoes DEF exec_cmd
  <2>3. Q.pc \in {"return", "redirect", "builtin", "program"}
    BY <2>2 DEF Expanded
  <2>4. Walks(P) /\ (Walks(Q) => From(P) = n + 1 /\ From(Q) = n + 1)
    BY <2>1, <2>2, <2>3 DEF Walks, From
  <2>5. Q.fd_num = P.fd_num /\ Q.head_node = P.head_node
    BY <2>2 DEF SameFiles, SameFlags
  <2>6. ASSUME NEW m \in RedirectNode, InHand(Q, m), Q.fd_num[m] # -1 PROVE FALSE
    <3>1. m = Ast[n].left
      BY <2>1, <2>2, <2>6 DEF InHand, ListOf
    <3>2. m # 0
      BY Nodes DEF RedirectNode
    <3> QED BY <2>1, <2>5, <2>6, <3>1, <3>2 DEF HasHeredoc
  <2>7. ASSUME NEW m \in Claims(Shell, Q), InHand(P, m) PROVE FALSE
    <3>1. m = Ast[n].left /\ m < n /\ n \in Nat /\ m \in Nat
      BY <2>1, <2>7, Order DEF InHand, ListOf
    <3>2. m \in RedirectNode
      BY <2>7, ClaimsAreLists
    <3>3. From(Q) <= m /\ Walks(Q)
      BY <2>3, <2>6, <2>7, <3>2 DEF Claims, Unread
    <3> QED BY <2>4, <3>1, <3>3
  <2> QED BY <1>6, <2>1, <2>2, <2>3, <2>4, <2>5, <2>6, <2>7, QuietWithin
<1>10. CASE ReturnFromRight(Shell)
  <2>1. /\ P.pc = "return" /\ n \in Node /\ Parent[n] # 0
        /\ At(Q, "return", Parent[n]) /\ SameFlags(P, Q) /\ SameFiles(P, Q)
    BY <1>1, <1>10, ReturnFromRightDoes
  <2>2. Parent[n] \in Node /\ n < Parent[n]
    BY <2>1, ParentChild
  <2>3. Parent[n] + 1 \in Nat /\ n + 1 <= Parent[n] + 1
    BY <1>6, <2>1, <2>2, Order
  <2>4. From(P) = n + 1 /\ From(Q) = Parent[n] + 1 /\ Walks(P) /\ Q.pc = "return"
    BY <2>1 DEF From, Walks, At
  <2> QED BY <1>5, <1>6, <2>1, <2>3, <2>4 DEF SameFlags
<1>11. CASE ReturnFromPipeLeft(Shell)
  <2> DEFINE m == Parent[n]
  <2>1. /\ P.pc = "return" /\ n \in Node /\ m # 0
        /\ Ast[m].left = n /\ Ast[m].kind = "ND_PIPE"
        /\ At(Q, "exec", Ast[m].right) /\ SameFlags(P, Q)
        /\ Q.fds = P.fds /\ Q.fd_num = P.fd_num
        /\ Q.in_pipe_fd = P.in_pipe_fd /\ Q.out_pipe_fd = STDOUT_FILENO
        /\ Q.pre_in_pipe_fd = P.pre_in_pipe_fd
        /\ Q.stored_stdin = P.stored_stdin /\ Q.stored_stdout = P.stored_stdout
    BY <1>1, <1>11, ReturnFromPipeLeftDoes
  <2>2. m \in Node
    BY <2>1, ParentChild
  <2>3. First[Ast[m].right] = n + 1
    BY <2>1, <2>2, NodeShape, Nodes, Order
  <2>4. From(P) = n + 1 /\ From(Q) = n + 1 /\ Walks(P) /\ Walks(Q)
    BY <2>1, <2>3 DEF From, Walks, At
  <2>5. \A k : InHand(P, k) <=> FALSE
    BY <2>1 DEF InHand
  <2>6. \A k : InHand(Q, k) <=> FALSE
    BY <2>1 DEF InHand, At
  <2>7. Claims(Shell, Q) \subseteq Claims(Shell, P)
    BY <2>1, <2>4, <2>6 DEF Claims, Unread, At, SameFlags
  <2>8. \A fd \in Held(Q) : fd \in Held(P) \/ ~ (fd > 2)
    BY <2>1 DEF Held, STDOUT_FILENO
  <2>9. \A k \in Pipe : Looks(Q, k) => Looks(P, k)
    BY <2>1, <2>8 DEF Looks
  <2> QED BY <2>1, <2>5, <2>7, <2>9 DEF Within, Source, Minds
<1>12. CASE ReturnAndWait(Shell)
  <2> DEFINE m == Parent[n]
  <2>1. /\ P.pc = "return" /\ n \in Node
        /\ m # 0 => Ast[m].left = n
        /\ Q.pc \in {"wait", "decide"} /\ Q.node = m
        /\ SameFlags(P, Q) /\ SameFiles(P, Q)
    BY <1>1, <1>12, ReturnAndWaitDoes
  <2>2. From(P) = n + 1 /\ Walks(P) /\ (Walks(Q) => From(Q) = n + 1)
    BY <2>1 DEF From, Walks
  <2> QED BY <1>5, <1>6, <2>1, <2>2 DEF SameFlags
<1>13. CASE WaitChild(Shell) \/ WaitNoChild(Shell)
  <2>1. /\ P.pc = "wait"
        /\ Q.pc \in {"wait", "decide"} /\ Q.node = n
        /\ SameFlags(P, Q) /\ SameFiles(P, Q)
    BY <1>1, <1>13, WaitDoes
  <2>2. CASE n = 0
    <3>1. Claims(Shell, Q) = {}
      BY <2>1, <2>2 DEF Claims, Unread, InHand, Walks
    <3>2. Q.fds = P.fds /\ Held(Q) = Held(P)
      BY <2>1 DEF SameFiles, SameHeld, Held
    <3> QED BY <3>1, <3>2 DEF Within, Minds, Looks
  <2>3. CASE n # 0
    <3>1. n \in Node
      BY <1>1, <2>3, Nodes DEF Process, NodeOrNull
    <3>2. From(P) = Ast[n].left + 1 /\ From(Q) = Ast[n].left + 1 /\ Walks(P)
      BY <2>1, <2>3 DEF From, Walks
    <3> QED BY <1>5, <1>6, <2>1, <3>1, <3>2 DEF SameFlags
  <2> QED BY <2>2, <2>3
<1>14. CASE exec_and_node(Shell) \/ exec_or_node(Shell)
  <2>1. /\ P.pc = "decide" /\ n \in Node
        /\ Ast[n].kind \in {"ND_AND_OP", "ND_OR_OP"}
        /\ SameFiles(P, Q) /\ Q.head_node = P.head_node
        /\ At(Q, "return", n) \/ At(Q, "exec", Ast[n].right)
    BY <1>1, <1>14, DecideDoes DEF SameFlags
  <2>2. First[Ast[n].right] = Ast[n].left + 1
    BY <2>1, NodeShape, Nodes, Order
  <2>3. From(P) = Ast[n].left + 1 /\ Walks(P)
    BY <1>6, <2>1 DEF From, Walks
  <2>4. Q.pc \in {"return", "exec"} /\ From(Q) \in {n + 1, Ast[n].left + 1}
    BY <2>1, <2>2 DEF From, At
  <2>5. Ast[n].left + 1 \in Nat /\ n + 1 \in Nat /\ Ast[n].left + 1 <= n + 1
    BY <1>6, <2>1
  <2> QED BY <1>5, <2>1, <2>3, <2>4, <2>5
<1>15. CASE EndOfBrackets(Shell)
  <2>1. /\ P.pc = "decide" /\ n \in Node
        /\ At(Q, "return", n) /\ SameFiles(P, Q) /\ Q.head_node = P.head_node
    BY <1>1, <1>15, EndOfBracketsDoes
  <2>2. From(P) = Ast[n].left + 1 /\ From(Q) = n + 1 /\ Walks(P) /\ Q.pc = "return"
    BY <1>6, <2>1 DEF From, Walks, At
  <2> QED BY <1>5, <1>6, <2>1, <2>2
<1> QED BY <1>2, <1>3, <1>7, <1>8, <1>9, <1>10, <1>11, <1>12, <1>13, <1>14, <1>15 DEF Strolls

\* Programs and builtins write to and read from pipes that nobody is owed.
LEMMA RunsOnDeals ==
    ASSUME TypeOK, Delivers, Sound, NEW p \in Proc, RunsOn(p), Emptied(proc'[p])
    PROVE  Deals(p)
<1> DEFINE P == proc[p]
           Q == proc'[p]
<1>1. /\ P.pc \in {"program", "builtin"}
      /\ Gone(Q) \/ (At(Q, P.pc, P.node) /\ SameFlags(P, Q) /\ SameFiles(P, Q))
  BY RunsOnDoes
<1>2. ASSUME ~ Gone(Q) PROVE Within(p, P, Q)
  <2>1. /\ Q.pc = P.pc /\ Q.node = P.node /\ Q.head_node = P.head_node
        /\ Q.fds = P.fds /\ Q.fd_num = P.fd_num /\ Held(Q) = Held(P)
    BY <1>1, <1>2 DEF At, SameFlags, SameFiles, SameHeld, Held
  <2>2. \A n : ~ InHand(P, n) /\ ~ InHand(Q, n)
    BY <1>1, <2>1 DEF InHand
  <2>3. Claims(p, Q) = Claims(p, P)
    BY <1>1, <2>1, <2>2 DEF Claims, Unread, Due, Walks, From
  <2> QED BY <2>1, <2>2, <2>3 DEF Within, Source, Minds, Looks
<1>3. Within(p, P, Q)
  <2>1. CASE Gone(Q)
    BY <2>1, GoneWithin
  <2> QED BY <1>2, <2>1
<1>4. ASSUME NEW k \in Pipe, pipe'[k] # pipe[k]
      PROVE  \/ P.fds[STDOUT_FILENO] = WriteEnd(k)
             \/ P.fds[STDIN_FILENO] = ReadEnd(k) /\ Claims(p, P) = {}
  <2>1. P \in Process /\ pipe \in [Pipe -> 0 .. PipeCap]
    BY Here DEF TypeOK
  <2>2. P.fds \in [FD -> Desc]
    BY <2>1 DEF Process
  <2>3. CASE Write(p)
    <3> DEFINE out == P.fds[STDOUT_FILENO]
    <3>1. out[1] = "w" /\ pipe' = [pipe EXCEPT ![out[2]] = @ + 1]
      BY <1>4, <2>3 DEF Write
    <3>2. k = out[2]
      BY <1>4, <2>1, <3>1
    <3>3. out \in Desc
      BY <2>2, ShellIs
    <3>4. out = WriteEnd(k)
      BY <3>1, <3>2, <3>3 DEF Desc, WriteEnd
    <3> QED BY <3>4
  <2>4. CASE Read(p)
    <3> DEFINE in == P.fds[STDIN_FILENO]
    <3>1. in[1] = "r" /\ pipe' = [pipe EXCEPT ![in[2]] = @ - 1] /\ P.pc = "program"
      BY <2>4 DEF Read, Reading
    <3>2. k = in[2]
      BY <1>4, <2>1, <3>1
    <3>3. in \in Desc
      BY <2>2, ShellIs
    <3>4. in = ReadEnd(k)
      BY <3>1, <3>2, <3>3 DEF Desc, ReadEnd
    <3>5. Claims(p, P) = {}
      BY <3>1 DEF Sound, ShellRuns, Claims, Due
    <3> QED BY <3>4, <3>5
  <2>5. CASE ReadEof(p) \/ ProgramExit(p)
    BY <1>4, <2>5 DEF ReadEof, ProgramExit
  <2> QED BY <2>3, <2>4, <2>5 DEF RunsOn
<1> QED BY <1>3, <1>4, WithinDeals

(***************************************************************************)
(* New pipes.                                                              *)
(***************************************************************************)
LEMMA NewPipeUnused == UnusedPipes # {} => NewPipe \in UnusedPipes
<1> SUFFICES ASSUME UnusedPipes # {} PROVE NewPipe \in UnusedPipes
  OBVIOUS
<1>1. UnusedPipes \subseteq Nat
  BY BoundsAssumption DEF UnusedPipes, Pipe
<1>2. \E j \in UnusedPipes : \A i \in UnusedPipes : j <= i
  BY <1>1, NatMin
<1> QED BY <1>2 DEF NewPipe

\* New descriptors are for pipes that nobody used.
LEMMA NewOpened ==
    ASSUME NEW p \in Proc, Minds(p, proc'[p]) => Minds(p, proc[p]),
           \A fd \in FD : \/ proc'[p].fds[fd] = proc[p].fds[fd]
                          \/ /\ fd > 2
                             /\ \E k \in UnusedPipes :
                                  proc'[p].fds[fd] \in {ReadEnd(k), WriteEnd(k)},
           \A fd \in FD : fd \in Held(proc'[p]) =>
               \/ fd \in Held(proc[p])
               \/ \E k \in UnusedPipes : proc'[p].fds[fd] \in {ReadEnd(k), WriteEnd(k)}
    PROVE  Opened(p)
<1> DEFINE P == proc[p]
           Q == proc'[p]
<1> SUFFICES ASSUME NEW k \in Pipe \ UnusedPipes
             PROVE  /\ \A fd \in FD : Q.fds[fd] = WriteEnd(k) =>
                         \E g \in FD : P.fds[g] = WriteEnd(k)
                    /\ Q.fds[STDIN_FILENO] = ReadEnd(k) => P.fds[STDIN_FILENO] = ReadEnd(k)
                    /\ Looks(Q, k) => Looks(P, k)
  BY DEF Opened
<1>1. ASSUME NEW j \in UnusedPipes, NEW fd, Q.fds[fd] \in {ReadEnd(j), WriteEnd(j)}
      PROVE  Q.fds[fd] # ReadEnd(k) /\ Q.fds[fd] # WriteEnd(k)
  BY <1>1, PipeEnds
<1>2. \A fd \in FD : Q.fds[fd] \in {ReadEnd(k), WriteEnd(k)} => Q.fds[fd] = P.fds[fd]
  BY <1>1
<1>3. ASSUME Looks(Q, k) PROVE Looks(P, k)
  <2>1. PICK fd \in Held(Q) : fd \in FD /\ fd > 2 /\ Q.fds[fd] = ReadEnd(k)
    BY <1>3 DEF Looks
  <2>2. fd \in Held(P) /\ P.fds[fd] = ReadEnd(k)
    BY <1>1, <1>2, <2>1
  <2> QED BY <2>1, <2>2 DEF Looks
<1> QED BY <1>2, <1>3, ShellIs

\* What is owed lies where nothing was free.
LEMMA SourceStays ==
    ASSUME NEW P \in Process, NEW Q, NEW n \in RedirectNode, NEW k \in Pipe,
           Source(P, n) = ReadEnd(k),
           Q.fd_num[n] = P.fd_num[n],
           \A fd \in FD : P.fds[fd] # Closed => Q.fds[fd] = P.fds[fd]
    PROVE  Source(Q, n) = Source(P, n)
<1>1. P.fd_num[n] \in FdOrNone
  BY DEF Process
<1> QED BY <1>1, PipeEnds, ShellIs DEF Source, FdOrNone

\* exec_pipe takes a pipe that nobody is owed anything from.
LEMMA PipeDeals ==
    ASSUME TypeOK, Delivers, Sound, exec_pipe(Shell), Emptied(proc'[Shell])
    PROVE  Deals(Shell)
<1> DEFINE P == proc[Shell]
           Q == proc'[Shell]
<1>1. /\ P.pc = "exec" /\ P.node \in Node /\ Ast[P.node].kind = "ND_PIPE" /\ P \in Process
      /\ Shell \in Proc
  BY ShellIs, Here, exec_pipeDoes
<1>2. \A k \in Pipe : pipe'[k] # pipe[k] => k \in UnusedPipes
  <2>1. pipe' = pipe \/ (UnusedPipes # {} /\ pipe' = [pipe EXCEPT ![NewPipe] = 0])
    BY DEF exec_pipe
  <2>2. pipe \in [Pipe -> 0 .. PipeCap]
    BY DEF TypeOK
  <2> QED BY <2>1, <2>2, NewPipeUnused
<1>3. CASE Gone(Q)
  <2>1. pipe' = pipe
    <3> DEFINE X == [P EXCEPT !.fds = [@ EXCEPT ![NthFree(P, 1)] = ReadEnd(NewPipe),
                                                ![NthFree(P, 2)] = WriteEnd(NewPipe)],
                              !.is_exec_in_child_ps = TRUE,
                              !.in_pipe_fd = NthFree(P, 1), !.out_pipe_fd = NthFree(P, 2),
                              !.node = Ast[P.node].left]
    <3>1. pipe' = pipe \/ Set(Shell, X)
      BY DEF exec_pipe
    <3>2. X.pc = "exec"
      BY <1>1 DEF Process
    <3> HIDE DEF X
    <3>3. Set(Shell, X) => Q = X
      BY <1>1, ProcType DEF Set
    <3> QED BY <1>3, <3>1, <3>2, <3>3 DEF Gone
  <2> QED BY <1>1, <1>3, <2>1, GoneWithin, WithinDeals
<1>4. CASE ~ Gone(Q)
  <2>1. PICK r \in FreeFds(P), w \in FreeFds(P), k \in UnusedPipes :
          /\ r # w /\ At(Q, "exec", Ast[P.node].left)
          /\ Q.fds = [P.fds EXCEPT ![r] = ReadEnd(k), ![w] = WriteEnd(k)]
          /\ Q.in_pipe_fd = r /\ Q.out_pipe_fd = w
          /\ Q.pre_in_pipe_fd = P.pre_in_pipe_fd
          /\ Q.stored_stdin = P.stored_stdin /\ Q.stored_stdout = P.stored_stdout
          /\ Q.fd_num = P.fd_num
          /\ Q.head_node = P.head_node
    BY <1>1, <1>4, exec_pipeDoes
  <2>2. P.fds \in [FD -> Desc] /\ r \in FD /\ w \in FD /\ P.fds[r] = Closed /\ P.fds[w] = Closed
    BY <1>1 DEF Process, FreeFds
  <2>3. r > 2 /\ w > 2
    <3>1. Std(P)
      BY <1>1 DEF Sound, Steady, Gone
    <3> QED BY <3>1, FreeIsNum, NumIs
  <2>4. /\ Q.fds[r] = ReadEnd(k) /\ Q.fds[w] = WriteEnd(k)
        /\ \A fd \in FD : fd # r /\ fd # w => Q.fds[fd] = P.fds[fd]
    BY <2>1, <2>2
  <2>5. \A fd \in Held(Q) : fd \in Held(P) \cup {r, w}
    BY <2>1 DEF Held
  <2>6. Opened(Shell)
    BY <1>1, <2>3, <2>4, <2>5, NewOpened DEF Minds
  <2>7. Claims(Shell, Q) \subseteq Claims(Shell, P)
    <3>1. First[P.node] = First[Ast[P.node].left]
      BY <1>1, NodeShape, Nodes, Order
    <3> QED BY <1>1, <2>1, <3>1 DEF Claims, Unread, Walks, From, InHand, At
  <2>8. ASSUME NEW n \in Claims(Shell, Q)
        PROVE  /\ \E j \in Pipe : Source(Q, n) = ReadEnd(j) /\ OldClaim(Shell, n, j)
               /\ Q.fd_num[n] # -1
    <3>1. n \in Claims(Shell, P) /\ n \in RedirectNode
      BY <2>7, <2>8, ClaimsAreLists
    <3>2. PICK j \in Pipe : Source(P, n) = ReadEnd(j)
      BY <1>1, <3>1 DEF Delivers, Filled
    <3>3. P.fd_num[n] # -1
      BY <1>1, <3>1 DEF Delivers, Filled
    <3>4. Source(Q, n) = Source(P, n)
      BY <1>1, <2>1, <2>2, <2>4, <3>1, <3>2, SourceStays
    <3>5. ~ InHand(P, n)
      BY <1>1 DEF InHand
    <3> QED BY <2>1, <3>1, <3>2, <3>3, <3>4, <3>5 DEF OldClaim, Owed
  <2>9. Receives(Shell)
    BY <2>8 DEF Receives
  <2> QED BY <1>2, <2>6, <2>9 DEF Deals, Emits
<1> QED BY <1>3, <1>4

\* While the shell reads the heredocs of a line it has no pipe at hand, and the
\* terminal it saved stays where it is.
Ready(P) == P.pc = "heredoc" =>
              /\ P.in_pipe_fd = -1 /\ P.out_pipe_fd = -1 /\ P.pre_in_pipe_fd = -1
              /\ P.stored_stdin \in FD /\ P.stored_stdout \in FD
              /\ P.fds[P.stored_stdin] # Closed /\ P.fds[P.stored_stdout] # Closed

\* A body goes into a pipe that nobody used.
LEMMA HeredocFills ==
    ASSUME TypeOK, NEW p \in Proc, Heredoc(p)
    PROVE  LET P == proc[p]
               Q == proc'[p]
               n == NextHeredoc(P)
           IN  \/ Gone(Q) /\ pipe' = pipe
               \/ ~ is_heredoc_end(n) /\ SameFiles(P, Q) /\ pipe' = pipe
               \/ /\ is_heredoc_end(n)
                  /\ \E fd \in FreeFds(P), k \in UnusedPipes :
                       /\ Q.fds = [P.fds EXCEPT ![fd] = ReadEnd(k)]
                       /\ Q.fd_num = [P.fd_num EXCEPT ![n] = fd]
                       /\ SameHeld(P, Q)
                       /\ pipe' = [pipe EXCEPT ![k] = BodyOf(n)]
<1> DEFINE P == proc[p]
           Q == proc'[p]
           n == NextHeredoc(P)
           c == Cardinality(HeredocOps(n))
           fd == NthFree(P, c)
           k == NewPipe
           X == [P EXCEPT !.i = n, !.fds[fd] = ReadEnd(k), !.fd_num[n] = fd]
           Y == [P EXCEPT !.i = n]
<1>1. proc \in [Proc -> Good] /\ P \in Process /\ P.pc = "heredoc"
  BY ProcType, Here DEF Heredoc
<1>2. n \in RedirectNode /\ c \in Nat /\ c > 0
  <2>1. n \in HeredocNodes(P)
    BY HeredocDoes
  <2>2. n \in RedirectNode /\ HeredocOps(n) # {} /\ n \in Node
    BY <2>1 DEF HeredocNodes, RedirectNode
  <2> QED BY <2>2, OpsType
<1>3. \/ Exit(p, EXIT_FAILURE) /\ pipe' = pipe
      \/ ~ is_heredoc_end(n) /\ Set(p, Y) /\ pipe' = pipe
      \/ /\ is_heredoc_end(n) /\ ~ (Cardinality(FreeFds(P)) <= c) /\ UnusedPipes # {}
         /\ Set(p, X) /\ pipe' = [pipe EXCEPT ![k] = BodyOf(n)]
  BY DEF Heredoc, NextHeredoc, BodyOf
<1> HIDE DEF n, c
<1>4. CASE Exit(p, EXIT_FAILURE) /\ pipe' = pipe
  BY <1>1, <1>4, Null, ExitDoes DEF Exit
<1>5. CASE ~ is_heredoc_end(n) /\ Set(p, Y) /\ pipe' = pipe
  <2>1. Q = Y
    BY <1>1, <1>5 DEF Set
  <2>2. SameFiles(P, Q)
    BY <1>1, <2>1 DEF Process, SameFiles, SameHeld
  <2> QED BY <1>5, <2>2 DEF n
<1>6. CASE /\ is_heredoc_end(n) /\ ~ (Cardinality(FreeFds(P)) <= c) /\ UnusedPipes # {}
           /\ Set(p, X) /\ pipe' = [pipe EXCEPT ![k] = BodyOf(n)]
  <2>1. fd \in FreeFds(P)
    <3>1. Cardinality(FreeFds(P)) \in Nat
      BY Standard, FS_Subset, FS_CardinalityType DEF FreeFds
    <3>2. c <= Cardinality(FreeFds(P))
      BY <1>2, <1>6, <3>1
    <3> QED BY <1>2, <3>2, NthFreeIn
  <2>2. k \in UnusedPipes
    BY <1>6, NewPipeUnused
  <2> HIDE DEF fd, k
  <2>3. Q = X
    BY <1>1, <1>6 DEF Set
  <2>4. /\ Q.fds = [P.fds EXCEPT ![fd] = ReadEnd(k)]
        /\ Q.fd_num = [P.fd_num EXCEPT ![n] = fd] /\ SameHeld(P, Q)
    BY <1>1, <2>3 DEF Process, SameHeld
  <2> QED BY <1>6, <2>1, <2>2, <2>4 DEF n
<1> QED BY <1>3, <1>4, <1>5, <1>6

\* What is owed while the heredocs are read.
LEMMA ReadSoFar ==
    ASSUME NEW P, P.pc = "heredoc"
    PROVE  \A n : n \in Claims(Shell, P) <=>
                    n \in RedirectNode /\ KeptHeredoc(n) /\ n <= P.i /\ Root[n] = P.node
BY DEF Claims, Unread, InHand, Walks

\* The shell is owed the heredoc it has just read, in the pipe it wrote it to.
LEMMA HeredocDeals ==
    ASSUME TypeOK, Delivers, Sound, Ready(proc[Shell]), Heredoc(Shell), Emptied(proc'[Shell])
    PROVE  Deals(Shell)
<1> DEFINE P == proc[Shell]
           Q == proc'[Shell]
           h == NextHeredoc(P)
<1>1. P \in Process /\ Shell \in Proc /\ P.pc = "heredoc" /\ P.i \in Nat
  <2>1. P \in Process /\ Shell \in Proc
    BY ShellIs, Here
  <2> QED BY <2>1 DEF Heredoc, Process
<1>2. CASE Gone(Q)
  <2>1. pipe' = pipe
    <3>1. \/ pipe' = pipe
          \/ \E fd \in FreeFds(P), k \in UnusedPipes : Q.fds = [P.fds EXCEPT ![fd] = ReadEnd(k)]
      BY <1>1, HeredocFills
    <3>2. ASSUME NEW fd \in FreeFds(P), NEW k, Q.fds = [P.fds EXCEPT ![fd] = ReadEnd(k)]
          PROVE  FALSE
      <4>1. fd \in FD /\ P.fds \in [FD -> Desc]
        BY <1>1 DEF FreeFds, Process
      <4>2. Q.fds[fd] = ReadEnd(k)
        BY <3>2, <4>1
      <4> QED BY <1>2, <4>1, <4>2, PipeEnds DEF Emptied
    <3> QED BY <3>1, <3>2
  <2> QED BY <1>1, <1>2, <2>1, GoneWithin, WithinDeals
<1>3. CASE ~ Gone(Q)
  <2>1. /\ h \in HeredocNodes(P) /\ \A m \in HeredocNodes(P) : h <= m
        /\ Q.pc = "heredoc" /\ Q.node = P.node /\ Q.i = h
    BY <1>1, <1>3, HeredocDoes DEF At
  <2>2. h \in RedirectNode /\ h > P.i /\ h \in Nat /\ Root[h] = P.node /\ HeredocOps(h) # {}
    BY <2>1, Nodes DEF HeredocNodes, RedirectNode
  <2> HIDE DEF h
  <2>3. \A n : ~ InHand(P, n)
    BY <1>1 DEF InHand
  <2>4. ASSUME NEW n \in Claims(Shell, Q), n # h PROVE n \in Claims(Shell, P)
    <3>1. /\ n \in RedirectNode /\ KeptHeredoc(n) /\ n <= h /\ Root[n] = P.node
          /\ n \in Nat
      <4>1. n \in RedirectNode /\ KeptHeredoc(n) /\ n <= Q.i /\ Root[n] = Q.node
        BY <2>1, <2>4, ReadSoFar
      <4> QED BY <2>1, <4>1, Nodes DEF RedirectNode
    <3>2. ~ (n > P.i)
      <4> SUFFICES ASSUME n > P.i PROVE FALSE
        OBVIOUS
      <4>1. n \in HeredocNodes(P)
        BY <3>1 DEF HeredocNodes, KeptHeredoc
      <4> QED BY <2>1, <2>2, <2>4, <3>1, <4>1
    <3>3. n <= P.i
      BY <1>1, <3>1, <3>2
    <3> QED BY <1>1, <3>1, <3>3, ReadSoFar
  <2>5. CASE ~ is_heredoc_end(h) /\ SameFiles(P, Q) /\ pipe' = pipe
    <3>1. Claims(Shell, Q) \subseteq Claims(Shell, P)
      <4>1. h \notin Claims(Shell, Q)
        BY <2>1, <2>5, ReadSoFar DEF KeptHeredoc
      <4> QED BY <2>4, <4>1
    <3>2. Q.fds = P.fds /\ Q.fd_num = P.fd_num /\ Held(Q) = Held(P)
      BY <2>5 DEF SameFiles, SameHeld, Held
    <3>3. Within(Shell, P, Q)
      BY <2>3, <3>1, <3>2 DEF Within, Source, Minds, Looks
    <3> QED BY <1>1, <2>5, <3>3, WithinDeals
  <2>6. ASSUME NEW fd \in FreeFds(P), NEW k \in UnusedPipes,
               Q.fds = [P.fds EXCEPT ![fd] = ReadEnd(k)],
               Q.fd_num = [P.fd_num EXCEPT ![h] = fd],
               SameHeld(P, Q), pipe' = [pipe EXCEPT ![k] = BodyOf(h)]
        PROVE  Deals(Shell)
    <3>1. /\ P.fds \in [FD -> Desc] /\ P.fd_num \in [RedirectNode -> FdOrNone]
          /\ pipe \in [Pipe -> 0 .. PipeCap] /\ fd \in FD /\ P.fds[fd] = Closed /\ k \in Pipe
      BY <1>1 DEF Process, TypeOK, FreeFds, UnusedPipes
    <3>2. fd > 2 /\ fd # -1 /\ fd # STDIN_FILENO
      <4>1. Std(P)
        BY <1>1 DEF Sound, Steady, Gone
      <4> QED BY <4>1, FreeIsNum, NumIs DEF STDIN_FILENO
    <3>3. /\ Q.fds[fd] = ReadEnd(k) /\ Q.fd_num[h] = fd
          /\ \A g \in FD \ {fd} : Q.fds[g] = P.fds[g]
          /\ \A n \in RedirectNode \ {h} : Q.fd_num[n] = P.fd_num[n]
          /\ \A j \in Pipe \ {k} : pipe'[j] = pipe[j]
          /\ pipe'[k] = BodyOf(h) /\ Held(Q) = Held(P)
      BY <2>2, <2>6, <3>1 DEF SameHeld, Held
    <3>4. Opened(Shell)
      BY <1>1, <3>2, <3>3, NewOpened DEF Minds
    <3>5. Emits(Shell)
      BY <3>3 DEF Emits
    <3>6. fd \notin Held(P)
      BY <1>1, <3>1, <3>2 DEF Ready, Held
    <3>7. \A g \in FD : P.fds[g] # ReadEnd(k) /\ P.fds[g] # WriteEnd(k)
      BY <1>1, UnusedHasNoEnd
    <3>8. ASSUME NEW n \in Claims(Shell, Q), n # h
          PROVE  /\ \E j \in Pipe : /\ Source(Q, n) = ReadEnd(j) /\ OldClaim(Shell, n, j)
                                    /\ j # k
                 /\ Q.fd_num[n] # -1
      <4>1. n \in Claims(Shell, P) /\ n \in RedirectNode
        BY <2>4, <3>8, ClaimsAreLists
      <4>2. PICK j \in Pipe : Source(P, n) = ReadEnd(j)
        BY <1>1, <4>1 DEF Delivers, Filled
      <4>3. P.fd_num[n] # -1 /\ Q.fd_num[n] = P.fd_num[n]
        BY <1>1, <3>3, <3>8, <4>1 DEF Delivers, Filled
      <4>4. Source(Q, n) = Source(P, n)
        BY <1>1, <3>1, <3>3, <4>1, <4>2, <4>3, SourceStays
      <4>5. j # k
        BY <1>1, <4>1, <4>2, OwedIsUsed DEF Owed
      <4> QED BY <2>3, <4>1, <4>2, <4>3, <4>4, <4>5 DEF OldClaim, Owed
    <3>9. h \in Claims(Shell, Q) => NewClaim(Shell, h, k)
      <4>1. \A g \in FD : Q.fds[g] # WriteEnd(k)
        BY <3>3, <3>7, PipeEnds
      <4>2. Q.fds[STDIN_FILENO] # ReadEnd(k)
        BY <3>2, <3>3, <3>7, ShellIs
      <4>3. ~ Looks(Q, k)
        BY <3>3, <3>6, <3>7 DEF Looks
      <4>4. \A m \in RedirectNode : Owed(Shell, Q, m, k) => m = h
        BY <3>8, PipeEnds DEF Owed
      <4> QED BY <3>3, <4>1, <4>2, <4>3, <4>4 DEF NewClaim
    <3>10. Source(Q, h) = ReadEnd(k) /\ Q.fd_num[h] # -1
      BY <3>2, <3>3 DEF Source
    <3>11. Receives(Shell)
      BY <3>1, <3>8, <3>9, <3>10 DEF Receives
    <3> QED BY <3>4, <3>5, <3>11 DEF Deals
  <2> QED BY <1>1, <1>3, <2>5, <2>6, HeredocFills DEF h
<1> QED BY <1>2, <1>3

(***************************************************************************)
(* The shell forks: the child is owed what the shell was, and the shell    *)
(* closes its own descriptor for it.                                       *)
(***************************************************************************)
\* fd_num has a descriptor for no heredoc that a later input replaces.
Plainly(P) == \A n \in RedirectNode : ~ KeptHeredoc(n) => P.fd_num[n] = -1

\* After fork the shell has closed its descriptor for the heredoc of the child,
LEMMA ForkWithin ==
    ASSUME TypeOK, Delivers, Sound, Plainly(proc[Shell]), exec_cmd_forked(Shell),
           Emptied(proc'[Shell])
    PROVE  Within(Shell, proc[Shell], proc'[Shell])
<1> DEFINE P == proc[Shell]
           Q == proc'[Shell]
           R == reset_parent_process_fd(P)
           D == CloseHeredoc(R)
           l == Ast[P.node].left
<1>1. /\ P.pc = "exec" /\ P.node \in Node /\ Ast[P.node].kind = "ND_CMD" /\ P \in Process
      /\ Shell \in Proc
  BY ShellIs, Here, exec_cmd_forkedDoes
<1>2. CASE Gone(Q)
  BY <1>2, GoneWithin
<1>3. CASE ~ Gone(Q)
  <2>1. At(Q, "return", P.node) /\ SameFiles(D, Q) /\ Q.head_node = P.head_node
    BY <1>1, <1>3, exec_cmd_forkedDoes DEF SameFlags
  <2>2. /\ R \in Process /\ R.node = P.node
        /\ R.fds = [fd \in FD |-> IF Dropped(P, fd) THEN Closed ELSE P.fds[fd]]
        /\ R.pre_in_pipe_fd = P.in_pipe_fd /\ R.in_pipe_fd = -1 /\ R.out_pipe_fd = -1
        /\ R.stored_stdin = P.stored_stdin /\ R.stored_stdout = P.stored_stdout
        /\ R.fd_num = P.fd_num
    BY <1>1, ResetDoes
  <2>3. /\ OnlyFds(R, D)
        /\ D.fds = IF l = 0 THEN R.fds ELSE Refers(R, P.fd_num[l], Closed)
    BY <2>2, CloseHeredocDoes
  <2>4. Q.fds = D.fds /\ Q.fd_num = P.fd_num /\ Held(Q) \subseteq Held(P) \cup {-1}
    BY <2>1, <2>2, <2>3 DEF SameFiles, SameHeld, OnlyFds, Held
  <2>5. \A fd \in FD : /\ Q.fds[fd] \in {P.fds[fd], Closed}
                       /\ ~ Dropped(P, fd) /\ (l # 0 => fd # P.fd_num[l]) =>
                            Q.fds[fd] = P.fds[fd]
    BY <2>2, <2>3, <2>4 DEF Refers
  <2>6. Root[P.node] = P.head_node
    BY <1>1 DEF Sound, ShellAt
  <2>7. \A n : ~ InHand(P, n) /\ ~ InHand(Q, n)
    BY <1>1, <2>1 DEF InHand, At
  <2>8. ASSUME NEW n \in Claims(Shell, Q)
        PROVE  n \in Claims(Shell, P) /\ P.node + 1 <= n /\ n \in RedirectNode /\ n \in Nat
    <3>1. /\ n \in RedirectNode /\ KeptHeredoc(n) /\ Root[n] = P.head_node /\ From(Q) <= n
      BY <2>1, <2>7, <2>8 DEF Claims, Unread, At
    <3>2. From(Q) = P.node + 1 /\ From(P) = First[P.node] /\ Walks(P)
      BY <1>1, <2>1 DEF From, At, Walks
    <3>3. n \in Nat /\ First[P.node] \in Nat /\ First[P.node] <= P.node /\ P.node \in Nat
      BY <1>1, <3>1, Nodes, Order DEF RedirectNode
    <3>4. From(P) <= n
      BY <3>1, <3>2, <3>3
    <3> QED BY <3>1, <3>2, <3>3, <3>4 DEF Claims, Unread
  <2>9. ASSUME NEW n \in Claims(Shell, Q) PROVE Source(Q, n) = Source(P, n)
    <3>1. n \in Claims(Shell, P) /\ P.node + 1 <= n /\ n \in RedirectNode /\ n \in Nat
      BY <2>8, <2>9
    <3>2. PICK k \in Pipe : Source(P, n) = ReadEnd(k)
      BY <1>1, <3>1 DEF Delivers, Filled
    <3>3. P.fd_num[n] # -1 /\ Owed(Shell, P, n, k)
      BY <1>1, <3>1, <3>2 DEF Delivers, Filled, Owed
    <3> DEFINE g == P.fd_num[n]
    <3>4. g \in FD /\ g > 2 /\ P.fds[g] = ReadEnd(k)
      <4>1. Std(P)
        BY <1>1 DEF Sound, Steady, Gone
      <4>2. g \in Num
        BY <3>1, <4>1 DEF Std
      <4>3. g \in FD /\ g > 2
        BY <3>3, <4>2, NumIs
      <4> QED BY <3>2, <3>3, <4>3 DEF Source
    <3>5. Clear(Shell, P, Shell, P)
      BY <1>1 DEF Delivers
    <3>6. ~ Dropped(P, g)
      <4>1. ~ Looks(P, k)
        BY <2>7, <3>1, <3>3, <3>5 DEF Clear, Minds
      <4> QED BY <3>4, <4>1 DEF Looks, Dropped, Held
    <3>7. l # 0 => g # P.fd_num[l]
      <4> SUFFICES ASSUME l # 0, g = P.fd_num[l] PROVE FALSE
        OBVIOUS
      <4>1. l \in RedirectNode /\ l < P.node /\ P.node \in Nat /\ l \in Nat
        BY <1>1, NodeShape, Order
      <4>2. KeptHeredoc(l)
        BY <3>3, <4>1 DEF Plainly
      <4>3. l \in Claims(Shell, P)
        <5>1. l = ListOf(P)
          BY <1>1 DEF ListOf
        <5> QED BY <1>1, <2>6, <4>1, <4>2, <5>1, ComesToList
      <4>4. Owed(Shell, P, l, k)
        BY <3>2, <4>3 DEF Owed, Source
      <4>5. l = n
        BY <3>1, <3>3, <3>5, <4>1, <4>4 DEF Clear
      <4> QED BY <3>1, <4>1, <4>5
    <3>8. Q.fds[g] = P.fds[g]
      BY <2>5, <3>4, <3>6, <3>7
    <3> QED BY <2>4, <3>3, <3>8 DEF Source
  <2>10. \A k \in Pipe : Looks(Q, k) => Looks(P, k)
    <3> SUFFICES ASSUME NEW k \in Pipe, Looks(Q, k) PROVE Looks(P, k)
      OBVIOUS
    <3>1. PICK fd \in Held(Q) : fd \in FD /\ fd > 2 /\ Q.fds[fd] = ReadEnd(k)
      BY DEF Looks
    <3>2. fd \in Held(P)
      BY <2>4, <3>1
    <3>3. P.fds[fd] = ReadEnd(k)
      BY <2>5, <3>1, PipeEnds
    <3> QED BY <3>1, <3>2, <3>3 DEF Looks
  <2> QED BY <2>4, <2>5, <2>7, <2>8, <2>9, <2>10 DEF Within, Minds
<1> QED BY <1>2, <1>3

\* and the child is owed it.
LEMMA ForkBirths ==
    ASSUME TypeOK, Delivers, Sound, Plainly(proc[Shell]), exec_cmd_forked(Shell),
           Emptied(proc'[Shell]), NEW c \in Others, ForkOf(proc[Shell], proc'[c])
    PROVE  Births(c)
<1> DEFINE P == proc[Shell]
           Q == proc'[Shell]
           C == proc'[c]
           l == Ast[P.node].left
<1>1. /\ P.pc = "exec" /\ P.node \in Node /\ Ast[P.node].kind = "ND_CMD" /\ P \in Process
      /\ Gone(Q) \/ (Q.pc = "return" /\ Q.node = P.node)
  BY ShellIs, Here, exec_cmd_forkedDoes DEF At
<1>2. /\ C.pc = "child" /\ C.node = P.node /\ C.fds = P.fds /\ C.fd_num = P.fd_num
      /\ Held(C) = Held(P)
  BY DEF ForkOf, At, SameFiles, SameHeld, Held
<1>3. Within(Shell, P, Q)
  BY ForkWithin
<1>4. pipe' = pipe
  BY DEF exec_cmd_forked
<1>5. c # Shell
  BY DEF Others
<1>6. \A n \in Claims(c, C) : n = l /\ n \in RedirectNode /\ KeptHeredoc(n)
  BY <1>2, <1>5 DEF Claims, Due
<1>7. ASSUME NEW n \in Claims(c, C) PROVE n \in Claims(Shell, P)
  <2>1. n = ListOf(P) /\ n \in RedirectNode /\ KeptHeredoc(n)
    BY <1>1, <1>6, <1>7 DEF ListOf
  <2>2. Root[P.node] = P.head_node
    BY <1>1 DEF Sound, ShellAt
  <2> QED BY <1>1, <2>1, <2>2, ComesToList
<1>8. ASSUME NEW n \in Claims(c, C), n \in Claims(Shell, Q) PROVE FALSE
  <2>1. Q.pc = "return" /\ Q.node = P.node
    BY <1>1, <1>8, GoneClaims
  <2>2. From(Q) <= n /\ From(Q) = P.node + 1
    BY <1>8, <2>1 DEF Claims, Unread, InHand, From
  <2>3. n < P.node /\ P.node \in Nat /\ n \in Nat
    BY <1>1, <1>6, <1>8, Order
  <2> QED BY <2>2, <2>3
<1>9. \A k \in Pipe : Looks(C, k) => Looks(P, k)
  BY <1>2 DEF Looks
<1> QED BY <1>1, <1>2, <1>3, <1>4, <1>5, <1>6, <1>7, <1>8, <1>9 DEF Births

\* Only the shell forks, and one child at a time.
LEMMA OneBorn ==
    ASSUME TypeOK, \A q \in Others : Kid(proc[q]), NEW r \in Proc, NewChild(r)
    PROVE  /\ exec_cmd_forked(Shell) /\ r = NewProcess /\ r \in Others
           /\ ForkOf(proc[Shell], proc'[r])
<1>1. PICK p \in Proc \ {r} : exec_cmd_forked(p) /\ ForkOf(proc[p], proc'[r])
  BY DEF NewChild
<1>2. p = Shell
  <2>1. proc[p].pc = "exec"
    BY <1>1 DEF ForkOf
  <2> QED BY <2>1 DEF Kid, Others
<1>3. proc[r].pc = "free" /\ r \in Others /\ proc'[r].pc = "child"
  BY <1>1 DEF NewChild, Others, ForkOf, At
<1>4. \A f : f[r] = proc[r] /\ Aside(f[r], proc'[r]) => FALSE
  BY <1>3 DEF Aside, Alike, At, Gone
<1>5. proc \in [Proc -> Good]
  BY ProcType
<1>6. ~ Exit(p, EXIT_FAILURE)
  BY <1>1, <1>4, <1>5, ExitAside DEF Exit
<1>7. FreeSlots # {} /\ AfterFork(p) \in [Proc -> Good]
  BY <1>1, <1>6, ForkCases, ForkType
<1>8. r # NewProcess => AfterFork(p)[r] = proc[r]
  BY <1>1, <1>5 DEF AfterFork
<1>9. CASE proc' = ExitIn(AfterFork(p), p, EXIT_FAILURE)
  BY <1>1, <1>2, <1>3, <1>4, <1>7, <1>8, <1>9, ExitAside
<1>10. CASE proc' = [AfterFork(p) EXCEPT ![p] = ParentDone(p)]
  <2>1. proc'[r] = AfterFork(p)[r]
    BY <1>1, <1>7, <1>10
  <2> QED BY <1>1, <1>2, <1>3, <1>8, <2>1
<1> QED BY <1>1, <1>6, <1>9, <1>10, ForkCases

(***************************************************************************)
(* A child wires its ends of the pipes.                                    *)
(***************************************************************************)
LEMMA SetupMoves ==
    ASSUME NEW P \in Process, Std(P), NEW fd \in FD
    PROVE  LET S == setup_child_process_fd_flg(P)
               pre == P.pre_in_pipe_fd
               out == P.out_pipe_fd
           IN  /\ \/ S.fds[fd] \in {P.fds[fd], Closed}
                  \/ fd = STDIN_FILENO /\ pre \in FD /\ pre > 2 /\ S.fds[fd] = P.fds[pre]
                  \/ fd = STDOUT_FILENO /\ out \in FD /\ S.fds[fd] = P.fds[out]
               /\ fd > 2 /\ fd \notin {pre, P.in_pipe_fd, out} => S.fds[fd] = P.fds[fd]
<1> DEFINE I == ConnectInput(P)
           C == Close(I, P.in_pipe_fd)
           O == ConnectOutput(C)
           S == setup_child_process_fd_flg(P)
           pre == P.pre_in_pipe_fd
           in == P.in_pipe_fd
           out == P.out_pipe_fd
<1>1. /\ pre \in Num /\ in \in Num /\ out \in Num \cup {STDOUT_FILENO}
      /\ \A g \in Num : g # -1 => g \in FD /\ g > 2
      /\ STDIN_FILENO = 0 /\ STDOUT_FILENO = 1 /\ 0 \in FD /\ 1 \in FD /\ OnlyFds(P, P)
  BY NumIs, Standard DEF Std, STDIN_FILENO, STDOUT_FILENO, OnlyFds, SameHeld, SameFlags
<1>2. /\ I \in Process /\ OnlyFds(P, I)
      /\ \A g \in FD : /\ \/ I.fds[g] \in {P.fds[g], Closed}
                          \/ g = 0 /\ pre # -1 /\ I.fds[g] = P.fds[pre]
                       /\ g > 2 /\ g # pre => I.fds[g] = P.fds[g]
  <2>1. CASE pre = -1
    <3>1. I = P
      BY <2>1 DEF ConnectInput
    <3> QED BY <1>1, <3>1
  <2>2. CASE pre # -1
    <3>1. I = MoveTo(P, pre, 0)
      BY <1>1, <2>2 DEF ConnectInput
    <3> HIDE DEF I, pre
    <3>2. /\ I \in Process /\ OnlyFds(P, I)
          /\ I.fds = [g \in FD |-> CASE g = pre -> Closed
                                     [] g # pre /\ g = 0 /\ IsOpen(P, pre) -> P.fds[pre]
                                     [] OTHER -> P.fds[g]]
      BY <1>1, <3>1, MoveToDoes
    <3>3. \A g \in FD : /\ \/ I.fds[g] \in {P.fds[g], Closed}
                           \/ g = 0 /\ pre # -1 /\ I.fds[g] = P.fds[pre]
                        /\ g > 2 /\ g # pre => I.fds[g] = P.fds[g]
      BY <1>1, <2>2, <3>2
    <3> QED BY <3>2, <3>3
  <2> QED BY <2>1, <2>2
<1> HIDE DEF I
<1>3. /\ C \in Process /\ OnlyFds(P, C)
      /\ \A g \in FD : /\ \/ C.fds[g] \in {P.fds[g], Closed}
                          \/ g = 0 /\ pre # -1 /\ C.fds[g] = P.fds[pre]
                       /\ g > 2 /\ g \notin {pre, in} => C.fds[g] = P.fds[g]
  <2>1. C \in Process /\ OnlyFds(I, C) /\ C.fds = Refers(I, in, Closed)
    BY <1>2, CloseDoes
  <2>2. \A g \in FD : C.fds[g] \in {I.fds[g], Closed} /\ (g # in => C.fds[g] = I.fds[g])
    BY <1>2, <2>1 DEF Refers, Process
  <2>3. OnlyFds(P, C)
    BY <1>2, <2>1 DEF OnlyFds, SameHeld, SameFlags
  <2> HIDE DEF C, pre, in
  <2> QED BY <1>2, <2>1, <2>2, <2>3
<1> HIDE DEF C
<1>4. /\ \A g \in FD : /\ \/ O.fds[g] \in {C.fds[g], Closed}
                          \/ g = 1 /\ out \in FD /\ out # 0 /\ O.fds[g] = C.fds[out]
                       /\ g > 2 /\ g # out => O.fds[g] = C.fds[g]
      /\ O \in Process
  <2>1. C.out_pipe_fd = out
    BY <1>3 DEF OnlyFds, SameHeld
  <2>2. CASE out \in {-1, STDOUT_FILENO}
    <3>1. O = C
      BY <2>1, <2>2 DEF ConnectOutput
    <3> QED BY <1>3, <3>1
  <2>3. CASE out \notin {-1, STDOUT_FILENO}
    <3>1. O = MoveTo(C, out, 1)
      BY <1>1, <2>1, <2>3 DEF ConnectOutput
    <3>2. out \in FD /\ out > 2
      BY <1>1, <2>3
    <3> HIDE DEF O, out
    <3>3. /\ O \in Process
          /\ O.fds = [g \in FD |-> CASE g = out -> Closed
                                     [] g # out /\ g = 1 /\ IsOpen(C, out) -> C.fds[out]
                                     [] OTHER -> C.fds[g]]
      BY <1>1, <1>3, <3>1, MoveToDoes
    <3> QED BY <1>1, <3>2, <3>3
  <2> QED BY <2>2, <2>3
<1> HIDE DEF O
<1>5. S.fds = O.fds
  <2>1. S = [O EXCEPT !.is_exec_in_child_ps = TRUE]
    BY DEF setup_child_process_fd_flg, O, C, I
  <2> HIDE DEF S
  <2> QED BY <1>4, <2>1 DEF Process
<1> HIDE DEF S, pre, in, out
<1>6. fd > 2 /\ fd \notin {pre, in, out} => S.fds[fd] = P.fds[fd]
  BY <1>3, <1>4, <1>5
<1>7. \/ S.fds[fd] \in {P.fds[fd], Closed}
      \/ fd = 0 /\ pre \in FD /\ pre > 2 /\ S.fds[fd] = P.fds[pre]
      \/ fd = 1 /\ out \in FD /\ S.fds[fd] = P.fds[out]
  <2>1. CASE O.fds[fd] \in {C.fds[fd], Closed}
    BY <1>1, <1>3, <1>5, <2>1
  <2>2. CASE fd = 1 /\ out \in FD /\ out # 0 /\ O.fds[fd] = C.fds[out]
    BY <1>3, <1>5, <2>2
  <2> QED BY <1>4, <2>1, <2>2
<1> QED BY <1>1, <1>6, <1>7 DEF S, pre, in, out

\* A step after which nothing is owed that was not before.
LEMMA OldDeals ==
    ASSUME TypeOK, Delivers, NEW p \in Proc, Opened(p), pipe' = pipe,
           \A n \in Claims(p, proc'[p]) :
               /\ n \in Claims(p, proc[p]) /\ Source(proc'[p], n) = Source(proc[p], n)
               /\ InHand(proc[p], n) => InHand(proc'[p], n)
               /\ proc[p].fd_num[n] = -1 => proc'[p].fd_num[n] = -1
               /\ p = Shell \/ proc'[p].pc # "redirect" => proc'[p].fd_num[n] # -1
    PROVE  Deals(p)
<1> DEFINE P == proc[p]
           Q == proc'[p]
<1>1. ASSUME NEW n \in Claims(p, Q)
      PROVE  \E k \in Pipe : Source(Q, n) = ReadEnd(k) /\ OldClaim(p, n, k)
  <2>1. PICK k \in Pipe : Source(P, n) = ReadEnd(k)
    BY <1>1 DEF Delivers, Filled
  <2> QED BY <1>1, <2>1 DEF OldClaim, Owed
<1>2. Receives(p)
  BY <1>1 DEF Receives
<1> QED BY <1>2 DEF Deals, Emits

\* A child takes the ends of its pipeline, and no heredoc comes through these.
LEMMA SetupDeals ==
    ASSUME TypeOK, Delivers, Sound, NEW p \in Others, ChildSetup(p)
    PROVE  Deals(p)
<1> DEFINE P == proc[p]
           Q == proc'[p]
           S == setup_child_process_fd_flg(P)
           l == Ast[P.node].left
<1>1. /\ P.pc = "child" /\ P \in Process /\ p \in Proc /\ p # Shell
      /\ Q.pc = "cmd" /\ Q.node = P.node /\ Q.fds = S.fds /\ Q.fd_num = P.fd_num
  BY Here, ChildSetupDoes DEF Others, At
<1>2. Std(P)
  BY <1>1 DEF Sound, Steady, Gone
<1>3. P.fds \in [FD -> Desc] /\ P.fd_num \in [RedirectNode -> FdOrNone]
  BY <1>1 DEF Process
<1>4. \A fd \in FD :
        /\ \/ Q.fds[fd] \in {P.fds[fd], Closed}
           \/ /\ fd = STDIN_FILENO /\ P.pre_in_pipe_fd \in FD /\ P.pre_in_pipe_fd > 2
              /\ Q.fds[fd] = P.fds[P.pre_in_pipe_fd]
           \/ /\ fd = STDOUT_FILENO /\ P.out_pipe_fd \in FD
              /\ Q.fds[fd] = P.fds[P.out_pipe_fd]
        /\ fd > 2 /\ fd \notin {P.pre_in_pipe_fd, P.in_pipe_fd, P.out_pipe_fd}
             => Q.fds[fd] = P.fds[fd]
  BY <1>1, <1>2, SetupMoves
<1> HIDE DEF S
<1>5. Claims(p, Q) = Claims(p, P) /\ (\A n : ~ InHand(P, n))
  BY <1>1 DEF Claims, Due, InHand
<1>6. ASSUME NEW n \in Claims(p, P)
      PROVE  /\ P.fd_num[n] # -1 /\ Source(Q, n) = Source(P, n)
             /\ \A k \in Pipe : Source(P, n) = ReadEnd(k) => ~ Looks(P, k)
  <2>1. n \in RedirectNode
    BY <1>6, ClaimsAreLists
  <2>2. PICK k \in Pipe : Source(P, n) = ReadEnd(k)
    BY <1>1, <1>6 DEF Delivers, Filled
  <2>3. P.fd_num[n] # -1
    BY <1>1, <1>6 DEF Delivers, Filled
  <2>4. ~ Looks(P, k)
    <3>1. Clear(p, P, p, P)
      BY <1>1 DEF Delivers
    <3> QED BY <1>1, <1>5, <1>6, <2>1, <2>2, <3>1 DEF Clear, Owed, Minds
  <2> DEFINE g == P.fd_num[n]
  <2>5. g \in FD /\ g > 2 /\ P.fds[g] = ReadEnd(k)
    BY <1>2, <2>1, <2>2, <2>3, NumIs DEF Std, Source
  <2>6. g \notin {P.pre_in_pipe_fd, P.in_pipe_fd, P.out_pipe_fd}
    BY <2>4, <2>5 DEF Looks, Held
  <2>7. Q.fds[g] = P.fds[g]
    BY <1>4, <2>5, <2>6
  <2>8. Source(Q, n) = Source(P, n)
    BY <1>1, <2>3, <2>7 DEF Source
  <2> QED BY <2>2, <2>3, <2>4, <2>8, PipeEnds
<1>7. Opened(p)
  <2> SUFFICES ASSUME NEW k \in Pipe
               PROVE  /\ \A fd \in FD : Q.fds[fd] = WriteEnd(k) =>
                           \E g \in FD : P.fds[g] = WriteEnd(k)
                      /\ Q.fds[STDIN_FILENO] = ReadEnd(k) =>
                           \/ P.fds[STDIN_FILENO] = ReadEnd(k)
                           \/ /\ Minds(p, P) /\ Looks(P, k)
                              /\ \A n \in RedirectNode : Owed(p, Q, n, k) => Q.fd_num[n] = -1
                      /\ ~ Minds(p, Q)
    BY DEF Opened
  <2>1. \A fd \in FD : Q.fds[fd] = WriteEnd(k) => \E g \in FD : P.fds[g] = WriteEnd(k)
    BY <1>4, PipeEnds
  <2>2. ASSUME Q.fds[STDIN_FILENO] = ReadEnd(k), P.fds[STDIN_FILENO] # ReadEnd(k)
        PROVE  Looks(P, k)
    BY <1>4, <2>2, PipeEnds, ShellIs DEF Looks, Held, STDIN_FILENO, STDOUT_FILENO
  <2>3. Looks(P, k) => \A n \in RedirectNode : ~ Owed(p, Q, n, k)
    BY <1>5, <1>6 DEF Owed
  <2> QED BY <1>1, <2>1, <2>2, <2>3 DEF Minds
<1>8. pipe' = pipe
  BY DEF ChildSetup
<1> QED BY <1>1, <1>5, <1>6, <1>7, <1>8, OldDeals

(***************************************************************************)
(* A command with a heredoc copies the body to a pipe of its own.          *)
(***************************************************************************)
LEMMA BodyMoves ==
    ASSUME TypeOK, NEW p \in Proc, exec_cmd_with_heredoc(p)
    PROVE  LET P == proc[p]
               Q == proc'[p]
               l == Ast[P.node].left
           IN  /\ P.pc = "cmd" /\ P.node \in Node /\ Ast[P.node].kind = "ND_CMD"
               /\ l \in RedirectNode /\ P.fd_num[l] # -1
               /\ \E fd \in FreeFds(P), k \in UnusedPipes :
                    /\ \A j \in Pipe \ {k} : P.fds[P.fd_num[l]] = ReadEnd(j) => pipe'[k] = pipe[j]
                    /\ \A j \in Pipe \ {k} : pipe'[j] # pipe[j] => P.fds[P.fd_num[l]] = ReadEnd(j)
                    /\ \/ Gone(Q)
                       \/ /\ Q.node = P.node
                          /\ Q.pc \in {"return", "redirect", "builtin", "program"}
                          /\ Q.fds = [P.fds EXCEPT ![fd] = ReadEnd(k)]
                          /\ Q.fd_num = [P.fd_num EXCEPT ![l] = fd]
                          /\ Held(Q) = Held(P) /\ Q.head_node = P.head_node
<1> DEFINE P == proc[p]
           Q == proc'[p]
           l == Ast[P.node].left
           old == P.fds[P.fd_num[l]]
           fd == NthFree(P, 1)
           k == NewPipe
           X == [P EXCEPT !.fds[fd] = ReadEnd(k), !.fd_num[l] = fd]
<1>1. P \in Process /\ P.pc = "cmd" /\ P.node \in Node /\ Ast[P.node].kind = "ND_CMD"
  BY Here DEF exec_cmd_with_heredoc, AtItsNode
<1>2. /\ HasHeredoc(P) /\ AfterExpansion(p, X)
      /\ Cardinality(FreeFds(P)) >= 2 /\ UnusedPipes # {}
      /\ pipe' = [j \in Pipe |-> CASE old = ReadEnd(j) -> 0
                                   [] j = k /\ old[1] = "r" -> pipe[old[2]]
                                   [] j = k /\ old[1] # "r" -> 0
                                   [] OTHER -> pipe[j]]
  BY DEF exec_cmd_with_heredoc
<1>3. k \in UnusedPipes /\ k \in Pipe
  BY <1>2, NewPipeUnused DEF UnusedPipes
<1>4. fd \in FreeFds(P)
  <2>1. IsFiniteSet(FreeFds(P))
    BY Standard, FS_Subset DEF FreeFds
  <2>2. Cardinality(FreeFds(P)) \in Nat /\ Cardinality(FreeFds(P)) >= 2
    BY <1>2, <2>1, FS_CardinalityType
  <2>3. ~ (Cardinality(FreeFds(P)) < 2)
    BY <2>2
  <2> QED BY <2>3, TwoFree
<1>5. l \in RedirectNode /\ P.fd_num[l] # -1 /\ fd \in FD /\ fd \in FdOrNone /\ ReadEnd(k) \in Desc
  BY <1>1, <1>2, <1>3, <1>4, NodeShape, DescTypes, Null DEF HasHeredoc, FreeFds
<1> HIDE DEF fd, k, l
<1>6. ASSUME NEW j \in Pipe \ {k}, old = ReadEnd(j) PROVE pipe'[k] = pipe[j]
  <2>1. old # ReadEnd(k) /\ old[1] = "r" /\ old[2] = j
    BY <1>6 DEF ReadEnd
  <2> QED BY <1>2, <1>3, <2>1
<1>7. ASSUME NEW j \in Pipe \ {k}, pipe'[j] # pipe[j] PROVE old = ReadEnd(j)
  BY <1>2, <1>7
<1>8. X \in Process
  <2> DEFINE S == [P EXCEPT !.fds[fd] = ReadEnd(k)]
  <2>1. S \in Process
    BY <1>1, <1>5, SetFdType
  <2>2. X = [S EXCEPT !.fd_num[l] = fd]
    BY <1>1 DEF Process
  <2> HIDE DEF S, X
  <2>3. [S EXCEPT !.fd_num[l] = fd] \in Process
    BY <1>5, <2>1, ZenonT(60) DEF Process
  <2> QED BY <2>2, <2>3
<1>9. /\ X.node = P.node /\ SameFlags(P, X) /\ SameHeld(P, X)
      /\ X.fds = [P.fds EXCEPT ![fd] = ReadEnd(k)] /\ X.fd_num = [P.fd_num EXCEPT ![l] = fd]
  BY <1>1 DEF Process, SameHeld, SameFlags
<1> HIDE DEF X
<1>10. \/ Gone(Q)
       \/ Q.node = X.node /\ Expanded(X, Q) /\ SameFiles(X, Q) /\ SameFlags(X, Q)
  BY <1>1, <1>2, <1>8, <1>9, AfterExpansionDoes
<1>11. ASSUME Q.node = X.node /\ Expanded(X, Q) /\ SameFiles(X, Q) /\ SameFlags(X, Q)
       PROVE  /\ Q.node = P.node /\ Q.pc \in {"return", "redirect", "builtin", "program"}
              /\ Q.fds = [P.fds EXCEPT ![fd] = ReadEnd(k)]
              /\ Q.fd_num = [P.fd_num EXCEPT ![l] = fd]
              /\ Held(Q) = Held(P) /\ Q.head_node = P.head_node
  <2>1. Q.pc \in {"return", "redirect", "builtin", "program"}
    BY <1>11 DEF Expanded
  <2> QED BY <1>9, <1>11, <2>1 DEF SameFiles, SameHeld, SameFlags, Held
<1> QED BY <1>1, <1>3, <1>4, <1>5, <1>6, <1>7, <1>10, <1>11 DEF l

\* exec_cmd_with_heredoc moves the body to a pipe that nobody used.
LEMMA BodyDeals ==
    ASSUME TypeOK, Delivers, Sound, NEW p \in Proc, Plainly(proc[p]), exec_cmd_with_heredoc(p),
           Emptied(proc'[p])
    PROVE  Deals(p)
<1> DEFINE P == proc[p]
           Q == proc'[p]
           l == Ast[P.node].left
           Copied(fd, k) == /\ Q.node = P.node
                            /\ Q.pc \in {"return", "redirect", "builtin", "program"}
                            /\ Q.fds = [P.fds EXCEPT ![fd] = ReadEnd(k)]
                            /\ Q.fd_num = [P.fd_num EXCEPT ![l] = fd]
                            /\ Held(Q) = Held(P) /\ Q.head_node = P.head_node
<1>1. /\ P \in Process /\ P.pc = "cmd" /\ P.node \in Node /\ Ast[P.node].kind = "ND_CMD"
      /\ l \in RedirectNode /\ P.fd_num[l] # -1
  BY Here, BodyMoves
<1>2. PICK fd \in FreeFds(P), k \in UnusedPipes :
        /\ \A j \in Pipe \ {k} : P.fds[P.fd_num[l]] = ReadEnd(j) => pipe'[k] = pipe[j]
        /\ \A j \in Pipe \ {k} : pipe'[j] # pipe[j] => P.fds[P.fd_num[l]] = ReadEnd(j)
        /\ Gone(Q) \/ Copied(fd, k)
  BY BodyMoves
<1> HIDE DEF Copied
<1>3. l \in Claims(p, P) /\ InHand(P, l) /\ \A n : InHand(P, n) => n = l
  <2>1. KeptHeredoc(l)
    BY <1>1 DEF Plainly
  <2> QED BY <1>1, <2>1 DEF Claims, Unread, Due, InHand, ListOf
<1>4. PICK j \in Pipe : Source(P, l) = ReadEnd(j) /\ pipe[j] = BodyOf(l)
  BY <1>3 DEF Delivers, Filled
<1>5. Owed(p, P, l, j) /\ P.fds[P.fd_num[l]] = ReadEnd(j)
  BY <1>1, <1>3, <1>4 DEF Owed, Source
<1>6. j # k /\ k \in Pipe
  BY <1>1, <1>5, OwedIsUsed DEF UnusedPipes
<1>7. pipe'[k] = BodyOf(l) /\ \A i \in Pipe : pipe'[i] # pipe[i] => i = k \/ i = j
  BY <1>2, <1>4, <1>5, <1>6, PipeEnds
<1>8. CASE Gone(Q)
  <2>1. Claims(p, Q) = {}
    BY <1>8, GoneClaims
  <2>2. Receives(p)
    BY <2>1 DEF Receives
  <2>3. Opened(p)
    <3>1. \A g \in FD : Q.fds[g] = Closed
      BY <1>8 DEF Emptied
    <3> QED BY <3>1, PipeEnds, ShellIs DEF Opened, Looks
  <2>4. Emits(p)
    BY <1>1, <1>5, <1>7, <2>1 DEF Emits, Owed
  <2> QED BY <2>2, <2>3, <2>4 DEF Deals
<1>9. CASE Copied(fd, k)
  <2>1. /\ P.fds \in [FD -> Desc] /\ P.fd_num \in [RedirectNode -> FdOrNone]
        /\ fd \in FD /\ P.fds[fd] = Closed
    BY <1>1 DEF Process, FreeFds
  <2>2. fd > 2 /\ fd # -1 /\ fd # STDIN_FILENO
    <3>1. Std(P)
      BY <1>1 DEF Sound, Steady, Gone
    <3> QED BY <3>1, FreeIsNum, NumIs DEF STDIN_FILENO
  <2>3. /\ Q.node = P.node /\ Q.pc \in {"return", "redirect", "builtin", "program"}
        /\ Q.fds[fd] = ReadEnd(k) /\ Q.fd_num[l] = fd
        /\ \A g \in FD \ {fd} : Q.fds[g] = P.fds[g]
        /\ \A n \in RedirectNode \ {l} : Q.fd_num[n] = P.fd_num[n]
        /\ Held(Q) = Held(P) /\ Q.head_node = P.head_node
    BY <1>1, <1>9, <2>1 DEF Copied
  <2>4. \A g \in FD : P.fds[g] # ReadEnd(k) /\ P.fds[g] # WriteEnd(k)
    BY UnusedHasNoEnd
  <2>5. Opened(p)
    BY <2>2, <2>3, NewOpened DEF Minds
  <2>6. Source(Q, l) = ReadEnd(k) /\ Q.fd_num[l] # -1
    BY <2>2, <2>3 DEF Source
  <2>7. Emits(p)
    BY <1>1, <1>5, <1>6, <1>7, <2>6, PipeEnds DEF Emits, Owed
  <2>8. l \in Nat /\ l < P.node /\ P.node \in Nat
    BY <1>1, Order
  <2>9. ASSUME NEW n \in Claims(p, Q)
        PROVE  /\ n \in RedirectNode /\ KeptHeredoc(n)
               /\ n = l => p # Shell \/ InHand(Q, l)
               /\ n # l => p = Shell /\ n \in Claims(p, P)
    <3>1. n \in RedirectNode /\ KeptHeredoc(n) /\ n \in Nat
      BY <2>9, ClaimsAreLists, Nodes DEF RedirectNode
    <3>2. CASE p # Shell
      BY <2>3, <2>9, <3>1, <3>2 DEF Claims, Due
    <3>3. CASE p = Shell
      <4>1. InHand(Q, n) => n = l
        BY <1>1, <2>3 DEF InHand, ListOf
      <4>2. InHand(Q, n) \/ (Root[n] = P.head_node /\ P.node + 1 <= n)
        BY <2>3, <2>9, <3>3 DEF Claims, Unread, From, Walks
      <4>3. P.node + 1 <= n => n # l
        BY <2>8, <3>1
      <4>4. Root[n] = P.head_node /\ P.node + 1 <= n => n \in Claims(p, P)
        BY <1>1, <3>1, <3>3 DEF Claims, Unread, From, Walks
      <4> QED BY <3>1, <3>3, <4>1, <4>2, <4>3, <4>4
    <3> QED BY <3>2, <3>3
  <2>10. ASSUME NEW n \in Claims(p, Q), n # l
         PROVE  /\ \E i \in Pipe : Source(Q, n) = ReadEnd(i) /\ OldClaim(p, n, i) /\ i # k
                /\ Q.fd_num[n] # -1
    <3>1. n \in Claims(p, P) /\ n \in RedirectNode /\ p = Shell
      BY <2>9, <2>10
    <3>2. PICK i \in Pipe : Source(P, n) = ReadEnd(i)
      BY <3>1 DEF Delivers, Filled
    <3>3. P.fd_num[n] # -1 /\ Q.fd_num[n] = P.fd_num[n]
      BY <2>3, <2>10, <3>1 DEF Delivers, Filled
    <3>4. Source(Q, n) = Source(P, n)
      BY <1>1, <2>1, <2>3, <3>1, <3>2, <3>3, SourceStays
    <3>5. i # k
      BY <3>1, <3>2, OwedIsUsed DEF Owed
    <3>6. ~ InHand(P, n)
      BY <1>3, <2>10
    <3> QED BY <3>1, <3>2, <3>3, <3>4, <3>5, <3>6 DEF OldClaim, Owed
  <2>11. l \in Claims(p, Q) => NewClaim(p, l, k)
    <3> SUFFICES ASSUME l \in Claims(p, Q) PROVE NewClaim(p, l, k)
      OBVIOUS
    <3>1. \A g \in FD : Q.fds[g] # WriteEnd(k)
      BY <2>3, <2>4, PipeEnds
    <3>2. Q.fds[STDIN_FILENO] # ReadEnd(k)
      BY <2>2, <2>3, <2>4, ShellIs
    <3>3. Minds(p, Q) => InHand(Q, l)
      BY <2>3, <2>9 DEF Minds
    <3>4. \A m \in RedirectNode : Owed(p, Q, m, k) => m = l
      BY <2>10, PipeEnds DEF Owed
    <3> QED BY <1>7, <3>1, <3>2, <3>3, <3>4 DEF NewClaim
  <2>12. Receives(p)
    BY <1>6, <2>6, <2>10, <2>11 DEF Receives
  <2> QED BY <2>5, <2>7, <2>12 DEF Deals
<1> QED BY <1>2, <1>8, <1>9

\* A child's command without a heredoc goes on as it is.
LEMMA ChildRunsWithin ==
    ASSUME TypeOK, NEW p \in Others, exec_cmd(p), Emptied(proc'[p])
    PROVE  Within(p, proc[p], proc'[p])
<1> DEFINE P == proc[p]
           Q == proc'[p]
<1>1. P \in Process /\ p \in Proc /\ p # Shell
  BY Here DEF Others
<1>2. CASE Gone(Q)
  BY <1>2, GoneWithin
<1>3. CASE ~ Gone(Q)
  <2>1. /\ P.pc = "cmd" /\ P.node \in Node /\ Ast[P.node].kind = "ND_CMD" /\ ~ HasHeredoc(P)
    BY <1>1, exec_cmdDoes DEF exec_cmd
  <2>2. Q.node = P.node /\ Expanded(P, Q) /\ SameFlags(P, Q) /\ SameFiles(P, Q)
    BY <1>1, <1>3, <2>1, AfterExpansionDoes DEF exec_cmd
  <2>3. Q.pc \in {"return", "redirect", "builtin", "program"}
    BY <2>2 DEF Expanded
  <2>4. Q.fds = P.fds /\ Q.fd_num = P.fd_num /\ Held(Q) = Held(P)
    BY <2>2 DEF SameFiles, SameHeld, Held
  <2>5. ASSUME NEW n \in Claims(p, Q)
        PROVE  n \in Claims(p, P) /\ (InHand(P, n) => InHand(Q, n))
    <3>1. n \in Due(Q) /\ Q.pc = "redirect" /\ n = Ast[P.node].left
      BY <1>1, <2>2, <2>3, <2>5 DEF Claims, Due
    <3> QED BY <1>1, <2>1, <2>2, <3>1 DEF Claims, Due, InHand, ListOf
  <2> QED BY <1>1, <2>1, <2>3, <2>4, <2>5 DEF Within, Source, Minds, Looks
<1> QED BY <1>2, <1>3

(***************************************************************************)
(* A builtin is over: only the shell goes on, with its own files again.    *)
(***************************************************************************)
LEMMA BuiltinDeals ==
    ASSUME TypeOK, Delivers, Sound, NEW p \in Proc, p # Shell => Kid(proc[p]),
           run_builtin(p), Emptied(proc'[p])
    PROVE  Deals(p)
<1> DEFINE P == proc[p]
           Q == proc'[p]
           R == restore_std_fds(P)
<1>1. /\ P \in Process /\ P.pc = "builtin" /\ P.node \in Node
      /\ \/ Gone(Q)
         \/ /\ ~ P.is_exec_in_child_ps /\ At(Q, "return", P.node) /\ SameFlags(P, Q)
            /\ SameFiles(P, Q) \/ SameFiles(R, Q)
  BY Here, run_builtinDoes
<1>2. pipe' = pipe
  BY DEF run_builtin
<1>3. CASE Gone(Q)
  BY <1>2, <1>3, GoneWithin, WithinDeals
<1>4. CASE ~ Gone(Q)
  <2>1. p = Shell
    BY <1>1, <1>4 DEF Kid
  <2>2. /\ Q.pc = "return" /\ Q.node = P.node /\ Q.head_node = P.head_node
    BY <1>1, <1>4 DEF At, SameFlags
  <2>3. \A n : ~ InHand(P, n) /\ ~ InHand(Q, n)
    BY <1>1, <2>2 DEF InHand
  <2>4. Claims(p, Q) \subseteq Claims(p, P)
    BY <1>1, <2>1, <2>2, <2>3 DEF Claims, Unread, Walks, From
  <2>5. CASE SameFiles(P, Q)
    <3>1. Q.fds = P.fds /\ Q.fd_num = P.fd_num /\ Held(Q) = Held(P)
      BY <2>5 DEF SameFiles, SameHeld, Held
    <3>2. Within(p, P, Q)
      BY <2>1, <2>3, <2>4, <3>1 DEF Within, Source, Minds, Looks
    <3> QED BY <1>2, <3>2, WithinDeals
  <2>6. CASE SameFiles(R, Q)
    <3>1. Std(P)
      BY <1>1 DEF Sound, Steady, Gone
    <3>2. P.stored_stdout # STDIN_FILENO
      BY <3>1, NumIs DEF Std, STDIN_FILENO
    <3>3. /\ OnlyFds(P, R)
          /\ R.fds = [fd \in FD |->
               CASE fd = STDIN_FILENO /\ IsOpen(P, P.stored_stdin) -> P.fds[P.stored_stdin]
                 [] fd = STDOUT_FILENO /\ IsOpen(P, P.stored_stdout) -> P.fds[P.stored_stdout]
                 [] OTHER -> P.fds[fd]]
      BY <1>1, <3>2, RestoreDoes
    <3> HIDE DEF R
    <3>4. Q.fd_num = P.fd_num /\ Held(Q) = Held(P) /\ Q.fds = R.fds
      BY <2>6, <3>3 DEF SameFiles, SameHeld, OnlyFds, Held
    <3>5. STDIN_FILENO = 0 /\ STDOUT_FILENO = 1 /\ 0 \in FD /\ 1 \in FD
      BY Standard DEF STDIN_FILENO, STDOUT_FILENO
    <3>6. \A fd \in FD :
            /\ fd > 2 => Q.fds[fd] = P.fds[fd]
            /\ \/ Q.fds[fd] = P.fds[fd]
               \/ fd = 0 /\ P.stored_stdin \in FD /\ Q.fds[fd] = P.fds[P.stored_stdin]
               \/ fd = 1 /\ P.stored_stdout \in FD /\ Q.fds[fd] = P.fds[P.stored_stdout]
      BY <3>3, <3>4, <3>5 DEF IsOpen
    <3>7. ASSUME NEW n \in Claims(p, Q)
          PROVE  /\ n \in Claims(p, P) /\ n \in RedirectNode
                 /\ Q.fd_num[n] # -1 /\ Source(Q, n) = Source(P, n)
      <4>1. n \in Claims(p, P) /\ n \in RedirectNode
        BY <2>4, <3>7, ClaimsAreLists
      <4>2. P.fd_num[n] # -1
        BY <2>1, <4>1 DEF Delivers, Filled
      <4>3. P.fd_num[n] \in FD /\ P.fd_num[n] > 2
        BY <3>1, <4>1, <4>2, NumIs DEF Std
      <4> QED BY <3>4, <3>6, <4>1, <4>2, <4>3 DEF Source
    <3>8. Opened(p)
      <4> SUFFICES ASSUME NEW k \in Pipe
                   PROVE  /\ \A fd \in FD : Q.fds[fd] = WriteEnd(k) =>
                               \E g \in FD : P.fds[g] = WriteEnd(k)
                          /\ Q.fds[STDIN_FILENO] = ReadEnd(k) =>
                               \/ P.fds[STDIN_FILENO] = ReadEnd(k)
                               \/ /\ Minds(p, P) /\ Looks(P, k)
                                  /\ \A n \in RedirectNode : Owed(p, Q, n, k) => Q.fd_num[n] = -1
                          /\ Looks(Q, k) => Minds(p, P) /\ Looks(P, k)
        BY DEF Opened
      <4>1. \A fd \in FD : Q.fds[fd] = WriteEnd(k) => \E g \in FD : P.fds[g] = WriteEnd(k)
        BY <3>6
      <4>2. Looks(Q, k) => Minds(p, P) /\ Looks(P, k)
        BY <2>1, <3>4, <3>6 DEF Looks, Minds
      <4>3. ASSUME Q.fds[STDIN_FILENO] = ReadEnd(k), P.fds[STDIN_FILENO] # ReadEnd(k)
            PROVE  Looks(P, k)
        <5>1. P.stored_stdin \in FD /\ P.fds[P.stored_stdin] = ReadEnd(k)
          BY <3>5, <3>6, <4>3
        <5>2. P.stored_stdin > 2
          BY <3>1, <5>1, NumIs, Standard DEF Std
        <5> QED BY <5>1, <5>2 DEF Looks, Held
      <4>4. ASSUME Looks(P, k), NEW n \in RedirectNode, Owed(p, Q, n, k) PROVE FALSE
        <5>1. Owed(p, P, n, k)
          BY <3>7, <4>4 DEF Owed
        <5>2. Clear(p, P, p, P)
          BY DEF Delivers
        <5> QED BY <2>1, <2>3, <4>4, <5>1, <5>2 DEF Clear, Minds
      <4> QED BY <2>1, <4>1, <4>2, <4>3, <4>4 DEF Minds
    <3>9. \A n \in Claims(p, Q) : P.fd_num[n] = -1 => Q.fd_num[n] = -1
      BY <3>4
    <3> QED BY <1>2, <2>3, <3>7, <3>8, <3>9, OldDeals
  <2> QED BY <1>1, <1>4, <2>5, <2>6
<1> QED BY <1>3, <1>4

(***************************************************************************)
(* Redirects: the heredoc of a command becomes its standard input, unless  *)
(* a file that is named after it does.                                     *)
(***************************************************************************)
\* In a list whose last input is a heredoc no file is read after a heredoc: the
\* first heredoc to be applied takes the one descriptor that fd_num has for the
\* list, so that in cat <<a <f <<b it is the file that comes last.
FilesFirst ==
    \A n \in RedirectNode : KeptHeredoc(n) =>
        \A i, j \in DOMAIN Ast[n].redirects :
            Ast[n].redirects[i].op = "<<" /\ Ast[n].redirects[j].op = "<" => j < i

\* How far a child is with the redirects of its command.
DoneOps(P) == {j \in DOMAIN Ast[ListOf(P)].redirects : j < P.i}
Progress(P) ==
    LET l == ListOf(P)
    IN  P.pc = "redirect" =>
          /\ P.i \in DOMAIN Ast[l].redirects
          /\ KeptHeredoc(l) => (P.fd_num[l] = -1 <=> DoneOps(P) \cap HeredocOps(l) # {})
          /\ ~ KeptHeredoc(l) /\ InputOps(l) # {} /\ LastOf(InputOps(l)) \in DoneOps(P)
               => P.fds[STDIN_FILENO] = File

\* What one operator does to the descriptors,
LEMMA OneApplied ==
    ASSUME NEW P \in Process, Std(P), ListOf(P) \in RedirectNode
    PROVE  LET A == Applied(P)
               l == ListOf(P)
               op == Operator(P).op
               fd == P.fd_num[l]
           IN  /\ A \in Process /\ SameHeld(P, A)
               /\ A.fd_num = [P.fd_num EXCEPT ![l] = IF op = "<<" THEN -1 ELSE @]
               /\ \A g \in FD : g > 1 =>
                    A.fds[g] = IF op = "<<" /\ g = fd THEN Closed ELSE P.fds[g]
               /\ A.fds[1] \in {P.fds[1], File}
               /\ A.fds[0] = IF op = "<<" /\ fd # -1 /\ P.fds[fd] # Closed THEN P.fds[fd]
                             ELSE IF op = "<" /\ Opens(P) THEN File ELSE P.fds[0]
<1> DEFINE A == Applied(P)
           l == ListOf(P)
           r == Operator(P)
           fd == P.fd_num[l]
           M == MoveTo(P, fd, STDIN_FILENO)
           std == IF r.op = "<" THEN STDIN_FILENO ELSE STDOUT_FILENO
<1>1. /\ A \in Process /\ SameHeld(P, A)
      /\ r.op # "<<" => /\ A.fd_num = P.fd_num
                        /\ A.fds = IF Opens(P) THEN Refers(P, std, File) ELSE P.fds
      /\ r.op = "<<" /\ fd > 2 => A.fds = M.fds /\ A.fd_num = [P.fd_num EXCEPT ![l] = -1]
      /\ r.op = "<<" /\ ~ (fd > 2) => A = P
  BY AppliedDoes
<1>2. /\ P.fds \in [FD -> Desc] /\ P.fd_num \in [RedirectNode -> FdOrNone]
      /\ 0 \in FD /\ 1 \in FD /\ STDIN_FILENO = 0 /\ STDOUT_FILENO = 1
  BY Standard DEF Process, STDIN_FILENO, STDOUT_FILENO
<1>3. fd \in Num /\ (fd # -1 => fd \in FD /\ fd > 2) /\ ~ (-1 > 2)
  BY NumIs DEF Std
<1>4. M.fds = [g \in FD |-> CASE g = fd -> Closed
                              [] g # fd /\ g = STDIN_FILENO /\ IsOpen(P, fd) -> P.fds[fd]
                              [] OTHER -> P.fds[g]]
  BY <1>2, MoveToDoes
<1> HIDE DEF A, l, r, M
<1>5. CASE r.op # "<<"
  <2>1. A.fd_num = [P.fd_num EXCEPT ![l] = @]
    BY <1>1, <1>2, <1>5
  <2>2. \A g \in FD : A.fds[g] = IF g = std /\ Opens(P) THEN File ELSE P.fds[g]
    BY <1>1, <1>2, <1>5 DEF Refers
  <2> HIDE DEF fd
  <2>3. \A g \in FD : g > 1 => A.fds[g] = P.fds[g]
    BY <1>2, <2>2
  <2>4. A.fds[1] \in {P.fds[1], File}
    BY <1>2, <2>2
  <2>5. A.fds[0] = IF r.op = "<" /\ Opens(P) THEN File ELSE P.fds[0]
    BY <1>2, <2>2
  <2> QED BY <1>1, <1>5, <2>1, <2>3, <2>4, <2>5 DEF A, l, r, fd
<1>6. CASE r.op = "<<" /\ fd # -1
  <2>1. A.fds = M.fds /\ A.fd_num = [P.fd_num EXCEPT ![l] = -1]
    BY <1>1, <1>3, <1>6
  <2> HIDE DEF fd
  <2>2. \A g \in FD : g > 1 => A.fds[g] = IF g = fd THEN Closed ELSE P.fds[g]
    BY <1>2, <1>4, <2>1
  <2>3. A.fds[1] = P.fds[1]
    BY <1>2, <1>3, <1>4, <1>6, <2>1
  <2>4. A.fds[0] = IF P.fds[fd] # Closed THEN P.fds[fd] ELSE P.fds[0]
    BY <1>2, <1>3, <1>4, <1>6, <2>1 DEF IsOpen
  <2> QED BY <1>1, <1>6, <2>1, <2>2, <2>3, <2>4 DEF A, l, r, fd
<1>7. CASE r.op = "<<" /\ fd = -1
  <2>1. A = P
    BY <1>1, <1>3, <1>7
  <2>2. A.fd_num = [P.fd_num EXCEPT ![l] = -1]
    BY <1>2, <1>7, <2>1
  <2>3. \A g \in FD : g # fd
    BY <1>7, Standard
  <2> HIDE DEF fd
  <2> QED BY <1>1, <1>7, <2>1, <2>2, <2>3 DEF A, l, r, fd
<1> QED BY <1>5, <1>6, <1>7

\* and what there is after it, whether or not the standard files come back.
LEMMA RedirectMoves ==
    ASSUME TypeOK, NEW p \in Proc, apply_redirects(p), Listed(proc[p]), Std(proc[p]),
           ~ Gone(proc'[p])
    PROVE  LET P == proc[p]
               Q == proc'[p]
               l == ListOf(P)
               op == Operator(P).op
               fd == P.fd_num[l]
           IN  /\ P.pc = "redirect" /\ P.node \in Node /\ l \in RedirectNode
               /\ Q.node = P.node /\ Q.head_node = P.head_node
               /\ Q.pc \in {"redirect", "return", "builtin", "program"}
               /\ Held(Q) = Held(P)
               /\ Q.fd_num = [P.fd_num EXCEPT ![l] = IF op = "<<" THEN -1 ELSE @]
               /\ \A g \in FD : g > 1 =>
                    Q.fds[g] = IF op = "<<" /\ g = fd THEN Closed ELSE P.fds[g]
               /\ Q.fds[1] = File \/ \E g \in FD : Q.fds[1] = P.fds[g]
               /\ \/ Q.fds[0] = IF op = "<<" /\ fd # -1 /\ P.fds[fd] # Closed THEN P.fds[fd]
                                ELSE IF op = "<" /\ Opens(P) THEN File ELSE P.fds[0]
                  \/ /\ Ast[P.node].kind = "ND_REDIRECTS" /\ Q.pc = "return"
                     /\ P.stored_stdin \in FD /\ P.stored_stdin > 2
                     /\ Q.fds[0] = P.fds[P.stored_stdin]
<1> DEFINE P == proc[p]
           Q == proc'[p]
           A == Applied(P)
           R == restore_std_fds(A)
           l == ListOf(P)
           op == Operator(P).op
           fd == P.fd_num[l]
<1>1. /\ P \in Process /\ P.pc = "redirect" /\ P.node \in Node
      /\ Ast[P.node].kind \in {"ND_CMD", "ND_REDIRECTS"}
      /\ Redirected(P, A, Q) /\ SameFlags(P, Q)
  BY Here, apply_redirectsDoes
<1>2. l \in RedirectNode
  BY <1>1, ListIs DEF Listed
<1>3. /\ A \in Process /\ SameHeld(P, A)
      /\ A.fd_num = [P.fd_num EXCEPT ![l] = IF op = "<<" THEN -1 ELSE @]
      /\ \A g \in FD : g > 1 => A.fds[g] = IF op = "<<" /\ g = fd THEN Closed ELSE P.fds[g]
      /\ A.fds[1] \in {P.fds[1], File}
      /\ A.fds[0] = IF op = "<<" /\ fd # -1 /\ P.fds[fd] # Closed THEN P.fds[fd]
                    ELSE IF op = "<" /\ Opens(P) THEN File ELSE P.fds[0]
  BY <1>1, <1>2, OneApplied
<1>4. 0 \in FD /\ 1 \in FD /\ STDIN_FILENO = 0 /\ STDOUT_FILENO = 1
  BY Standard DEF STDIN_FILENO, STDOUT_FILENO
<1>5. /\ P.stored_stdin \in Num /\ P.stored_stdout \in Num /\ -1 \notin FD
      /\ \A g \in Num : g # -1 => g \in FD /\ g > 2
  BY NumIs, Standard DEF Std
<1> HIDE DEF A, l, op, fd
<1>6. /\ Q.node = P.node /\ Q.head_node = P.head_node
      /\ Q.pc \in {"redirect", "return", "builtin", "program"}
      /\ \/ SameFiles(A, Q)
         \/ Ast[P.node].kind = "ND_REDIRECTS" /\ Q.pc = "return" /\ SameFiles(R, Q)
  BY <1>1 DEF Redirected, At, SameFlags
<1>7. CASE SameFiles(A, Q)
  <2>1. Q.fds = A.fds /\ Q.fd_num = A.fd_num /\ Held(Q) = Held(P)
    BY <1>3, <1>7 DEF SameFiles, SameHeld, Held
  <2>2. Q.fds[1] = File \/ \E g \in FD : Q.fds[1] = P.fds[g]
    BY <1>3, <1>4, <2>1
  <2> QED BY <1>1, <1>2, <1>3, <1>6, <2>1, <2>2 DEF A, l, op, fd
<1>8. CASE Ast[P.node].kind = "ND_REDIRECTS" /\ Q.pc = "return" /\ SameFiles(R, Q)
  <2>1. A.stored_stdin = P.stored_stdin /\ A.stored_stdout = P.stored_stdout
    BY <1>3 DEF SameHeld
  <2>2. A.stored_stdout # STDIN_FILENO
    BY <1>4, <1>5, <2>1, NumIs
  <2>3. /\ OnlyFds(A, R)
        /\ R.fds = [g \in FD |->
             CASE g = STDIN_FILENO /\ IsOpen(A, A.stored_stdin) -> A.fds[A.stored_stdin]
               [] g = STDOUT_FILENO /\ IsOpen(A, A.stored_stdout) -> A.fds[A.stored_stdout]
               [] OTHER -> A.fds[g]]
    BY <1>3, <2>2, RestoreDoes
  <2> HIDE DEF R
  <2>4. Q.fd_num = A.fd_num /\ Held(Q) = Held(P) /\ Q.fds = R.fds
    BY <1>3, <1>8, <2>3 DEF SameFiles, SameHeld, OnlyFds, Held
  <2>5. \A g \in FD : g > 1 => Q.fds[g] = A.fds[g]
    BY <1>4, <2>3, <2>4
  <2>6. ASSUME NEW s \in Num, IsOpen(A, s) PROVE s \in FD /\ s > 2 /\ A.fds[s] = P.fds[s]
    <3>1. s \in FD /\ A.fds[s] # Closed
      BY <2>6 DEF IsOpen
    <3>2. s > 2 /\ s \in Nat
      BY <1>5, <3>1, Standard
    <3> QED BY <1>3, <3>1, <3>2
  <2>7. Q.fds[0] = A.fds[0] \/ (/\ P.stored_stdin \in FD /\ P.stored_stdin > 2
                                /\ Q.fds[0] = P.fds[P.stored_stdin])
    BY <1>4, <1>5, <2>1, <2>3, <2>4, <2>6
  <2>8. Q.fds[1] = File \/ \E g \in FD : Q.fds[1] = P.fds[g]
    <3>1. CASE IsOpen(A, A.stored_stdout)
      BY <1>4, <1>5, <2>1, <2>3, <2>4, <2>6, <3>1
    <3>2. CASE ~ IsOpen(A, A.stored_stdout)
      BY <1>3, <1>4, <2>3, <2>4, <3>2
    <3> QED BY <3>1, <3>2
  <2> QED BY <1>1, <1>2, <1>3, <1>6, <1>8, <2>4, <2>5, <2>7, <2>8 DEF A, l, op, fd
<1> QED BY <1>6, <1>7, <1>8

\* A redirect moves what its command is owed to the standard input, and replaces
\* there only what is not owed any more.
LEMMA RedirectDeals ==
    ASSUME FilesFirst, TypeOK, Delivers, Sound, NEW p \in Proc, Plainly(proc[p]),
           p # Shell => Kid(proc[p]) /\ Progress(proc[p]),
           apply_redirects(p), Emptied(proc'[p])
    PROVE  Deals(p)
<1> DEFINE P == proc[p]
           Q == proc'[p]
           l == ListOf(P)
           op == Operator(P).op
           fd == P.fd_num[l]
<1>1. pipe' = pipe
  BY DEF apply_redirects
<1>2. CASE Gone(Q)
  BY <1>1, <1>2, GoneWithin, WithinDeals
<1>3. CASE ~ Gone(Q)
  <2>1. P.pc = "redirect"
    BY DEF apply_redirects
  <2>2. Std(P) /\ Listed(P)
    BY <2>1 DEF Sound, Steady, Gone
  <2>3. /\ P.node \in Node /\ l \in RedirectNode
        /\ Q.node = P.node /\ Q.head_node = P.head_node
        /\ Q.pc \in {"redirect", "return", "builtin", "program"}
        /\ Held(Q) = Held(P)
        /\ Q.fd_num = [P.fd_num EXCEPT ![l] = IF op = "<<" THEN -1 ELSE @]
        /\ \A g \in FD : g > 1 =>
             Q.fds[g] = IF op = "<<" /\ g = fd THEN Closed ELSE P.fds[g]
        /\ Q.fds[1] = File \/ \E g \in FD : Q.fds[1] = P.fds[g]
        /\ \/ Q.fds[0] = IF op = "<<" /\ fd # -1 /\ P.fds[fd] # Closed THEN P.fds[fd]
                         ELSE IF op = "<" /\ Opens(P) THEN File ELSE P.fds[0]
           \/ /\ Ast[P.node].kind = "ND_REDIRECTS" /\ Q.pc = "return"
              /\ P.stored_stdin \in FD /\ P.stored_stdin > 2
              /\ Q.fds[0] = P.fds[P.stored_stdin]
    BY <1>3, <2>2, RedirectMoves
  <2>4. P \in Process /\ 0 \in FD /\ 1 \in FD /\ STDIN_FILENO = 0 /\ FD \subseteq Nat
        /\ -1 \notin FD
    BY Here, Standard DEF STDIN_FILENO
  <2>5. P.fd_num \in [RedirectNode -> FdOrNone]
    BY <2>4 DEF Process
  <2>6. Ast[P.node].kind \in {"ND_CMD", "ND_REDIRECTS"} /\ l \in Nat /\ P.node \in Nat
        /\ l < P.node + 1
    <3>1. Ast[P.node].kind \in {"ND_CMD", "ND_REDIRECTS"}
      BY <2>1, <2>2 DEF Listed
    <3>2. l \in Nat /\ P.node \in Nat
      BY <2>3, Nodes DEF RedirectNode
    <3>3. l = P.node \/ l = Ast[P.node].left
      BY DEF ListOf
    <3> QED BY <2>3, <3>1, <3>2, <3>3, Order
  <2>7. /\ Q.fd_num[l] = IF op = "<<" THEN -1 ELSE fd
        /\ \A n \in RedirectNode \ {l} : Q.fd_num[n] = P.fd_num[n]
    BY <2>3, <2>5
  <2>8. \A n \in RedirectNode : P.fd_num[n] # -1 => P.fd_num[n] \in FD /\ P.fd_num[n] > 2
    BY <2>2, NumIs DEF Std
  <2>9. fd # -1 => l \in Claims(p, P)
    <3>1. fd # -1 => KeptHeredoc(l)
      BY <2>3 DEF Plainly
    <3>2. p # Shell => Ast[P.node].kind = "ND_CMD"
      BY <2>1 DEF Kid
    <3> QED BY <2>1, <2>3, <3>1, <3>2 DEF Claims, Unread, Due, InHand, ListOf
  <2>10. Clear(p, P, p, P) /\ Filled(p, P, pipe)
    BY DEF Delivers
  <2>11. \A n : (InHand(P, n) <=> n = l) /\ (InHand(Q, n) => Q.pc = "redirect" /\ n = l)
         /\ (Q.pc = "redirect" => InHand(Q, l))
    BY <2>1, <2>3 DEF InHand, ListOf
  <2> HIDE DEF l, op, fd
  <2>12. ASSUME NEW n \in Claims(p, Q)
         PROVE  /\ n \in Claims(p, P) /\ n \in RedirectNode
                /\ (Q.pc = "redirect" /\ n = l) \/ (p = Shell /\ n # l)
                /\ p = Shell => Q.fd_num[n] # -1
    <3>1. n \in RedirectNode /\ KeptHeredoc(n) /\ n \in Nat
      BY <2>12, ClaimsAreLists, Nodes DEF RedirectNode
    <3>2. CASE p # Shell
      <4>1. Q.pc = "redirect" /\ n = Ast[P.node].left /\ Ast[P.node].kind = "ND_CMD"
        BY <2>1, <2>3, <2>12, <3>2 DEF Claims, Due, Kid
      <4> QED BY <2>1, <3>1, <3>2, <4>1 DEF Claims, Due, l, ListOf
    <3>3. CASE p = Shell
      <4>1. CASE InHand(Q, n) /\ Q.fd_num[n] # -1
        <5>1. fd # -1 /\ n = l /\ Q.pc = "redirect"
          BY <2>7, <2>11, <4>1
        <5> QED BY <2>9, <3>1, <4>1, <5>1
      <4>2. CASE Root[n] = P.head_node /\ P.node + 1 <= n
        <5>1. n # l
          BY <2>6, <3>1, <4>2
        <5>2. n \in Claims(p, P)
          BY <2>1, <3>1, <3>3, <4>2 DEF Claims, Unread, Walks, From
        <5>3. P.fd_num[n] # -1
          BY <2>10, <3>3, <5>2 DEF Filled
        <5> QED BY <2>7, <3>1, <3>3, <5>1, <5>2, <5>3
      <4>3. \/ InHand(Q, n) /\ Q.fd_num[n] # -1
            \/ Root[n] = P.head_node /\ P.node + 1 <= n
        BY <2>3, <2>12, <3>3 DEF Claims, Unread, Walks, From
      <4> QED BY <4>1, <4>2, <4>3
    <3> QED BY <3>2, <3>3
  <2>13. ASSUME NEW n \in Claims(p, Q) PROVE Source(Q, n) = Source(P, n)
    <3>1. n \in Claims(p, P) /\ n \in RedirectNode
      BY <2>12, <2>13
    <3>2. PICK k \in Pipe : Source(P, n) = ReadEnd(k)
      BY <2>10, <3>1 DEF Filled
    <3>3. Owed(p, P, n, k)
      BY <3>1, <3>2 DEF Owed
    <3>4. CASE n # l
      <4>1. p = Shell /\ Q.fd_num[n] = P.fd_num[n] /\ P.fd_num[n] # -1
        BY <2>7, <2>12, <2>13, <3>1, <3>4
      <4> DEFINE g == P.fd_num[n]
      <4>2. g \in FD /\ g > 2 /\ P.fds[g] = ReadEnd(k)
        BY <2>8, <3>1, <3>2, <4>1 DEF Source
      <4>3. g # fd
        <5> SUFFICES ASSUME g = fd PROVE FALSE
          OBVIOUS
        <5>1. l \in Claims(p, P)
          BY <2>9, <4>1
        <5>2. Owed(p, P, l, k)
          BY <4>1, <4>2, <5>1 DEF Owed, Source, fd
        <5> QED BY <2>3, <2>10, <3>1, <3>3, <3>4, <5>2 DEF Clear, l
      <4>4. Q.fds[g] = P.fds[g]
        <5> HIDE DEF g
        <5>1. g \in Nat /\ g > 1
          BY <2>4, <4>2
        <5> QED BY <2>3, <4>2, <4>3, <5>1
      <4> QED BY <4>1, <4>4 DEF Source
    <3>5. CASE n = l /\ fd = -1
      <4>1. Q.pc = "redirect" /\ p # Shell
        BY <2>7, <2>12, <2>13, <3>5
      <4>2. Q.fd_num[l] = -1
        BY <2>7, <3>5
      <4>3. op # "<"
        <5> SUFFICES ASSUME op = "<" PROVE FALSE
          OBVIOUS
        <5>1. KeptHeredoc(l) /\ P.i \in DOMAIN Ast[l].redirects
          BY <2>1, <3>1, <3>5, <4>1, ClaimsAreLists DEF Progress, l
        <5>2. PICK j \in HeredocOps(l) : j \in DoneOps(P)
          BY <2>1, <3>5, <4>1, <5>1 DEF Progress, l, fd
        <5>3. j \in DOMAIN Ast[l].redirects /\ Ast[l].redirects[j].op = "<<" /\ j < P.i
          BY <5>2 DEF HeredocOps, DoneOps, l
        <5>4. Ast[l].redirects[P.i].op = "<"
          BY DEF op, l, Operator
        <5>5. P.i < j
          BY <2>3, <5>1, <5>3, <5>4 DEF FilesFirst, l
        <5>6. j \in Nat /\ P.i \in Nat
          BY <2>3, <5>1, <5>3, NodeShape DEF RedirectNode, l
        <5> QED BY <5>3, <5>5, <5>6
      <4>4. Q.fds[0] = P.fds[0]
        BY <2>3, <3>5, <4>1, <4>3
      <4> QED BY <2>4, <3>5, <4>2, <4>4 DEF Source, fd
    <3>6. CASE n = l /\ fd # -1
      <4>1. Q.pc = "redirect"
        BY <2>12, <2>13, <3>6
      <4>2. P.fds[fd] = ReadEnd(k) /\ fd \in FD /\ fd > 2
        BY <2>8, <3>1, <3>2, <3>6 DEF Source, fd
      <4>3. CASE op = "<<"
        <5>1. Q.fds[0] = P.fds[fd]
          BY <2>3, <3>6, <4>1, <4>2, <4>3, PipeEnds
        <5> QED BY <2>4, <2>7, <3>2, <3>6, <4>2, <4>3, <5>1 DEF Source
      <4>4. CASE op # "<<"
        <5>1. fd > 1
          BY <2>4, <4>2
        <5>2. Q.fds[fd] = P.fds[fd] /\ Q.fd_num[l] = fd
          BY <2>3, <2>7, <4>2, <4>4, <5>1
        <5> QED BY <3>2, <3>6, <4>2, <5>2 DEF Source
      <4> QED BY <4>3, <4>4
    <3> QED BY <3>4, <3>5, <3>6
  <2>14. ASSUME NEW n \in RedirectNode, NEW k, Owed(p, Q, n, k) PROVE Owed(p, P, n, k)
    BY <2>12, <2>13, <2>14 DEF Owed
  <2>15. Opened(p)
    <3> SUFFICES ASSUME NEW k \in Pipe
                 PROVE  /\ \A g \in FD : Q.fds[g] = WriteEnd(k) =>
                             \E h \in FD : P.fds[h] = WriteEnd(k)
                        /\ Q.fds[0] = ReadEnd(k) =>
                             \/ P.fds[0] = ReadEnd(k)
                             \/ /\ \/ Minds(p, P) /\ Looks(P, k)
                                   \/ \E m \in RedirectNode : Owed(p, P, m, k)
                                /\ \A n \in RedirectNode : Owed(p, Q, n, k) => Q.fd_num[n] = -1
                        /\ Minds(p, Q) /\ Looks(Q, k) => Minds(p, P) /\ Looks(P, k)
      BY <2>4 DEF Opened
    <3>1. ASSUME NEW g \in FD, Q.fds[g] = WriteEnd(k) PROVE \E h \in FD : P.fds[h] = WriteEnd(k)
      <4>1. g = 0 \/ g = 1 \/ g > 1
        BY <2>4
      <4>2. CASE g = 0
        BY <2>3, <2>4, <2>8, <3>1, <4>2, PipeEnds DEF fd, l
      <4>3. CASE g = 1
        BY <2>3, <3>1, <4>3, PipeEnds
      <4>4. CASE g > 1
        BY <2>3, <3>1, <4>4, PipeEnds
      <4> QED BY <4>1, <4>2, <4>3, <4>4
    <3>2. ASSUME Minds(p, Q), Looks(Q, k) PROVE Minds(p, P) /\ Looks(P, k)
      <4>1. p = Shell
        BY <2>3, <3>2 DEF Minds
      <4>2. PICK g \in Held(Q) : g \in FD /\ g > 2 /\ Q.fds[g] = ReadEnd(k)
        BY <3>2 DEF Looks
      <4>3. g \in Held(P) /\ g > 1
        BY <2>3, <2>4, <4>2
      <4>4. P.fds[g] = ReadEnd(k)
        BY <2>3, <4>2, <4>3, PipeEnds
      <4> QED BY <4>1, <4>2, <4>3, <4>4 DEF Looks, Minds
    <3>3. ASSUME Q.fds[0] = ReadEnd(k), P.fds[0] # ReadEnd(k)
          PROVE  /\ \/ Minds(p, P) /\ Looks(P, k)
                    \/ \E m \in RedirectNode : Owed(p, P, m, k)
                 /\ \A n \in RedirectNode : Owed(p, Q, n, k) => Q.fd_num[n] = -1
      <4>1. CASE op = "<<" /\ fd # -1 /\ P.fds[fd] = ReadEnd(k)
        <5>1. Owed(p, P, l, k)
          BY <2>9, <4>1 DEF Owed, Source, fd
        <5>2. \A n \in RedirectNode : Owed(p, P, n, k) => n = l
          BY <2>3, <2>10, <5>1 DEF Clear, l
        <5> QED BY <2>3, <2>7, <2>14, <4>1, <5>1, <5>2 DEF l
      <4>2. CASE /\ Ast[P.node].kind = "ND_REDIRECTS" /\ Q.pc = "return"
                 /\ P.stored_stdin \in FD /\ P.stored_stdin > 2
                 /\ P.fds[P.stored_stdin] = ReadEnd(k)
        <5>1. p = Shell
          BY <2>1, <4>2 DEF Kid
        <5>2. Minds(p, P) /\ Looks(P, k)
          BY <4>2, <5>1 DEF Looks, Held, Minds
        <5>3. ASSUME NEW n \in RedirectNode, Owed(p, Q, n, k) PROVE FALSE
          <6>1. n # l
            BY <2>12, <4>2, <5>3 DEF Owed
          <6>2. InHand(P, n)
            BY <2>10, <2>14, <5>2, <5>3 DEF Clear
          <6> QED BY <2>11, <6>1, <6>2
        <5> QED BY <5>2, <5>3
      <4> QED BY <2>3, <3>3, <4>1, <4>2, PipeEnds
    <3> QED BY <3>1, <3>2, <3>3
  <2>16. \A n \in Claims(p, Q) : /\ InHand(P, n) => InHand(Q, n)
                                 /\ P.fd_num[n] = -1 => Q.fd_num[n] = -1
    BY <2>7, <2>11, <2>12 DEF fd
  <2> QED BY <1>1, <2>12, <2>13, <2>15, <2>16, OldDeals
<1> QED BY <1>2, <1>3

(***************************************************************************)
(* What the invariant says besides: whose heredocs have a number, what the *)
(* shell has open while it reads them, how far redirects are.              *)
(***************************************************************************)
\* Only a heredoc that is kept has a number, in every process there is.
Numbered(P) == Gone(P) \/ Plainly(P)

\* A step that numbers no other heredoc keeps it,
LEMMA NumbersStay ==
    ASSUME NEW P, NEW Q, Plainly(P),
           \A n \in RedirectNode : ~ KeptHeredoc(n) => Q.fd_num[n] \in {P.fd_num[n], -1}
    PROVE  Plainly(Q)
BY DEF Plainly

\* and every step is such a step.
LEMMA NumberedKept ==
    ASSUME TypeOK, [Next]_vars, Sound, \A p \in Proc : Numbered(proc[p]), NEW r \in Proc
    PROVE  Numbered(proc'[r])
<1> DEFINE P == proc[r]
           Q == proc'[r]
<1>1. P \in Process /\ P.fd_num \in [RedirectNode -> FdOrNone] /\ Numbered(P)
  BY Here DEF Process
<1>2. ASSUME NEW S, Plainly(S), Q.fd_num = S.fd_num PROVE Numbered(Q)
  BY <1>2, NumbersStay DEF Numbered
<1>3. CASE Aside(P, Q)
  BY <1>1, <1>2, <1>3 DEF Aside, Alike, SameFiles, At, Numbered, Gone
<1>4. CASE NewChild(r)
  <2>1. PICK p \in Proc \ {r} : ForkOf(proc[p], Q)
    BY <1>4 DEF NewChild
  <2>2. Plainly(proc[p]) /\ Q.fd_num = proc[p].fd_num
    BY <2>1 DEF ForkOf, SameFiles, Numbered, Gone
  <2> QED BY <1>2, <2>2
<1>5. CASE Gone(Q)
  BY <1>5 DEF Numbered
<1>6. ASSUME ~ Gone(Q), Advances(r) PROVE Plainly(P) /\ Std(P) /\ Listed(P)
  <2>1. P.pc # "free" /\ P.pc # "zombie"
    BY <1>6 DEF Advances, Step, ReadLine, EndOfInput, Heredoc, HeredocsRead, exec_pipe,
       exec_logical, exec_round_brackets, exec_redirect, exec_cmd_here, exec_cmd_forked,
       ChildSetup, exec_cmd, exec_cmd_with_heredoc, apply_redirects, run_builtin, Write, Read,
       Reading, ReadEof, ProgramExit, ReturnFromRight, ReturnFromPipeLeft, ReturnAndWait,
       WaitChild, WaitNoChild, exec_and_node, exec_or_node, EndOfBrackets, EndOfLine, AtNode,
       Deciding
  <2> QED BY <1>1, <2>1 DEF Numbered, Sound, Steady, Gone
<1> DEFINE Goes == ~ Gone(Q) /\ Plainly(P) /\ Std(P) /\ Listed(P)
<1>7. CASE Goes /\ ReadLine(r)
  <2>1. CanBackup(P)
    BY <1>7, ReadLineDoes
  <2>2. clear_ctx(P) \in Process /\ clear_ctx(P).fd_num = P.fd_num
    BY <1>1, <2>1, ClearCtxDoes
  <2>3. close_stored_fds(clear_ctx(P)).fd_num = P.fd_num
    BY <2>2, CloseStoredDoes
  <2>4. \/ SameFiles(close_stored_fds(clear_ctx(P)), Q)
        \/ SameFiles(clear_ctx(P), Q)
    BY <1>7, ReadLineDoes
  <2> QED BY <1>2, <1>7, <2>2, <2>3, <2>4 DEF SameFiles
<1>8. CASE Goes /\ Heredoc(r)
  <2> DEFINE n == NextHeredoc(P)
  <2>1. n \in RedirectNode /\ HeredocOps(n) # {}
    BY <1>8, HeredocDoes DEF HeredocNodes
  <2>2. CASE SameFiles(P, Q)
    BY <1>2, <1>8, <2>2 DEF SameFiles
  <2>3. CASE ~ SameFiles(P, Q)
    <3>1. is_heredoc_end(n) /\ \E fd \in FreeFds(P) : Q.fd_num = [P.fd_num EXCEPT ![n] = fd]
      BY <1>8, <2>3, HeredocFills
    <3>2. KeptHeredoc(n)
      BY <2>1, <3>1 DEF KeptHeredoc
    <3>3. \A m \in RedirectNode : ~ KeptHeredoc(m) => Q.fd_num[m] = P.fd_num[m]
      BY <1>1, <3>1, <3>2
    <3> QED BY <1>8, <3>3, NumbersStay DEF Numbered
  <2> QED BY <2>2, <2>3
<1>9. CASE Goes /\ (\/ HeredocsRead(r) \/ exec_logical(r) \/ exec_round_brackets(r)
                    \/ exec_redirect(r) \/ exec_cmd_here(r) \/ ReturnFromRight(r)
                    \/ ReturnAndWait(r) \/ WaitChild(r) \/ WaitNoChild(r) \/ exec_and_node(r)
                    \/ exec_or_node(r) \/ EndOfBrackets(r) \/ RunsOn(r))
  <2>1. SameFiles(P, Q)
    BY <1>9, HeredocsReadDoes, exec_logicalDoes, exec_round_bracketsDoes, exec_redirectDoes,
       exec_cmd_hereDoes, ReturnFromRightDoes, ReturnAndWaitDoes, WaitDoes, DecideDoes,
       EndOfBracketsDoes, RunsOnDoes
  <2> QED BY <1>2, <1>9, <2>1 DEF SameFiles
<1>10. CASE Goes /\ (exec_pipe(r) \/ ChildSetup(r) \/ ReturnFromPipeLeft(r))
  BY <1>2, <1>10, exec_pipeDoes, ChildSetupDoes, ReturnFromPipeLeftDoes
<1>11. CASE Goes /\ exec_cmd_forked(r)
  <2> DEFINE R == reset_parent_process_fd(P)
  <2>1. SameFiles(CloseHeredoc(R), Q)
    BY <1>11, exec_cmd_forkedDoes
  <2>2. R \in Process /\ R.fd_num = P.fd_num
    BY <1>1, ResetDoes
  <2> HIDE DEF R
  <2>3. CloseHeredoc(R).fd_num = R.fd_num
    BY <2>2, CloseHeredocDoes DEF OnlyFds
  <2> QED BY <1>2, <1>11, <2>1, <2>2, <2>3 DEF SameFiles
<1>12. CASE Goes /\ (exec_cmd(r) \/ exec_cmd_with_heredoc(r))
  <2> DEFINE l == Ast[P.node].left
  <2>1. /\ P.node \in Node /\ Ast[P.node].kind = "ND_CMD"
        /\ SameFiles(P, Q) \/ NewBody(P, Q)
    BY <1>12, exec_cmdDoes
  <2>2. CASE NewBody(P, Q)
    <3>1. l # 0 /\ P.fd_num[l] # -1 /\ \E fd \in FreeFds(P) : Q.fd_num = [P.fd_num EXCEPT ![l] = fd]
      BY <2>2 DEF NewBody, HasHeredoc
    <3>2. l \in RedirectNode
      BY <2>1, <3>1, NodeShape
    <3>3. KeptHeredoc(l)
      BY <1>12, <3>1, <3>2 DEF Plainly
    <3>4. \A m \in RedirectNode : ~ KeptHeredoc(m) => Q.fd_num[m] = P.fd_num[m]
      BY <1>1, <3>1, <3>3
    <3> QED BY <1>12, <3>4, NumbersStay DEF Numbered
  <2> QED BY <1>2, <1>12, <2>1, <2>2 DEF SameFiles
<1>13. CASE Goes /\ apply_redirects(r)
  <2> DEFINE l == ListOf(P)
  <2>1. Q.fd_num = [P.fd_num EXCEPT ![l] = IF Operator(P).op = "<<" THEN -1 ELSE @]
    BY <1>13, RedirectMoves
  <2>2. \A m \in RedirectNode : Q.fd_num[m] \in {P.fd_num[m], -1}
    BY <1>1, <2>1
  <2> QED BY <1>13, <2>2, NumbersStay DEF Numbered
<1>14. CASE Goes /\ run_builtin(r)
  <2>1. SameFiles(P, Q) \/ SameFiles(restore_std_fds(P), Q)
    BY <1>14, run_builtinDoes
  <2>2. restore_std_fds(P).fd_num = P.fd_num
    BY <1>1, RestoreDoes DEF OnlyFds
  <2> QED BY <1>2, <1>14, <2>1, <2>2 DEF SameFiles
<1>15. CASE EndOfLine(r)
  <2>1. \A n \in RedirectNode : Q.fd_num[n] = -1
    BY <1>15, EndOfLineDoes DEF NoHeredocs
  <2> QED BY <2>1 DEF Numbered, Plainly
<1>16. CASE EndOfInput(r)
  BY <1>5, <1>16, EndOfInputDoes
<1> HIDE DEF P, Q
<1>17. Advances(r) => Goes \/ Gone(Q)
  BY <1>6
<1> HIDE DEF Goes
<1> QED BY <1>3, <1>4, <1>5, <1>7, <1>8, <1>9, <1>10, <1>11, <1>12, <1>13, <1>14, <1>15, <1>16,
           <1>17, Happens DEF Advances, Step, RunsOn, P, Q

\* A child neither walks the tree nor asks for lines.
LEMMA OnlyShellWalks ==
    ASSUME NEW r, Kid(proc[r]),
           \/ ReadLine(r) \/ EndOfInput(r) \/ Heredoc(r) \/ HeredocsRead(r) \/ exec_pipe(r)
           \/ exec_logical(r) \/ exec_round_brackets(r) \/ exec_redirect(r)
           \/ exec_cmd_here(r) \/ exec_cmd_forked(r) \/ ReturnFromRight(r)
           \/ ReturnFromPipeLeft(r) \/ ReturnAndWait(r) \/ WaitChild(r) \/ WaitNoChild(r)
           \/ exec_and_node(r) \/ exec_or_node(r) \/ EndOfBrackets(r) \/ EndOfLine(r)
    PROVE  FALSE
<1>1. proc[r].pc \in {"prompt", "heredoc", "exec", "return", "wait", "decide"}
  BY DEF ReadLine, EndOfInput, Heredoc, HeredocsRead, exec_pipe, exec_logical,
     exec_round_brackets, exec_redirect, exec_cmd_here, exec_cmd_forked, AtNode,
     ReturnFromRight, ReturnFromPipeLeft, ReturnAndWait, WaitChild, WaitNoChild, exec_and_node,
     exec_or_node, EndOfBrackets, EndOfLine, Deciding
<1> QED BY <1>1 DEF Kid

\* The shell is ready when a line is typed, and stays so.
LEMMA ReadyKept ==
    ASSUME TypeOK, [Next]_vars, Sound, Ready(proc[Shell])
    PROVE  Ready(proc'[Shell])
<1> DEFINE P == proc[Shell]
           Q == proc'[Shell]
<1>1. Shell \in Proc /\ P \in Process /\ P.fds \in [FD -> Desc]
  BY ShellIs, Here DEF Process
<1>2. CASE Aside(P, Q)
  <2>1. Q.pc = "heredoc" => Alike(P, Q)
    BY <1>2 DEF Aside, Gone
  <2> QED BY <2>1 DEF Alike, At, SameFiles, SameHeld, Ready
<1>3. CASE ReadLine(Shell)
  <2>1. CASE Q.pc = "heredoc"
    <3>1. CanBackup(P) /\ SameFiles(clear_ctx(P), Q)
      BY <1>1, <1>3, <2>1, ReadLineDoes DEF Gone
    <3>2. P.pc = "prompt" /\ Std(P)
      BY <1>1, <1>3 DEF ReadLine, Sound, Steady, Gone
    <3> DEFINE C == clear_ctx(P)
               shut == Shut(P, Old(P))
    <3>3. PICK in, out \in FD :
            /\ in # out /\ shut[in] = Closed /\ shut[out] = Closed
            /\ C.fds = [shut EXCEPT ![in] = P.fds[STDIN_FILENO], ![out] = P.fds[STDOUT_FILENO]]
            /\ C.stored_stdin = in /\ C.stored_stdout = out
            /\ C.in_pipe_fd = -1 /\ C.out_pipe_fd = -1 /\ C.pre_in_pipe_fd = -1
            /\ C.fd_num = P.fd_num /\ C \in Process
      BY <1>1, <3>1, ClearCtxDoes
    <3>6. Q.pc = "heredoc" /\ Q.fds = C.fds /\ SameHeld(C, Q)
      BY <2>1, <3>1 DEF SameFiles
    <3> HIDE DEF C
    <3>4. P.fds[STDIN_FILENO] # Closed /\ P.fds[STDOUT_FILENO] # Closed
      BY <3>2 DEF Std, STDIN_FILENO, STDOUT_FILENO
    <3>5. Q.fds[in] # Closed /\ Q.fds[out] # Closed
      BY <3>3, <3>4, <3>6 DEF Shut
    <3> QED BY <3>3, <3>5, <3>6 DEF Ready, SameHeld
  <2> QED BY <2>1 DEF Ready
<1>4. CASE Heredoc(Shell)
  <2>1. P.pc = "heredoc"
    BY <1>4 DEF Heredoc
  <2>2. Q.pc = "heredoc" => \/ SameFiles(P, Q)
                            \/ \E fd \in FreeFds(P), k \in Pipe :
                                 /\ Q.fds = [P.fds EXCEPT ![fd] = ReadEnd(k)]
                                 /\ SameHeld(P, Q)
    <3> DEFINE n == NextHeredoc(P)
    <3>1. \/ Gone(Q)
          \/ /\ At(Q, "heredoc", P.node) /\ Q.i = n /\ SameFlags(P, Q)
             /\ \/ ~ is_heredoc_end(n) /\ SameFiles(P, Q)
                \/ \E fd \in FreeFds(P), k \in Pipe :
                     /\ Q.fds = [P.fds EXCEPT ![fd] = ReadEnd(k)]
                     /\ Q.fd_num = [P.fd_num EXCEPT ![n] = fd]
                     /\ SameHeld(P, Q)
      BY <1>1, <1>4, HeredocDoes
    <3> HIDE DEF P, Q, n
    <3> QED BY <3>1 DEF Gone
  <2>3. ASSUME NEW fd \in FreeFds(P), NEW k, Q.fds = [P.fds EXCEPT ![fd] = ReadEnd(k)]
        PROVE  \A g \in FD : P.fds[g] # Closed => Q.fds[g] # Closed
    BY <1>1, <2>3 DEF FreeFds
  <2> QED BY <2>1, <2>2, <2>3 DEF Ready, SameFiles, SameHeld
<1>5. Advances(Shell) => ReadLine(Shell) \/ Heredoc(Shell) \/ Q.pc # "heredoc"
  <2>1. CASE HeredocsRead(Shell) \/ EndOfInput(Shell) \/ EndOfLine(Shell)
    BY <1>1, <2>1, HeredocsReadDoes, EndOfInputDoes, EndOfLineDoes DEF At, Gone
  <2>2. CASE exec_pipe(Shell) \/ exec_logical(Shell) \/ exec_round_brackets(Shell)
    BY <1>1, <2>2, exec_pipeDoes, exec_logicalDoes, exec_round_bracketsDoes DEF At, Gone
  <2>3. CASE exec_redirect(Shell) \/ exec_cmd_here(Shell) \/ exec_cmd_forked(Shell)
           \/ ChildSetup(Shell)
    BY <1>1, <2>3, exec_redirectDoes, exec_cmd_hereDoes, exec_cmd_forkedDoes, ChildSetupDoes
       DEF At, Gone
  <2>4. CASE exec_cmd(Shell) \/ exec_cmd_with_heredoc(Shell)
    BY <1>1, <2>4, exec_cmdDoes DEF Expanded, Gone
  <2>5. CASE apply_redirects(Shell)
    BY <1>1, <2>5, apply_redirectsDoes DEF Redirected, At, Gone
  <2>6. CASE run_builtin(Shell) \/ RunsOn(Shell)
    BY <1>1, <2>6, run_builtinDoes, RunsOnDoes DEF At, Gone
  <2>7. CASE ReturnFromRight(Shell) \/ ReturnFromPipeLeft(Shell) \/ ReturnAndWait(Shell)
             \/ WaitChild(Shell) \/ WaitNoChild(Shell)
    BY <1>1, <2>7, ReturnFromRightDoes, ReturnFromPipeLeftDoes, ReturnAndWaitDoes, WaitDoes DEF At
  <2>8. CASE exec_and_node(Shell) \/ exec_or_node(Shell) \/ EndOfBrackets(Shell)
    BY <1>1, <2>8, DecideDoes, EndOfBracketsDoes DEF At
  <2> HIDE DEF P, Q
  <2> QED BY <2>1, <2>2, <2>3, <2>4, <2>5, <2>6, <2>7, <2>8 DEF Advances, Step, RunsOn
<1>6. ~ NewChild(Shell)
  BY DEF NewChild
<1>7. Q.pc # "heredoc" => Ready(Q)
  BY DEF Ready
<1> HIDE DEF P, Q
<1> QED BY <1>1, <1>2, <1>3, <1>4, <1>5, <1>6, <1>7, Happens DEF P, Q

\* The last of some operators of a list.
LEMMA LastIs ==
    ASSUME NEW l \in RedirectNode, NEW S, S \subseteq DOMAIN Ast[l].redirects, S # {}
    PROVE  LastOf(S) \in S /\ \A j \in S : j <= LastOf(S)
<1>1. /\ Len(Ast[l].redirects) \in Nat
      /\ DOMAIN Ast[l].redirects = 1 .. Len(Ast[l].redirects)
  BY NodeShape DEF RedirectNode
<1>2. S \subseteq Nat /\ \A j \in S : j <= Len(Ast[l].redirects)
  BY <1>1
<1>3. \E i \in S : \A j \in S : j <= i
  BY <1>1, <1>2, NatMax
<1> QED BY <1>3 DEF LastOf

\* Once the last file that is an input is open it is the standard input.
LEMMA FileOpened ==
    ASSUME NEW P \in Process, P.pc = "redirect", Std(P), Progress(P), Plainly(P),
           ListOf(P) \in RedirectNode, ~ KeptHeredoc(ListOf(P)), InputOps(ListOf(P)) # {},
           LastOf(InputOps(ListOf(P))) \in DoneOps(P) \cup {P.i}, Applied(P).last_status = 0
    PROVE  Applied(P).fds[STDIN_FILENO] = File
<1> DEFINE l == ListOf(P)
           rs == Ast[l].redirects
           op == Operator(P).op
           last == LastOf(InputOps(l))
           A == Applied(P)
<1>1. DOMAIN rs = 1 .. Len(rs) /\ Len(rs) \in Nat
  BY NodeShape DEF RedirectNode
<1>2. P.i \in 1 .. Len(rs) /\ op = rs[P.i].op
  BY <1>1 DEF Progress, Operator
<1>3. P.fd_num[l] = -1
  BY DEF Plainly
<1>4. A.fds[0] = IF op = "<" /\ Opens(P) THEN File ELSE P.fds[0]
  BY <1>3, OneApplied
<1>5. HeredocOps(l) = {j \in DOMAIN rs : rs[j].op = "<<"}
      /\ InputOps(l) = {j \in DOMAIN rs : rs[j].op \in {"<", "<<"}}
  BY DEF HeredocOps, InputOps
<1>6. last \in InputOps(l) /\ \A j \in InputOps(l) : j <= last
  BY <1>5, LastIs
<1>7. CASE last \in DoneOps(P)
  <2>1. P.fds[0] = File
    BY <1>7 DEF Progress, STDIN_FILENO
  <2>2. last < P.i /\ last \in Nat /\ P.i \in Nat
    BY <1>1, <1>2, <1>7 DEF DoneOps
  <2>3. ~ (P.i <= last) /\ P.i \in DOMAIN rs
    BY <1>1, <1>2, <2>2
  <2>4. P.i \notin InputOps(l)
    BY <1>6, <2>3
  <2>5. op # "<"
    BY <1>2, <1>5, <2>3, <2>4
  <2> QED BY <1>4, <2>1, <2>5 DEF STDIN_FILENO
<1>8. CASE last = P.i
  <2>1. P.i \notin HeredocOps(l)
    BY <1>8 DEF KeptHeredoc, is_heredoc_end
  <2>2. op = "<"
    BY <1>1, <1>2, <1>5, <1>6, <1>8, <2>1
  <2>3. Operator(P).op # "<<" => A.last_status = IF Opens(P) THEN 0 ELSE EXIT_FAILURE
    BY AppliedDoes
  <2>4. Opens(P)
    BY <2>2, <2>3 DEF EXIT_FAILURE
  <2> QED BY <1>4, <2>2, <2>4 DEF STDIN_FILENO
<1> QED BY <1>7, <1>8

\* A child that goes on with its redirects has passed one more of them.
LEMMA ProgressMade ==
    ASSUME NEW P \in Process, NEW Q, P.node \in Node, Ast[P.node].kind = "ND_CMD", Std(P),
           P.pc = "redirect", Progress(P), Plainly(P), ListOf(P) \in RedirectNode,
           P.i # Len(Ast[ListOf(P)].redirects),
           At(Q, "redirect", P.node), Q.i = P.i + 1, SameFiles(Applied(P), Q),
           Applied(P).last_status = 0
    PROVE  Progress(Q)
<1> DEFINE l == ListOf(P)
           rs == Ast[l].redirects
           op == Operator(P).op
           fd == P.fd_num[l]
<1>1. DOMAIN rs = 1 .. Len(rs) /\ Len(rs) \in Nat
  BY NodeShape DEF RedirectNode
<1>2. P.i \in 1 .. Len(rs) /\ Q.i \in 1 .. Len(rs) /\ ListOf(Q) = l /\ Q.pc = "redirect"
      /\ op = rs[P.i].op
  BY <1>1 DEF Progress, At, ListOf, Operator
<1>3. DoneOps(Q) = DoneOps(P) \cup {P.i} /\ P.i \notin DoneOps(P)
  BY <1>1, <1>2 DEF DoneOps
<1>4. Q.fd_num[l] = IF op = "<<" THEN -1 ELSE fd
  <2>1. Applied(P).fd_num = [P.fd_num EXCEPT ![l] = IF op = "<<" THEN -1 ELSE @]
    BY OneApplied
  <2>2. P.fd_num \in [RedirectNode -> FdOrNone] /\ Q.fd_num = Applied(P).fd_num
    BY DEF Process, SameFiles
  <2> HIDE DEF l, op
  <2> QED BY <2>1, <2>2 DEF l
<1>5. op = "<<" <=> P.i \in HeredocOps(l)
  BY <1>1, <1>2 DEF HeredocOps
<1>6. KeptHeredoc(l) => (Q.fd_num[l] = -1 <=> DoneOps(Q) \cap HeredocOps(l) # {})
  <2>1. KeptHeredoc(l) => (fd = -1 <=> DoneOps(P) \cap HeredocOps(l) # {})
    BY DEF Progress
  <2> QED BY <1>3, <1>4, <1>5, <2>1
<1>7. ~ KeptHeredoc(l) /\ InputOps(l) # {} /\ LastOf(InputOps(l)) \in DoneOps(Q)
        => Q.fds[STDIN_FILENO] = File
  BY <1>3, FileOpened DEF SameFiles
<1> HIDE DEF l
<1> QED BY <1>1, <1>2, <1>6, <1>7 DEF Progress

\* So the children know how far they are.
LEMMA ProgressKept ==
    ASSUME TypeOK, [Next]_vars, Sound, Delivers, \A p \in Others : Kid(proc[p]),
           \A p \in Proc : Numbered(proc[p]), NEW r \in Others, Progress(proc[r])
    PROVE  Progress(proc'[r])
<1> DEFINE P == proc[r]
           Q == proc'[r]
           l == Ast[P.node].left
<1>1. r \in Proc /\ r # Shell /\ P \in Process /\ Kid(P)
      /\ P.fd_num \in [RedirectNode -> FdOrNone]
  BY Here DEF Process, Others
<1>2. CASE Aside(P, Q)
  <2>1. Q.pc = "redirect" => Alike(P, Q)
    BY <1>2 DEF Aside, Gone
  <2>2. Alike(P, Q) => ListOf(Q) = ListOf(P)
    BY DEF Alike, At, ListOf
  <2>3. Alike(P, Q) => DoneOps(Q) = DoneOps(P)
    BY <2>2 DEF Alike, DoneOps
  <2> QED BY <2>1, <2>2, <2>3 DEF Alike, At, SameFiles, Progress
<1>3. CASE NewChild(r)
  BY <1>3 DEF NewChild, ForkOf, At, Progress
<1>4. CASE exec_cmd(r) \/ exec_cmd_with_heredoc(r)
  <2>1. /\ P.pc = "cmd" /\ P.node \in Node /\ Ast[P.node].kind = "ND_CMD"
        /\ \/ Gone(Q)
           \/ /\ Q.node = P.node /\ Expanded(P, Q)
              /\ SameFiles(P, Q) \/ NewBody(P, Q)
    BY <1>1, <1>4, exec_cmdDoes
  <2>2. CASE Q.pc = "redirect"
    <3>1. Q.node = P.node /\ Q.i = 1 /\ l # 0 /\ (SameFiles(P, Q) \/ NewBody(P, Q))
      BY <2>1, <2>2 DEF Gone, Expanded
    <3>2. l \in RedirectNode /\ ListOf(Q) = l
      BY <2>1, <3>1, NodeShape DEF ListOf
    <3>3. 1 \in DOMAIN Ast[l].redirects /\ DOMAIN Ast[l].redirects \subseteq Nat \ {0}
      BY <3>2, FirstOperator, NodeShape DEF RedirectNode
    <3>4. DoneOps(Q) = {}
      BY <3>1, <3>2, <3>3 DEF DoneOps
    <3>5. KeptHeredoc(l) => P.fd_num[l] # -1
      <4>1. KeptHeredoc(l) => l \in Claims(r, P)
        BY <1>1, <2>1, <3>2 DEF Claims, Due
      <4> QED BY <1>1, <2>1, <4>1 DEF Delivers, Filled
    <3>6. KeptHeredoc(l) => Q.fd_num[l] # -1
      <4>1. CASE SameFiles(P, Q)
        BY <3>5, <4>1 DEF SameFiles
      <4>2. CASE NewBody(P, Q)
        <5>1. PICK fd \in FreeFds(P) : Q.fd_num = [P.fd_num EXCEPT ![l] = fd]
          BY <4>2 DEF NewBody
        <5>2. fd # -1
          BY Standard DEF FreeFds
        <5> QED BY <1>1, <3>2, <5>1, <5>2
      <4> QED BY <3>1, <4>1, <4>2
    <3> HIDE DEF l
    <3> QED BY <3>1, <3>2, <3>3, <3>4, <3>6 DEF Progress
  <2> QED BY <2>2 DEF Progress
<1>5. CASE apply_redirects(r)
  <2>1. CASE Q.pc = "redirect"
    <3>1. P.pc = "redirect" /\ P.node \in Node /\ Ast[P.node].kind = "ND_CMD"
      BY <1>1, <1>5, apply_redirectsDoes DEF Kid
    <3>2. Redirected(P, Applied(P), Q)
      BY <1>1, <1>5, <2>1, apply_redirectsDoes DEF Gone
    <3>3. /\ P.i # Len(Ast[ListOf(P)].redirects) /\ At(Q, "redirect", P.node) /\ Q.i = P.i + 1
          /\ SameFiles(Applied(P), Q) /\ Applied(P).last_status = 0
      BY <2>1, <3>2 DEF Redirected, At
    <3>4. Std(P) /\ Plainly(P) /\ Listed(P)
      BY <1>1, <3>1 DEF Sound, Steady, Numbered, Gone
    <3>5. ListOf(P) \in RedirectNode
      BY <1>1, <3>1, <3>4, ListIs DEF Listed
    <3> QED BY <1>1, <3>1, <3>3, <3>4, <3>5, ProgressMade
  <2> QED BY <2>1 DEF Progress
<1>6. Advances(r) => \/ exec_cmd(r) \/ exec_cmd_with_heredoc(r) \/ apply_redirects(r)
                     \/ Q.pc # "redirect"
  <2>1. CASE ChildSetup(r)
    BY <1>1, <2>1, ChildSetupDoes DEF At
  <2>2. CASE run_builtin(r) \/ RunsOn(r)
    BY <1>1, <2>2, run_builtinDoes, RunsOnDoes DEF At, Gone
  <2>3. ASSUME \/ ReadLine(r) \/ EndOfInput(r) \/ Heredoc(r) \/ HeredocsRead(r) \/ exec_pipe(r)
               \/ exec_logical(r) \/ exec_round_brackets(r) \/ exec_redirect(r)
               \/ exec_cmd_here(r) \/ exec_cmd_forked(r) \/ ReturnFromRight(r)
               \/ ReturnFromPipeLeft(r) \/ ReturnAndWait(r) \/ WaitChild(r) \/ WaitNoChild(r)
               \/ exec_and_node(r) \/ exec_or_node(r) \/ EndOfBrackets(r) \/ EndOfLine(r)
        PROVE  FALSE
    BY <1>1, <2>3, OnlyShellWalks
  <2> HIDE DEF P, Q
  <2> QED BY <2>1, <2>2, <2>3 DEF Advances, Step, RunsOn
<1>7. Q.pc # "redirect" => Progress(Q)
  BY DEF Progress
<1> HIDE DEF P, Q
<1> QED BY <1>1, <1>2, <1>3, <1>4, <1>5, <1>6, <1>7, Happens DEF P, Q

(***************************************************************************)
(* Delivers is an invariant.                                               *)
(***************************************************************************)
\* Who is gone stays gone while the shell is at the prompt or ends a line.
LEMMA OthersStayGone ==
    ASSUME TypeOK, \A q \in Others : Kid(proc[q]), proc[Shell].pc # "exec", [Next]_vars,
           NEW r \in Others, Gone(proc[r])
    PROVE  Gone(proc'[r])
<1>1. ~ NewChild(r)
  BY OneBorn DEF exec_cmd_forked, AtNode, Others
<1>2. Aside(proc[r], proc'[r]) => Gone(proc'[r])
  BY DEF Aside, Alike, At, Gone
<1>3. ~ Advances(r)
  BY DEF Advances, Step, Gone, ReadLine, EndOfInput, Heredoc, HeredocsRead, exec_pipe,
     exec_logical, exec_round_brackets, exec_redirect, exec_cmd_here, exec_cmd_forked, AtNode,
     ChildSetup, exec_cmd, exec_cmd_with_heredoc, apply_redirects, run_builtin, Write, Read,
     ReadEof, Reading, ProgramExit, ReturnFromRight, ReturnFromPipeLeft, ReturnAndWait, WaitChild,
     WaitNoChild, exec_and_node, exec_or_node, EndOfBrackets, EndOfLine, Deciding
<1> QED BY <1>1, <1>2, <1>3, Happens DEF Others

\* Between two lines nothing is owed.
LEMMA NothingOwed ==
    ASSUME \A r \in Proc : Claims(r, proc'[r]) = {}
    PROVE  Delivers'
<1>1. \A r \in Proc : Filled(r, proc'[r], pipe')
  BY DEF Filled
<1>2. \A r, s \in Proc : Clear(r, proc'[r], s, proc'[s])
  BY DEF Clear, Owed
<1> QED BY <1>1, <1>2 DEF Delivers, Filled, Clear, Owed, Claims, Source, Minds, Looks, Unread, Due,
           InHand, Walks, From, ListOf, Held

\* Between two lines nobody is owed anything.
LEMMA LineDelivers ==
    ASSUME TypeOK, [Next]_vars, NoLostChild, \A q \in Others : Kid(proc[q]) /\ Own(q),
           ReadLine(Shell) \/ EndOfInput(Shell) \/ EndOfLine(Shell)
    PROVE  Delivers'
<1> DEFINE P == proc[Shell]
           Q == proc'[Shell]
<1>1. P.pc \in {"prompt", "decide"} /\ Shell \in Proc
  BY ShellIs DEF ReadLine, EndOfInput, EndOfLine
<1>2. \A r \in Others : Gone(proc[r])
  BY <1>1, NoneLeft DEF Gone
<1>3. \A r \in Others : Claims(r, proc'[r]) = {}
  BY <1>1, <1>2, OthersStayGone, GoneClaims
<1>4. Claims(Shell, Q) = {}
  <2>1. Gone(Q) \/ Q.pc = "prompt" \/ (Q.pc = "heredoc" /\ Q.i = 0)
    BY <1>1, ReadLineDoes, EndOfInputDoes, EndOfLineDoes
  <2>2. \A n \in RedirectNode : ~ (n <= 0)
    BY Nodes DEF RedirectNode
  <2> QED BY <2>1, <2>2, GoneClaims DEF Claims, Unread, InHand, Walks
<1> QED BY <1>3, <1>4, NothingOwed DEF Others

\* Every other step of the shell,
LEMMA ShellDeals ==
    ASSUME FilesFirst, TypeOK, Delivers, Sound, Ready(proc[Shell]), Numbered(proc[Shell]),
           Advances(Shell), ~ ReadLine(Shell), ~ EndOfInput(Shell), ~ EndOfLine(Shell),
           ~ Gone(proc[Shell]), Emptied(proc'[Shell])
    PROVE  Deals(Shell)
<1>1. Shell \in Proc /\ Plainly(proc[Shell])
  BY ShellIs DEF Numbered
<1>2. CASE Strolls(Shell)
  BY <1>1, <1>2, StrollWithin, StrollPipe, WithinDeals
<1>3. CASE exec_cmd_forked(Shell)
  <2>1. pipe' = pipe
    BY <1>3 DEF exec_cmd_forked
  <2> QED BY <1>1, <1>3, <2>1, ForkWithin, WithinDeals
<1>4. ~ ChildSetup(Shell)
  BY DEF ChildSetup, Sound, ShellRuns
<1>5. CASE RunsOn(Shell)
  BY <1>1, <1>5, RunsOnDeals
<1>6. CASE exec_pipe(Shell) \/ Heredoc(Shell)
  BY <1>6, PipeDeals, HeredocDeals
<1>7. CASE exec_cmd_with_heredoc(Shell) \/ apply_redirects(Shell) \/ run_builtin(Shell)
  BY <1>1, <1>7, BodyDeals, RedirectDeals, BuiltinDeals
<1> QED BY <1>2, <1>3, <1>4, <1>5, <1>6, <1>7 DEF Advances, Step, RunsOn, Strolls

\* and every step of a child, deals with the heredocs as it should.
LEMMA ChildDeals ==
    ASSUME FilesFirst, TypeOK, Delivers, Sound, NEW p \in Others, Kid(proc[p]), Progress(proc[p]),
           Numbered(proc[p]), Advances(p), ~ Gone(proc[p]), Emptied(proc'[p])
    PROVE  Deals(p)
<1>1. p \in Proc /\ p # Shell /\ Plainly(proc[p])
  BY DEF Numbered, Others
<1>2. CASE ChildSetup(p)
  BY <1>2, SetupDeals
<1>3. CASE exec_cmd(p)
  <2>1. pipe' = pipe
    BY <1>3 DEF exec_cmd
  <2> QED BY <1>1, <1>3, <2>1, ChildRunsWithin, WithinDeals
<1>4. CASE RunsOn(p)
  BY <1>1, <1>4, RunsOnDeals
<1>5. CASE exec_cmd_with_heredoc(p) \/ apply_redirects(p) \/ run_builtin(p)
  BY <1>1, <1>5, BodyDeals, RedirectDeals, BuiltinDeals
<1> QED BY <1>2, <1>3, <1>4, <1>5, OnlyShellWalks DEF Advances, Step, RunsOn

\* Who takes a step is there.
LEMMA StepsAreThere ==
    ASSUME NEW p, Advances(p)
    PROVE  ~ Gone(proc[p])
BY DEF Advances, Step, Gone, ReadLine, EndOfInput, Heredoc, HeredocsRead, exec_pipe,
   exec_logical, exec_round_brackets, exec_redirect, exec_cmd_here, exec_cmd_forked, AtNode,
   ChildSetup, exec_cmd, exec_cmd_with_heredoc, apply_redirects, run_builtin, Write, Read,
   ReadEof, Reading, ProgramExit, ReturnFromRight, ReturnFromPipeLeft, ReturnAndWait, WaitChild,
   WaitNoChild, exec_and_node, exec_or_node, EndOfBrackets, EndOfLine, Deciding

\* What holds of all processes between two steps.
Given ==
    /\ Sound /\ Delivers /\ Ready(proc[Shell])
    /\ \A r \in Others : Kid(proc[r]) /\ Own(r) /\ Progress(proc[r])
    /\ \A r \in Proc : Emptied(proc[r]) /\ Numbered(proc[r])

\* Delivers is kept by every step, the others given.
LEMMA DeliversNext ==
    ASSUME FilesFirst, TypeOK, NoLostChild, Given, [Next]_vars
    PROVE  Delivers'
<1>1. Delivers /\ Sound /\ \A q \in Others : Kid(proc[q])
  BY DEF Given
<1>2. \A r \in Proc : Emptied(proc'[r])
  BY EmptiedKept DEF Given
<1>3. CASE UNCHANGED vars
  <2>1. proc' = proc /\ pipe' = pipe
    BY <1>3 DEF vars
  <2> QED BY <1>1, <2>1 DEF Delivers, Filled, Clear, Owed, Claims, Source, Minds, Looks, Unread,
             Due, InHand, Walks, From, ListOf, Held
<1>4. ASSUME NEW p \in Proc, Advances(p), NEW r \in Proc \ {p}, ~ NewChild(r)
      PROVE  Within(r, proc[r], proc'[r])
  BY <1>2, <1>4, Bystander, AsideWithin
<1>5. CASE exec_cmd_forked(Shell)
  <2>1. Shell \in Proc /\ Advances(Shell)
    BY <1>5, ShellIs DEF Advances, Step
  <2>2. ~ ReadLine(Shell) /\ ~ EndOfInput(Shell) /\ ~ EndOfLine(Shell)
    BY <1>5 DEF exec_cmd_forked, AtNode, ReadLine, EndOfInput, EndOfLine
  <2>3. Deals(Shell)
    BY <1>2, <2>1, <2>2, ShellDeals, StepsAreThere DEF Given
  <2>4. Plainly(proc[Shell])
    BY <2>1, StepsAreThere DEF Given, Numbered
  <2>5. ASSUME NEW r \in Proc \ {Shell}
        PROVE  Within(r, proc[r], proc'[r]) \/ (r = NewProcess /\ Births(NewProcess))
    <3>1. CASE NewChild(r)
      <4>1. r = NewProcess /\ r \in Others /\ ForkOf(proc[Shell], proc'[r])
        BY <1>1, <3>1, OneBorn
      <4> QED BY <1>1, <1>2, <1>5, <2>1, <2>4, <4>1, ForkBirths
    <3> QED BY <1>4, <2>1, <3>1
  <2>6. Turns(Shell, NewProcess)
    BY <2>1, <2>3, <2>5 DEF Turns
  <2> QED BY <1>1, <2>6, DeliversKept
<1>6. ASSUME NEW p \in Proc, Advances(p), ~ exec_cmd_forked(Shell) PROVE Delivers'
  <2>1. \A r \in Proc \ {p} : Within(r, proc[r], proc'[r])
    BY <1>1, <1>4, <1>6, OneBorn
  <2>2. CASE p = Shell /\ (ReadLine(Shell) \/ EndOfInput(Shell) \/ EndOfLine(Shell))
    BY <2>2, LineDelivers DEF Given
  <2>3. CASE ~ (p = Shell /\ (ReadLine(Shell) \/ EndOfInput(Shell) \/ EndOfLine(Shell)))
    <3>1. Deals(p)
      BY <1>2, <1>6, <2>3, ShellDeals, ChildDeals, StepsAreThere DEF Given, Others
    <3>2. Turns(p, p)
      BY <2>1, <3>1 DEF Turns
    <3> QED BY <1>1, <3>2, DeliversKept
  <2> QED BY <2>2, <2>3
<1> QED BY <1>3, <1>5, <1>6 DEF Next, Ended, Advances

\* A command starts once the last of its redirects is applied.
LEMMA StartsLast ==
    ASSUME TypeOK, NEW p \in Proc, apply_redirects(p), Kid(proc[p]), Listed(proc[p]),
           proc'[p].pc = "program"
    PROVE  LET P == proc[p]
               A == Applied(P)
           IN  /\ P.pc = "redirect" /\ P.node \in Node /\ Ast[P.node].kind = "ND_CMD"
               /\ proc'[p].node = P.node /\ SameFiles(A, proc'[p]) /\ A.last_status = 0
               /\ P.i = Len(Ast[ListOf(P)].redirects)
<1> DEFINE P == proc[p]
           Q == proc'[p]
           A == Applied(P)
           n == IF Ast[P.node].kind = "ND_CMD" THEN Ast[P.node].left ELSE P.node
           r == Ast[n].redirects[P.i]
           B == IF r.op = "<<" THEN redirect_here_doc(P, n) ELSE redirect_file(P, r)
<1>1. P.pc = "redirect" /\ P.node \in Node /\ Ast[P.node].kind = "ND_CMD" /\ P \in Process
  BY Here, apply_redirectsDoes DEF Kid
<1>2. Redirected(P, A, Q)
  BY apply_redirectsDoes DEF Gone
<1>3. Q.node = P.node /\ SameFiles(A, Q) /\ A.last_status = 0
  BY <1>1, <1>2 DEF Redirected, At
<1>4. ListOf(P) = n /\ Operator(P) = r /\ B = A
  BY DEF ListOf, Operator, Applied
<1>5. A \in Process /\ A.pc = "redirect"
  BY <1>1, AppliedDoes DEF SameStep
<1> DEFINE Y == [A EXCEPT !.i = P.i + 1]
<1>6. \/ Exit(p, EXIT_FAILURE)
      \/ A.last_status # 0
      \/ P.i = Len(Ast[n].redirects)
      \/ Set(p, Y)
  <2>1. IF r.op # "<<" /\ B.last_status # 0 /\ P.is_exec_in_child_ps
        THEN Exit(p, EXIT_FAILURE)
        ELSE Set(p, IF B.last_status # 0 \/ P.i = Len(Ast[n].redirects)
                    THEN AfterRedirects(B)
                    ELSE [B EXCEPT !.i = P.i + 1])
    BY DEF apply_redirects
  <2> HIDE DEF P, n, r, B, A
  <2> QED BY <1>4, <2>1
<1>7. proc \in [Proc -> Good] /\ EXIT_FAILURE \in 0 .. 255
  BY ProcType DEF EXIT_FAILURE
<1>8. ~ Exit(p, EXIT_FAILURE)
  BY <1>7, ExitDoes DEF Exit, Gone
<1>9. ~ Set(p, Y)
  <2>1. Y.pc = "redirect"
    <3> HIDE DEF A
    <3> QED BY <1>5 DEF Process
  <2> HIDE DEF Y
  <2> QED BY <1>7, <2>1 DEF Set
<1> QED BY <1>1, <1>3, <1>4, <1>6, <1>8, <1>9

\* The command that starts has its last input, and nobody writes to it.
LEMMA StartsFed ==
    ASSUME TypeOK, Given, NEW p \in Others, apply_redirects(p), proc'[p].pc = "program",
           \A r \in Proc \ {p}, fd \in FD : proc'[r].fds[fd] \in {proc[r].fds[fd], Closed}
    PROVE  InputGiven(p)'
<1> DEFINE P == proc[p]
           Q == proc'[p]
           A == Applied(P)
           l == ListOf(P)
           rs == Ast[l].redirects
           op == Operator(P).op
           fd == P.fd_num[l]
           last == LastOf(InputOps(l))
<1>1. /\ P \in Process /\ p \in Proc /\ p # Shell
      /\ Kid(P) /\ Listed(P) /\ Progress(P) /\ Numbered(P) /\ Delivers /\ Steady(P)
  BY Here DEF Given, Others, Sound
<1>2. /\ P.pc = "redirect" /\ P.node \in Node /\ Ast[P.node].kind = "ND_CMD"
      /\ Q.node = P.node /\ Q.fds = A.fds /\ A.last_status = 0
      /\ P.i = Len(Ast[ListOf(P)].redirects)
  BY <1>1, StartsLast DEF SameFiles
<1>3. l \in RedirectNode /\ l = Ast[P.node].left /\ Plainly(P) /\ Std(P)
  BY <1>1, <1>2, NodeShape DEF Listed, Numbered, Steady, Gone, ListOf
<1>4. DOMAIN rs = 1 .. Len(rs) /\ Len(rs) \in Nat /\ P.i = Len(rs) /\ P.i \in DOMAIN rs
      /\ op = rs[P.i].op
  <2>1. rs \in Seq(Redirect)
    BY <1>3, NodeShape DEF RedirectNode
  <2>2. DOMAIN rs = 1 .. Len(rs) /\ Len(rs) \in Nat
    <3> HIDE DEF rs
    <3> QED BY <2>1
  <2>3. P.i = Len(rs)
    BY <1>2
  <2>4. P.i \in DOMAIN rs
    BY <1>1, <1>2 DEF Progress
  <2>5. op = rs[P.i].op
    BY DEF Operator
  <2> QED BY <2>2, <2>3, <2>4, <2>5
<1>5. HeredocOps(l) = {j \in DOMAIN rs : rs[j].op = "<<"}
      /\ InputOps(l) = {j \in DOMAIN rs : rs[j].op \in {"<", "<<"}}
  BY DEF HeredocOps, InputOps
<1>6. ASSUME InputOps(l) # {}
       PROVE  /\ last \in InputOps(l) /\ \A j \in InputOps(l) : j <= last
              /\ last \in DOMAIN rs /\ last \in Nat /\ last <= P.i
  <2>1. last \in InputOps(l) /\ \A j \in InputOps(l) : j <= last
    BY <1>3, <1>5, <1>6, LastIs
  <2>2. last \in DOMAIN rs
    BY <1>5, <2>1
  <2> HIDE DEF last, rs
  <2> QED BY <1>4, <2>1, <2>2
<1>7. pipe' = pipe
  BY DEF apply_redirects
<1>8. /\ \A g \in FD : g > 1 => A.fds[g] = IF op = "<<" /\ g = fd THEN Closed ELSE P.fds[g]
      /\ A.fds[1] \in {P.fds[1], File}
      /\ A.fds[0] = IF op = "<<" /\ fd # -1 /\ P.fds[fd] # Closed THEN P.fds[fd]
                    ELSE IF op = "<" /\ Opens(P) THEN File ELSE P.fds[0]
  BY <1>1, <1>3, OneApplied
<1>9. \A k : \A r \in Proc, g \in FD :
           proc'[r].fds[g] = WriteEnd(k) /\ r # p => proc[r].fds[g] = WriteEnd(k)
  BY PipeEnds
<1> HIDE DEF A, op
<1>10. 0 \in FD /\ 1 \in FD /\ STDIN_FILENO = 0 /\ \A g \in FD : g \in {0, 1} \/ g > 1
  BY Standard DEF STDIN_FILENO
<1>11. ASSUME InputOps(l) # {}, rs[last].op = "<" PROVE Q.fds[0] = File
  <2>1. last \in DOMAIN rs /\ last \in Nat /\ last <= P.i
    BY <1>11, <1>6
  <2>2. ~ KeptHeredoc(l)
    BY <1>5, <1>11 DEF KeptHeredoc, is_heredoc_end
  <2>3. last \in DoneOps(P) \cup {P.i}
    <3>1. last < P.i \/ last = P.i
      <4> HIDE DEF last, rs
      <4> QED BY <1>4, <2>1
    <3> QED BY <2>1, <3>1 DEF DoneOps
  <2> QED BY <1>1, <1>2, <1>3, <1>10, <1>11, <2>2, <2>3, FileOpened DEF A
<1>12. ASSUME InputOps(l) # {}, rs[last].op # "<"
       PROVE  \E k \in Pipe : /\ Q.fds[0] = ReadEnd(k) /\ pipe'[k] = rs[last].body
                              /\ \A r \in Proc, g \in FD : proc'[r].fds[g] # WriteEnd(k)
  <2>1. /\ last \in InputOps(l) /\ \A j \in InputOps(l) : j <= last
        /\ last \in DOMAIN rs /\ last \in Nat /\ last <= P.i
    BY <1>12, <1>6
  <2>2. last \in HeredocOps(l) /\ HeredocOps(l) \subseteq InputOps(l)
    BY <1>5, <1>12, <2>1
  <2>3. KeptHeredoc(l)
    BY <2>2 DEF KeptHeredoc, is_heredoc_end
  <2>4. BodyOf(l) = rs[last].body
    <3> DEFINE h == LastOf(HeredocOps(l))
    <3>1. h \in HeredocOps(l) /\ last <= h
      BY <1>3, <1>5, <2>2, LastIs
    <3>2. h \in InputOps(l) /\ h \in DOMAIN rs
      BY <1>5, <2>2, <3>1
    <3>3. h <= last /\ h \in Nat
      BY <1>4, <2>1, <3>2
    <3>4. h = last
      <4> HIDE DEF h, last
      <4> QED BY <2>1, <3>1, <3>3
    <3> QED BY <3>4 DEF BodyOf
  <2>5. l \in Claims(p, P)
    BY <1>1, <1>2, <1>3, <2>3 DEF Claims, Due
  <2>6. PICK k \in Pipe : Source(P, l) = ReadEnd(k) /\ pipe[k] = BodyOf(l)
    BY <1>1, <2>5 DEF Delivers, Filled
  <2>7. Owed(p, P, l, k)
    BY <2>5, <2>6 DEF Owed
  <2>8. \A r \in Proc : Clear(r, proc[r], p, P)
    BY <1>1 DEF Delivers
  <2>9. \A r \in Proc, g \in FD : proc[r].fds[g] # WriteEnd(k)
    BY <1>3, <2>7, <2>8 DEF Clear
  <2>10. Q.fds[0] = ReadEnd(k)
    <3>1. CASE fd = -1
      <4>1. P.fds[0] = ReadEnd(k)
        BY <1>10, <2>6, <3>1 DEF Source
      <4>2. op # "<"
        <5> SUFFICES ASSUME op = "<" PROVE FALSE
          OBVIOUS
        <5>1. P.i \in InputOps(l)
          BY <1>4, <1>5
        <5>2. P.i <= last
          BY <2>1, <5>1
        <5>3. P.i = last
          <6> HIDE DEF last, rs
          <6> QED BY <1>4, <2>1, <5>2
        <5> QED BY <1>4, <1>12, <5>3
      <4> QED BY <1>2, <1>8, <3>1, <4>1, <4>2
    <3>2. CASE fd # -1
      <4>1. last \notin DoneOps(P)
        BY <1>1, <1>2, <1>3, <2>2, <2>3, <3>2 DEF Progress
      <4>2. ~ (last < P.i)
        BY <2>1, <4>1 DEF DoneOps
      <4>3. last = P.i
        <5> HIDE DEF last, rs
        <5> QED BY <1>4, <2>1, <4>2
      <4>4. op = "<<"
        BY <1>4, <1>5, <2>2, <4>3
      <4>5. P.fds[fd] = ReadEnd(k)
        BY <2>6, <3>2 DEF Source
      <4> QED BY <1>2, <1>8, <3>2, <4>4, <4>5, PipeEnds
    <3> QED BY <3>1, <3>2
  <2>11. \A g \in FD : Q.fds[g] # WriteEnd(k)
    <3>1. ASSUME NEW g \in FD, g > 1 PROVE Q.fds[g] # WriteEnd(k)
      <4>1. Q.fds[g] = Closed \/ Q.fds[g] = P.fds[g]
        BY <1>2, <1>8, <3>1
      <4> QED BY <1>1, <2>9, <4>1, PipeEnds
    <3>2. Q.fds[1] # WriteEnd(k)
      <4>1. Q.fds[1] = File \/ Q.fds[1] = P.fds[1]
        BY <1>2, <1>8
      <4> QED BY <1>1, <1>10, <2>9, <4>1, PipeEnds
    <3> QED BY <1>10, <2>10, <3>1, <3>2, PipeEnds
  <2>12. \A r \in Proc, g \in FD : proc'[r].fds[g] # WriteEnd(k)
    BY <1>9, <2>9, <2>11
  <2> QED BY <1>7, <2>4, <2>6, <2>10, <2>12
<1>13. ASSUME InputOps(l) # {}, rs[last].op # "<"
       PROVE  /\ Q.fds[0][1] = "r" /\ pipe'[Q.fds[0][2]] = rs[last].body
              /\ {q \in Proc : \E g \in FD : proc'[q].fds[g] = WriteEnd(Q.fds[0][2])} = {}
  <2>1. PICK k \in Pipe : /\ Q.fds[0] = ReadEnd(k) /\ pipe'[k] = rs[last].body
                          /\ \A r \in Proc, g \in FD : proc'[r].fds[g] # WriteEnd(k)
    BY <1>12, <1>13
  <2>2. Q.fds[0][1] = "r" /\ Q.fds[0][2] = k
    BY <2>1 DEF ReadEnd
  <2> QED BY <2>1, <2>2
<1>14. rs[last].op = "<" \/ rs[last].op # "<"
  OBVIOUS
<1> HIDE DEF last, rs
<1> QED BY <1>2, <1>3, <1>10, <1>11, <1>13, <1>14 DEF InputGiven, Writers, HasEnd, last, rs

(***************************************************************************)
(* InputDelivered.                                                         *)
(***************************************************************************)
\* Who applies the last redirect of its command does nothing to the others but
\* close what an orphan leaves behind.
LEMMA OthersKeepEnds ==
    ASSUME TypeOK, \A q \in Others : Kid(proc[q]), \A q \in Proc : Emptied(proc'[q]),
           NEW p \in Others, Advances(p), proc[p].pc = "redirect", proc'[p].pc = "program",
           NEW r \in Proc \ {p}, NEW fd \in FD
    PROVE  proc'[r].fds[fd] \in {proc[r].fds[fd], Closed}
<1>1. CASE Aside(proc[r], proc'[r])
  BY <1>1 DEF Aside, Emptied, Alike, SameFiles
<1>2. CASE NewChild(r)
  <2>1. exec_cmd_forked(Shell) /\ r = NewProcess
    BY <1>2, OneBorn
  <2>2. Advances(Shell) /\ Shell \in Proc \ {p}
    BY <2>1, ShellIs DEF Advances, Step, Others
  <2>3. Aside(proc[p], proc'[p]) \/ NewChild(p)
    BY <2>2, Bystander DEF Others
  <2>4. ~ NewChild(p)
    BY DEF NewChild
  <2> QED BY <2>3, <2>4 DEF Aside, Alike, At, Gone
<1> QED BY <1>1, <1>2, Bystander DEF Others

\* Whatever program starts has been given its input.
LEMMA StartsGiven ==
    ASSUME TypeOK, Given, [Next]_vars, \A q \in Proc : Emptied(proc'[q]), ShellRuns(proc'[Shell]),
           NEW p \in Proc, proc[p].pc # "program", proc'[p].pc = "program"
    PROVE  InputGiven(p)'
<1> DEFINE P == proc[p]
           Q == proc'[p]
<1>1. /\ p \in Others /\ Kid(P) /\ Listed(P) /\ \A q \in Others : Kid(proc[q])
  BY DEF Given, Others, ShellRuns, Sound
<1>2. Advances(p)
  <2>1. ~ Aside(P, Q)
    BY DEF Aside, Alike, At, Gone
  <2>2. ~ NewChild(p)
    BY DEF NewChild, ForkOf, At
  <2> QED BY <2>1, <2>2, Happens
<1>3. CASE exec_cmd(p) \/ exec_cmd_with_heredoc(p)
  <2>1. Q.node = P.node /\ Expanded(P, Q)
    BY <1>3, exec_cmdDoes DEF Gone
  <2>2. Ast[Q.node].left = 0
    BY <2>1 DEF Expanded
  <2> QED BY <2>2 DEF InputGiven
<1>4. CASE apply_redirects(p)
  <2>1. P.pc = "redirect"
    BY <1>1, <1>4, StartsLast
  <2>2. \A r \in Proc \ {p}, fd \in FD : proc'[r].fds[fd] \in {proc[r].fds[fd], Closed}
    BY <1>1, <1>2, <2>1, OthersKeepEnds
  <2> QED BY <1>1, <1>4, <2>2, StartsFed
<1>5. CASE run_builtin(p)
  BY <1>5, run_builtinDoes DEF At, Gone
<1>6. CASE ChildSetup(p)
  BY <1>6, ChildSetupDoes DEF At
<1>7. CASE RunsOn(p)
  BY <1>7, RunsOnDoes DEF At, Gone
<1> QED BY <1>1, <1>2, <1>3, <1>4, <1>5, <1>6, <1>7, OnlyShellWalks DEF Advances, Step, RunsOn

\* Nothing has happened yet,
LEMMA GivenFirst ==
    ASSUME Init
    PROVE  Given
<1>1. proc[Shell] = init_ctx /\ proc[Shell].pc = "prompt"
  BY ShellStarts
<1>2. \A r \in Others : proc[r] = NoProcess /\ Kid(proc[r])
  BY KidsFirst DEF Init, Others
<1>3. NoProcess.pc = "free" /\ Gone(NoProcess)
  BY DEF NoProcess, Gone
<1>4. \A r \in Others : Own(r) /\ Progress(proc[r])
  BY <1>2, <1>3 DEF Own, Progress
<1>5. Ready(proc[Shell]) /\ ~ Gone(proc[Shell])
  BY <1>1 DEF Ready, Gone
<1>6. Plainly(proc[Shell])
  BY <1>1 DEF Plainly, init_ctx, NoProcess, NoHeredocs
<1>7. \A r \in Proc : Emptied(proc[r]) /\ Numbered(proc[r])
  BY <1>2, <1>3, <1>5, <1>6, NoProcessEmpty DEF Emptied, Numbered, Others
<1>8. Claims(Shell, proc[Shell]) = {}
  BY <1>1 DEF Claims, Unread, Walks, InHand
<1>9. \A r \in Others : Claims(r, proc[r]) = {}
  BY <1>2, <1>3 DEF Claims, Due, Others
<1>10. Delivers
  <2>1. \A r \in Proc : Claims(r, proc[r]) = {}
    BY <1>8, <1>9 DEF Others
  <2> QED BY <2>1 DEF Delivers, Filled, Clear, Owed
<1> QED BY <1>2, <1>4, <1>5, <1>7, <1>10, SoundFirst DEF Given

\* and a step keeps what is given.
LEMMA GivenNext ==
    ASSUME FilesFirst, NoneSuperseded, TypeOK, NoLostChild, Given, [Next]_vars
    PROVE  Given'
<1>1. /\ Sound /\ Delivers /\ Ready(proc[Shell])
      /\ \A r \in Others : Kid(proc[r]) /\ Own(r) /\ Progress(proc[r])
      /\ \A r \in Proc : Emptied(proc[r]) /\ Numbered(proc[r])
  BY DEF Given
<1>2. Sound' /\ Delivers' /\ Ready(proc'[Shell])
  BY <1>1, SoundKept, DeliversNext, ReadyKept
<1>3. \A r \in Others : Kid(proc'[r])
  BY <1>1, KidsKept DEF Others
<1>4. ASSUME NEW r \in Others, ~ Gone(proc'[Shell]), proc'[r].pc # "free"
      PROVE  proc'[r].parent = Shell
  BY <1>1, <1>4, OwnKept DEF Others
<1>5. \A r \in Others : Progress(proc'[r])
  BY <1>1, ProgressKept
<1>6. \A r \in Proc : Emptied(proc'[r]) /\ Numbered(proc'[r])
  BY <1>1, EmptiedKept, NumberedKept
<1>7. (Ready(proc[Shell]))'
  BY <1>2 DEF Ready
<1>8. \A r \in Others : Kid(proc[r])' /\ Own(r)' /\ Progress(proc[r])'
  BY <1>3, <1>4, <1>5 DEF Own, Kid, GivenHeredoc, Progress, DoneOps, ListOf, Gone
<1>9. \A r \in Proc : Emptied(proc[r])' /\ Numbered(proc[r])'
  BY <1>6 DEF Emptied, Numbered, Plainly, Gone
<1> QED BY <1>2, <1>7, <1>8, <1>9 DEF Given

\* InputDelivered: a program starts with the input that its last input redirect
\* names, the file or a pipe with the whole heredoc that nobody writes to, where
\* no command reads a file after a heredoc that another one replaces (cat <<a <f
\* <<b starts with f, because fd_num has one descriptor for the heredocs of a
\* command and the first of them to be applied takes it) and none begins with a
\* heredoc that a file replaces (which lets the child go on as a second shell).
THEOREM InputsAreDelivered ==
    ASSUME FilesFirst, NoneSuperseded
    PROVE  Spec => InputDelivered
<1> DEFINE Start == \A p \in Proc : proc[p].pc # "program" /\ proc'[p].pc = "program"
                                    => InputGiven(p)'
<1>1. Init => Given
  BY GivenFirst
<1>2. TypeOK /\ NoLostChild /\ [Next]_vars /\ Given => Given'
  BY GivenNext
<1>3. TypeOK /\ NoLostChild /\ [Next]_vars /\ Given => [Start]_vars
  <2>1. SUFFICES ASSUME TypeOK, NoLostChild, [Next]_vars, Given PROVE Start
    OBVIOUS
  <2>2. \A q \in Proc : Emptied(proc'[q])
    BY <2>1, EmptiedKept DEF Given
  <2>3. ShellRuns(proc'[Shell])
    BY <2>1, SoundKept DEF Sound, Given
  <2> QED BY <2>1, <2>2, <2>3, StartsGiven
<1> QED BY <1>1, <1>2, <1>3, TypeCorrect, ChildrenKept, PTL DEF Spec, InputDelivered

=============================================================================
