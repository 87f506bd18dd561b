--------------------------- MODULE Signals_proofs ---------------------------
(* Under any number of keys: g_sig, the dispositions and the statuses stay     *)
(* what they can be, a cancelled line does not run, a Ctrl-C is told of once,  *)
(* the shell outlives it, and leaves a line with its children done.            *)
EXTENDS Signals, SequenceTheorems, TLAPS

(***************************************************************************)
(* The invariant.                                                          *)
(***************************************************************************)
Status == {0, 1, 3, 128 + SIGINT, 128 + SIGQUIT}

\* Ctrl-\ has no handler, the statuses on their way to $? are among those that
\* it may have, and the shell waits for a child there is.
Strong ==
    /\ handlers[SIGQUIT] \in {"SIG_DFL", "SIG_IGN"}
    /\ c_status \in Status
    /\ \A c \in DOMAIN children : children[c].status \in Status
    /\ pc = "wait" => i \in 1 .. Len(children)

\* The line has its heredocs.
Past == pc \in {"exec", "wait"} \/ (pc = "heredoc" /\ node > Len(line.heredocs))
Cut  == heredoc_interrupted /\ Past => ~ Last(line.heredocs).is_heredoc_end

IInv == TypeOK /\ Strong /\ Cut

(***************************************************************************)
(* Children.                                                               *)
(***************************************************************************)
ChildrenTyped ==
    children \in Seq(Child) /\ \A c \in DOMAIN children : children[c].status \in Status

\* A child with a new disposition, or done, is a child.
LEMMA SignalledType ==
    ASSUME NEW c \in Child, c.status \in Status, NEW s \in Signal
    PROVE  Signalled(c, s) \in Child /\ Signalled(c, s).status \in Status
<1>1. Delivered(c.handlers, s) \in [Signal -> Disposition]
  BY DEF Child, Delivered, Disposition
<1>2. 128 + s \in Nat /\ 128 + s \in Status
  BY DEF Signal, Status, SIGINT, SIGQUIT
<1> QED BY <1>1, <1>2 DEF Signalled, Child

\* A change to each element keeps a sequence a sequence.
LEMMA EachChanged ==
    ASSUME NEW S, NEW T, NEW s \in Seq(S), NEW f, f = [k \in DOMAIN s |-> f[k]],
           \A k \in DOMAIN s : f[k] \in T
    PROVE  f \in Seq(T) /\ Len(f) = Len(s) /\ DOMAIN f = DOMAIN s
<1>1. Len(s) \in Nat /\ DOMAIN s = 1 .. Len(s)
  BY LenProperties
<1>2. f \in [1 .. Len(s) -> T]
  BY <1>1
<1>3. f \in Seq(T)
  BY <1>1, <1>2, SeqDef
<1>4. Len(f) \in Nat /\ DOMAIN f = 1 .. Len(f) /\ DOMAIN f = DOMAIN s
  BY <1>3, LenProperties
<1>5. Len(f) = Len(s)
  BY <1>1, <1>4
<1> QED BY <1>3, <1>4, <1>5

\* The kernel's signal reaches children, and leaves children.
LEMMA KeyChildren ==
    ASSUME ChildrenTyped, NEW s \in Signal,
           children' = [c \in DOMAIN children |-> Signalled(children[c], s)]
    PROVE  ChildrenTyped' /\ Len(children') = Len(children)
<1>1. \A c \in DOMAIN children : children[c] \in Child
  BY ElementOfSeq, LenProperties DEF ChildrenTyped
<1>2. \A c \in DOMAIN children : children'[c] \in Child /\ children'[c].status \in Status
  BY <1>1, SignalledType DEF ChildrenTyped
<1>3. children' \in Seq(Child) /\ Len(children') = Len(children)
      /\ DOMAIN children' = DOMAIN children
  BY <1>2, EachChanged DEF ChildrenTyped
<1> QED BY <1>2, <1>3 DEF ChildrenTyped

\* The invariant in parts, each about variables that change together.
ShellTyped ==
    /\ pc \in {"start", "loop", "readline", "read", "heredoc", "exec", "wait",
               "ended", "killed"}
    /\ g_sig \in {0, SIGINT}
    /\ handlers \in [Signal -> Disposition] /\ handlers[SIGQUIT] \in {"SIG_DFL", "SIG_IGN"}
    /\ last_status \in Status /\ c_status \in Status
    /\ lines \in 0 .. MaxLines /\ signals \in 0 .. MaxSignals
    /\ spent \in 0 .. signals
FlagsTyped == {system_v, rl_done, heredoc_interrupted, eintr, pressed, hit} \subseteq BOOLEAN
InputTyped == line \in Lines \cup {NoLine} /\ node \in Nat \ {0} /\ body \in Nat \ {0}
WaitTyped  == i \in Nat \ {0} /\ (pc = "wait" => i \in 1 .. Len(children))

AllParts == ShellTyped /\ FlagsTyped /\ InputTyped /\ ChildrenTyped /\ WaitTyped /\ Cut

\* The invariant is its parts.
LEMMA Parts == (IInv <=> AllParts) /\ (IInv' <=> AllParts')
<1>1. Status \subseteq Nat
  BY DEF Status, SIGINT, SIGQUIT
<1>2. IInv <=> AllParts
  BY <1>1 DEF IInv, TypeOK, Strong, Status, AllParts, ShellTyped, FlagsTyped, InputTyped,
              ChildrenTyped, WaitTyped
<1>3. IInv' <=> AllParts'
  BY <1>1 DEF IInv, TypeOK, Strong, Status, AllParts, ShellTyped, FlagsTyped, InputTyped,
              ChildrenTyped, WaitTyped
<1> QED BY <1>2, <1>3

(***************************************************************************)
(* Steps.                                                                  *)
(***************************************************************************)
\* The shell starts with nothing pending.
LEMMA InitInv == Init => IInv
<1> SUFFICES ASSUME Init PROVE IInv
  OBVIOUS
<1>1. ShellTyped
  BY LinesAssumption DEF Init, ShellTyped, no_handlers, SetHandlers, Signal, Disposition,
     SIGINT, SIGQUIT, Status
<1>2. FlagsTyped
  BY DEF Init, FlagsTyped
<1>3. InputTyped
  BY DEF Init, InputTyped
<1>4. ChildrenTyped
  BY EmptySeq DEF Init, ChildrenTyped
<1>5. WaitTyped /\ Cut
  BY DEF Init, WaitTyped, Cut, Past
<1> QED BY <1>1, <1>2, <1>3, <1>4, <1>5, Parts DEF AllParts

\* The main loop between two lines: no child is touched, and no line is past
\* its heredocs.
LEMMA BetweenLinesInv ==
    ASSUME IInv,
           main_loop \/ EndOfInput \/ read_command \/ \E l \in Lines \cup {NoLine} : readline(l)
    PROVE  IInv'
<1> USE Parts DEF AllParts
<1>1. ChildrenTyped'
  BY DEF ChildrenTyped, main_loop, EndOfInput, read_command, readline, waiting
<1>2. CASE main_loop
  <2>1. ShellTyped'
    BY <1>2 DEF main_loop, ShellTyped, set_idle_sig_handlers, SetHandlers, Signal,
       Disposition, SIGINT, SIGQUIT, AfterCancel, Status, bounds, waiting
  <2>2. FlagsTyped' /\ InputTyped'
    BY <1>2 DEF main_loop, FlagsTyped, InputTyped, input, waiting
  <2>3. WaitTyped' /\ Cut'
    BY <1>2 DEF main_loop, WaitTyped, Cut, Past, waiting
  <2> QED BY <1>1, <2>1, <2>2, <2>3
<1>3. CASE EndOfInput
  <2>1. ShellTyped'
    BY <1>3 DEF EndOfInput, ShellTyped, bounds, waiting, history
  <2>2. FlagsTyped' /\ InputTyped'
    BY <1>3 DEF EndOfInput, FlagsTyped, InputTyped, input, waiting, history
  <2>3. WaitTyped' /\ Cut'
    BY <1>3 DEF EndOfInput, WaitTyped, Cut, Past, waiting
  <2> QED BY <1>1, <2>1, <2>2, <2>3
<1>4. CASE read_command
  <2>1. ShellTyped'
    BY <1>4 DEF read_command, ShellTyped, Cleared, Status, SIGINT, SIGQUIT, bounds, waiting
  <2>2. FlagsTyped'
    <3>1. heredoc_interrupted' \in {heredoc_interrupted, FALSE} /\ pressed' = FALSE
      BY <1>4 DEF read_command
    <3>2. UNCHANGED <<system_v, rl_done, eintr, hit>>
      BY <1>4 DEF read_command, waiting
    <3> QED BY <3>1, <3>2 DEF FlagsTyped
  <2>4. InputTyped'
    BY <1>4 DEF read_command, InputTyped
  <2>3. WaitTyped' /\ Cut'
    BY <1>4 DEF read_command, WaitTyped, Cut, Past, waiting
  <2> QED BY <1>1, <2>1, <2>2, <2>3, <2>4
<1>5. ASSUME NEW l \in Lines \cup {NoLine}, readline(l) PROVE IInv'
  <2>1. ShellTyped'
    BY <1>5, LinesAssumption DEF readline, ShellTyped, waiting, history
  <2>2. FlagsTyped' /\ InputTyped'
    BY <1>5 DEF readline, FlagsTyped, InputTyped, waiting, history
  <2>3. WaitTyped' /\ Cut'
    BY <1>5 DEF readline, WaitTyped, Cut, Past, waiting
  <2> QED BY <1>1, <2>1, <2>2, <2>3
<1> QED BY <1>2, <1>3, <1>4, <1>5

\* A line, and no line, has a sequence of heredocs and one of children.
LEMMA LineTyped ==
    ASSUME InputTyped
    PROVE  line.heredocs \in Seq(Heredocs) /\ line.children \in Seq(Program)
           /\ line.status \in {0, 1}
<1>1. CASE line \in Lines
  BY <1>1, LinesAssumption DEF Line
<1>2. CASE line = NoLine
  BY <1>2, EmptySeq DEF NoLine
<1> QED BY <1>1, <1>2 DEF InputTyped

\* The heredocs: a node that is done with a cut body gives the line up, unless
\* no descriptor tells of it; the last node is the one that Cut is about.
LEMMA HeredocInv ==
    ASSUME IInv, read_heredoc \/ call_heredoc \/ exec_handler PROVE IInv'
<1> USE Parts DEF AllParts
<1>1. line.heredocs \in Seq(Heredocs) /\ Len(line.heredocs) \in Nat
  BY LineTyped, LenProperties
<1>2. ChildrenTyped'
  BY DEF ChildrenTyped, read_heredoc, call_heredoc, exec_handler, waiting
<1>3. CASE read_heredoc
  <2>1. line.heredocs[node] \in Heredocs
    BY <1>1, <1>3, ElementOfSeq DEF read_heredoc, AtHeredocs, InputTyped
  <2>2. ShellTyped' /\ WaitTyped'
    BY <1>3 DEF read_heredoc, ShellTyped, WaitTyped, AtHeredocs, bounds, waiting, history
  <2>3. FlagsTyped'
    BY <1>3 DEF read_heredoc, FlagsTyped, waiting, history
  <2>4. InputTyped'
    BY <1>3, <2>1 DEF read_heredoc, InputTyped, Heredocs
  <2>5. Cut'
    BY <1>3 DEF read_heredoc, Cut, Past, AtHeredocs, InputTyped
  <2> QED BY <1>2, <2>2, <2>3, <2>4, <2>5
<1>4. CASE call_heredoc
  <2>1. ShellTyped' /\ WaitTyped'
    BY <1>4 DEF call_heredoc, ShellTyped, WaitTyped, bounds, waiting, history
  <2>2. FlagsTyped' /\ InputTyped'
    BY <1>4 DEF call_heredoc, FlagsTyped, InputTyped, waiting, history
  <2>3. Cut'
    <3>1. SUFFICES ASSUME heredoc_interrupted, pc' = "heredoc", node + 1 > Len(line.heredocs)
                   PROVE  ~ Last(line.heredocs).is_heredoc_end
      BY <1>4 DEF call_heredoc, Cut, Past
    <3>2. node = Len(line.heredocs)
      BY <1>1, <1>4, <3>1 DEF call_heredoc, AtHeredocs, InputTyped
    <3>3. ~ line.heredocs[node].is_heredoc_end
      BY <1>4, <3>1 DEF call_heredoc, fd_num
    <3> QED BY <3>2, <3>3 DEF Last
  <2> QED BY <1>2, <2>1, <2>2, <2>3
<1>5. CASE exec_handler
  <2>1. ShellTyped' /\ WaitTyped'
    BY <1>5 DEF exec_handler, ShellTyped, WaitTyped, bounds, waiting, history
  <2>2. FlagsTyped' /\ InputTyped'
    BY <1>5 DEF exec_handler, FlagsTyped, InputTyped, input, waiting, history
  <2>3. Cut'
    BY <1>5 DEF exec_handler, Cut, Past, input
  <2> QED BY <1>2, <2>1, <2>2, <2>3
<1> QED BY <1>3, <1>4, <1>5

\* A builtin leaves its status.
LEMMA BuiltinInv ==
    ASSUME IInv, exec_builtin PROVE IInv'
<1> USE Parts DEF AllParts
<1>1. ChildrenTyped' /\ WaitTyped' /\ Cut'
  BY DEF exec_builtin, ChildrenTyped, WaitTyped, Cut, Past, waiting
<1>2. ShellTyped'
  BY LineTyped DEF exec_builtin, ShellTyped, Status, bounds, waiting, history
<1>3. FlagsTyped' /\ InputTyped'
  BY DEF exec_builtin, FlagsTyped, InputTyped, input, waiting, history
<1> QED BY <1>1, <1>2, <1>3

\* A fork adds a child, which has the handlers of the shell; the last one
\* starts the wait, at the first.
LEMMA ForkInv ==
    ASSUME IInv, exec_cmd_handler PROVE IInv'
<1> USE Parts DEF AllParts
<1> DEFINE k == Len(children) + 1
           child == [program |-> line.children[k], at |-> "forked", handlers |-> handlers,
                     status |-> 0]
<1>1. children \in Seq(Child) /\ Len(children) \in Nat
  BY LenProperties DEF ChildrenTyped
<1>2. line.children[k] \in Program
  <2>1. line.children \in Seq(Program) /\ Len(line.children) \in Nat
    BY LineTyped, LenProperties
  <2>2. k \in 1 .. Len(line.children)
    BY <1>1, <2>1 DEF exec_cmd_handler
  <2> QED BY <2>1, <2>2, ElementOfSeq
<1>3. child \in Child
  BY <1>2 DEF Child, ShellTyped
<1>4. children' = Append(children, child)
  BY DEF exec_cmd_handler
<1>5. /\ children' \in Seq(Child) /\ Len(children') = k
      /\ \A c \in 1 .. Len(children) : children'[c] = children[c]
      /\ children'[k] = child
  <2> HIDE DEF child
  <2> QED BY <1>1, <1>3, <1>4, AppendProperties
<1>6. DOMAIN children = 1 .. Len(children) /\ DOMAIN children' = 1 .. k
  BY <1>1, <1>5, LenProperties
<1>7. \A c \in DOMAIN children' : children'[c].status \in Status
  <2>1. SUFFICES ASSUME NEW c \in 1 .. k PROVE children'[c].status \in Status
    BY <1>6
  <2>2. CASE c = k
    BY <1>5, <2>2 DEF Status
  <2>3. CASE c # k
    <3>1. c \in 1 .. Len(children)
      BY <1>1, <2>3
    <3> QED BY <1>5, <1>6, <3>1 DEF ChildrenTyped
  <2> QED BY <2>2, <2>3
<1>8. ChildrenTyped'
  BY <1>5, <1>7 DEF ChildrenTyped
<1>9. ShellTyped'
  BY DEF exec_cmd_handler, ShellTyped, set_parent_sig_handlers, SetHandlers, Signal,
     Disposition, SIGINT, SIGQUIT, Status, bounds
<1>10. FlagsTyped' /\ InputTyped'
  BY DEF exec_cmd_handler, FlagsTyped, InputTyped, input
<1>11. WaitTyped'
  <2>1. i' = 1
    BY DEF exec_cmd_handler, first_waited
  <2>2. 1 \in 1 .. Len(children')
    BY <1>1, <1>5
  <2> QED BY <2>1, <2>2 DEF WaitTyped
<1>12. Cut'
  BY DEF exec_cmd_handler, Cut, Past, input
<1> QED BY <1>8, <1>9, <1>10, <1>11, <1>12

\* One turn of the wait.
LEMMA WaitInv ==
    ASSUME IInv, wait_children_status PROVE IInv'
<1> USE Parts DEF AllParts
<1>1. PICK status \in Status : wait_turn(status)
  <2>1. CASE pc = "wait" /\ children[i].at = "done" /\ wait_turn(children[i].status)
    <3>1. i \in DOMAIN children
      BY <2>1, LenProperties DEF WaitTyped, ChildrenTyped
    <3> QED BY <2>1, <3>1 DEF ChildrenTyped
  <2>2. CASE eintr /\ wait_turn(c_status)
    BY <2>2 DEF ShellTyped
  <2> QED BY <2>1, <2>2 DEF wait_children_status
<1>2. Len(children) \in Nat /\ pc = "wait" /\ i \in 1 .. Len(children)
  BY <1>1, LenProperties DEF wait_turn, ChildrenTyped, WaitTyped
<1>3. ChildrenTyped'
  BY <1>1, EmptySeq DEF wait_turn, ChildrenTyped
<1>4. ShellTyped'
  BY <1>1 DEF wait_turn, ShellTyped, bounds, history
<1>5. FlagsTyped' /\ InputTyped'
  BY <1>1 DEF wait_turn, FlagsTyped, InputTyped, input, history
<1>6. WaitTyped'
  BY <1>1, <1>2 DEF wait_turn, WaitTyped
<1>7. Cut'
  BY <1>1, <1>2 DEF wait_turn, Cut, Past, input
<1> QED BY <1>3, <1>4, <1>5, <1>6, <1>7

\* What changes children alone leaves the shell as it is.
LEMMA ChildStep ==
    ASSUME IInv, UNCHANGED <<shell, input, waiting, bounds, history>>,
           ChildrenTyped', Len(children') = Len(children)
    PROVE  IInv'
<1> USE Parts DEF AllParts
<1>1. ShellTyped' /\ WaitTyped'
  BY DEF ShellTyped, WaitTyped, shell, waiting, bounds, history
<1>2. FlagsTyped' /\ InputTyped'
  BY DEF FlagsTyped, InputTyped, shell, input, waiting, history
<1>3. Cut'
  BY DEF Cut, Past, shell, input
<1> QED BY <1>1, <1>2, <1>3

\* A child sets its handlers, or ends.
LEMMA KidInv ==
    ASSUME IInv, NEW c, Kid(c) PROVE IInv'
<1> USE Parts DEF AllParts
<1>1. c \in DOMAIN children /\ children \in Seq(Child)
  BY DEF Kid, ChildrenTyped
<1>2. PICK kid \in Child : kid.status \in Status /\ children' = [children EXCEPT ![c] = kid]
  <2>1. children[c] \in Child /\ children[c].status \in Status
    BY <1>1, ElementOfSeq, LenProperties DEF ChildrenTyped
  <2>2. CASE child_setup(c)
    <3> DEFINE kid == [children[c] EXCEPT !.at = "program", !.handlers = no_handlers]
    <3>1. no_handlers \in [Signal -> Disposition]
      BY DEF no_handlers, SetHandlers, Disposition
    <3>2. kid \in Child /\ kid.status \in Status
      BY <2>1, <3>1 DEF Child
    <3>3. children' = [children EXCEPT ![c] = kid]
      BY <1>1, <2>1, <2>2 DEF child_setup, set_child_sig_handlers, Child
    <3> HIDE DEF kid
    <3> QED BY <3>2, <3>3
  <2>3. CASE child_exit(c)
    <3>1. PICK v \in {0, 1, 3} :
            children' = [children EXCEPT ![c].at = "done", ![c].status = v]
      BY <2>3 DEF child_exit
    <3> DEFINE kid == [children[c] EXCEPT !.at = "done", !.status = v]
    <3>2. v \in Nat /\ v \in Status
      BY <3>1 DEF Status
    <3>3. kid \in Child /\ kid.status \in Status
      BY <2>1, <3>2 DEF Child
    <3>4. children' = [children EXCEPT ![c] = kid]
      BY <1>1, <2>1, <3>1 DEF Child
    <3> HIDE DEF kid
    <3> QED BY <3>3, <3>4
  <2> QED BY <2>2, <2>3 DEF Kid
<1>3. ChildrenTyped' /\ Len(children') = Len(children)
  <2>1. \A d \in DOMAIN children : children'[d] \in Child /\ children'[d].status \in Status
    BY <1>1, <1>2, ElementOfSeq, LenProperties DEF ChildrenTyped
  <2>2. children' = [d \in DOMAIN children |-> children'[d]]
    BY <1>2
  <2>3. children' \in Seq(Child) /\ Len(children') = Len(children)
        /\ DOMAIN children' = DOMAIN children
    BY <1>1, <2>1, <2>2, EachChanged
  <2> QED BY <2>1, <2>3 DEF ChildrenTyped
<1>4. UNCHANGED <<shell, input, waiting, bounds, history>>
  BY DEF Kid, child_setup, child_exit
<1> QED BY <1>3, <1>4, ChildStep

\* A key: the handlers that run, and what they set.
LEMMA KeyInv ==
    ASSUME IInv, NEW s \in Signal, Key(s) PROVE IInv'
<1> USE Parts DEF AllParts
<1>1. ChildrenTyped' /\ Len(children') = Len(children)
  BY KeyChildren DEF Key
<1>2. handlers' \in [Signal -> Disposition] /\ handlers'[SIGQUIT] \in {"SIG_DFL", "SIG_IGN"}
  BY DEF Key, Delivered, ShellTyped, Disposition, Handled, Signal
<1>3. g_sig' \in {0, SIGINT}
  <2>1. Handled(handlers, s) => s = SIGINT
    BY DEF Handled, ShellTyped, Signal
  <2> QED BY <2>1 DEF Key, ShellTyped
<1>4. ShellTyped'
  BY <1>2, <1>3, LinesAssumption DEF Key, ShellTyped
<1>5. FlagsTyped'
  <2>1. eintr' \in BOOLEAN
    BY DEF Key, FlagsTyped
  <2>2. rl_done' \in BOOLEAN /\ pressed' \in BOOLEAN /\ hit' \in BOOLEAN
    BY DEF Key
  <2>3. UNCHANGED <<system_v, heredoc_interrupted>>
    BY DEF Key
  <2> QED BY <2>1, <2>2, <2>3 DEF FlagsTyped
<1>6. InputTyped'
  BY DEF Key, InputTyped, input
<1>7. WaitTyped' /\ Cut'
  BY <1>1 DEF Key, WaitTyped, Cut, Past, input
<1> QED BY <1>1, <1>4, <1>5, <1>6, <1>7

\* Every step keeps the invariant.
LEMMA StepInv ==
    ASSUME IInv, [Next]_vars PROVE IInv'
<1>1. CASE Shell
  BY <1>1, BetweenLinesInv, HeredocInv, BuiltinInv, ForkInv, WaitInv DEF Shell
<1>2. ASSUME NEW c \in 1 .. MaxChildren, Kid(c) PROVE IInv'
  BY <1>2, KidInv
<1>3. ASSUME NEW s \in Signal, Key(s) PROVE IInv'
  BY <1>3, KeyInv
<1>4. CASE (\E l \in Lines \cup {NoLine} : readline(l)) \/ EndOfInput
  BY <1>4, BetweenLinesInv
<1>5. CASE read_heredoc
  BY <1>5, HeredocInv
<1>6. CASE UNCHANGED vars
  <2>1. ChildrenTyped' /\ Len(children') = Len(children)
    BY <1>6, Parts DEF vars, AllParts, ChildrenTyped
  <2> QED BY <1>6, <2>1, ChildStep DEF vars
<1> QED BY <1>1, <1>2, <1>3, <1>4, <1>5, <1>6 DEF Next

(***************************************************************************)
(* What becomes of a Ctrl-C: the second invariant, over the first.         *)
(***************************************************************************)
Between == {"loop", "readline", "read", "ended"}

\* A Ctrl-C is in g_sig, or main_loop has already told of it: $? is 130, and
\* until the next line nothing else is written there.
Reported ==
    /\ g_sig = SIGINT => pressed
    /\ pressed /\ pc # "killed" => g_sig = SIGINT \/ (pc \in Between /\ last_status = 130)

\* From the first main_loop on, Ctrl-\ is ignored and a Ctrl-C has a handler,
\* unless it is one of System V and has run since the shell last set it.
Armed ==
    /\ pc = "start" => handlers = no_handlers /\ ~ heredoc_interrupted
    /\ pc \notin {"start", "killed"} =>
         /\ handlers[SIGQUIT] = "SIG_IGN" /\ handlers[SIGINT] # "SIG_IGN"
         /\ handlers[SIGINT] = "SIG_DFL" => system_v /\ spent > 0

\* The children before the one waited for are done, unless a wait was cut.
Waited ==
    pc = "wait" => \/ system_v /\ pressed
                   \/ ~ eintr /\ \A c \in 1 .. i - 1 : children[c].at = "done"

Told == Reported /\ Armed /\ Waited

\* Told holds at the start,
LEMMA InitTold == Init => Told
  BY DEF Init, Told, Reported, Armed, Waited, SIGINT

\* Between two lines: main_loop sets the handlers, and trades a g_sig that cut
\* a heredoc for 130; read_command takes the rest.
LEMMA BetweenLinesTold ==
    ASSUME IInv, Told,
           main_loop \/ EndOfInput \/ read_command \/ \E l \in Lines \cup {NoLine} : readline(l)
    PROVE  Told'
<1> USE Parts DEF AllParts, Told
<1>1. CASE main_loop
  <2>1. Reported'
    BY <1>1 DEF main_loop, Reported, Between, Armed, ShellTyped, AfterCancel, SIGINT
  <2>2. Armed' /\ Waited'
    BY <1>1 DEF main_loop, Armed, Waited, set_idle_sig_handlers, SetHandlers, Signal,
       SIGINT, SIGQUIT
  <2> QED BY <2>1, <2>2
<1>2. CASE EndOfInput
  BY <1>2 DEF EndOfInput, Reported, Between, Armed, Waited, bounds, history
<1>3. CASE read_command
  BY <1>3 DEF read_command, Reported, Armed, Waited, Cleared, SIGINT, bounds
<1>4. ASSUME NEW l \in Lines \cup {NoLine}, readline(l) PROVE Told'
  BY <1>4 DEF readline, Reported, Between, Armed, Waited, history
<1> QED BY <1>1, <1>2, <1>3, <1>4

\* Up to the fork of the last child, no status is written and no handler of
\* the shell is left at SIG_DFL.
LEMMA LineTold ==
    ASSUME IInv, Told,
           read_heredoc \/ call_heredoc \/ exec_handler \/ exec_builtin \/ exec_cmd_handler
    PROVE  Told'
<1> USE Parts DEF AllParts, Told
<1>1. CASE read_heredoc \/ call_heredoc \/ exec_handler
  BY <1>1 DEF read_heredoc, call_heredoc, exec_handler, AtHeredocs, Reported, Between, Armed,
     Waited, bounds, history
<1>2. CASE exec_builtin
  BY <1>2 DEF exec_builtin, Reported, Between, Armed, Waited, bounds, history
<1>3. CASE exec_cmd_handler
  <2>1. Reported'
    BY <1>3 DEF exec_cmd_handler, Reported, Between, history
  <2>2. Armed'
    BY <1>3 DEF exec_cmd_handler, Armed, set_parent_sig_handlers, SetHandlers, Signal,
       SIGINT, SIGQUIT
  <2>3. Waited'
    BY <1>3 DEF exec_cmd_handler, Waited, first_waited
  <2> QED BY <2>1, <2>2, <2>3
<1> QED BY <1>1, <1>2, <1>3

\* A turn of the wait moves on from a child that is done, or after a cut.
LEMMA WaitTold ==
    ASSUME IInv, Told, wait_children_status PROVE Told'
<1> USE Parts DEF AllParts, Told
<1>1. PICK status : wait_turn(status)
  BY DEF wait_children_status
<1>2. Reported' /\ Armed'
  BY <1>1 DEF wait_turn, Reported, Between, Armed, bounds, history
<1>3. Waited'
  <2>1. ASSUME pc' = "wait", ~ (system_v /\ pressed)
        PROVE  \A c \in 1 .. i' - 1 : children'[c].at = "done"
    <3>1. pc = "wait" /\ i' = i + 1 /\ children' = children /\ i \in Nat
      BY <1>1, <2>1 DEF wait_turn, WaitTyped
    <3>2. children[i].at = "done" /\ \A c \in 1 .. i - 1 : children[c].at = "done"
      BY <2>1, <3>1 DEF wait_children_status, Waited
    <3> QED BY <3>1, <3>2
  <2> QED BY <1>1, <2>1 DEF wait_turn, Waited, history
<1> QED BY <1>2, <1>3

\* A child that is done stays done.
LEMMA KidTold ==
    ASSUME IInv, Told, NEW c, Kid(c) PROVE Told'
<1> USE Parts DEF AllParts, Told
<1>1. UNCHANGED <<shell, input, waiting, bounds, history>> /\ children # << >>
  <2>1. DOMAIN << >> = {}
    BY EmptySeq
  <2> QED BY <2>1 DEF Kid, child_setup, child_exit
<1>2. Reported' /\ Armed'
  BY <1>1 DEF Reported, Armed, shell, bounds, history
<1>3. ASSUME NEW d \in DOMAIN children, children[d].at = "done" PROVE children'[d].at = "done"
  <2>1. d # c /\ children'[d] = children[d]
    BY <1>3 DEF Kid, child_setup, child_exit
  <2> QED BY <1>3, <2>1
<1>4. Waited'
  <2>1. pc = "wait" => i \in 1 .. Len(children) /\ DOMAIN children = 1 .. Len(children)
                       /\ Len(children) \in Nat
    BY LenProperties DEF WaitTyped, ChildrenTyped
  <2> QED BY <1>1, <1>3, <2>1 DEF Waited, shell, waiting, history
<1> QED BY <1>2, <1>4

\* A key: it sets g_sig, or it ends the shell.
LEMMA KeyTold ==
    ASSUME IInv, Told, NEW s \in Signal, Key(s) PROVE Told'
<1> USE Parts DEF AllParts, Told
<1>1. pc \notin {"killed", "ended"} /\ (s = SIGINT => spent' > 0) /\ (spent > 0 => spent' > 0)
  BY DEF Key, ShellTyped
<1>2. Handled(handlers, s) => s = SIGINT
  BY DEF Handled, ShellTyped, Signal
<1>3. Reported'
  <2>1. s = SIGINT /\ pc' # "killed" => Handled(handlers, s)
    <3>1. handlers[SIGINT] \in Disposition
      BY DEF ShellTyped, Signal
    <3>2. pc = "start" => handlers[SIGINT] = "SIG_DFL"
      BY DEF Armed, no_handlers, SetHandlers, Signal
    <3> QED BY <1>1, <3>1, <3>2 DEF Key, Handled, Armed, Disposition
  <2>2. g_sig' = SIGINT => pressed'
    BY <1>2 DEF Key, Reported
  <2>3. pressed' /\ pc' # "killed" =>
          g_sig' = SIGINT \/ (pc' \in Between /\ last_status' = 130)
    <3>1. CASE s = SIGINT
      BY <2>1, <3>1 DEF Key
    <3>2. CASE s # SIGINT
      BY <1>1, <1>2, <3>2 DEF Key, Reported
    <3> QED BY <3>1, <3>2
  <2> QED BY <2>2, <2>3 DEF Reported
<1>4. Armed'
  <2>1. CASE pc = "start"
    <3>1. handlers[s] = "SIG_DFL"
      BY <2>1 DEF Armed, no_handlers, SetHandlers
    <3>2. pc' = "killed"
      BY <3>1 DEF Key
    <3> QED BY <3>2 DEF Armed
  <2>2. CASE pc # "start"
    <3>1. pc' # "killed" =>
            /\ handlers'[SIGQUIT] = "SIG_IGN" /\ handlers'[SIGINT] # "SIG_IGN"
            /\ handlers'[SIGINT] = "SIG_DFL" => system_v' /\ spent' > 0
      <4>1. system_v' = system_v /\ handlers' = Delivered(handlers, s)
        BY DEF Key
      <4>2. \/ Delivered(handlers, s) = handlers
            \/ /\ Delivered(handlers, s) = [handlers EXCEPT ![SIGINT] = "SIG_DFL"]
               /\ system_v /\ s = SIGINT
        BY <1>2 DEF Delivered
      <4> QED BY <1>1, <2>2, <4>1, <4>2 DEF Armed, ShellTyped, Signal, SIGINT, SIGQUIT
    <3>2. pc' # "start"
      BY <2>2 DEF Key
    <3> QED BY <3>1, <3>2 DEF Armed
  <2> QED BY <2>1, <2>2
<1>5. Waited'
  <2>1. SUFFICES ASSUME pc' = "wait", ~ (system_v' /\ pressed')
                 PROVE  ~ eintr' /\ \A c \in 1 .. i' - 1 : children'[c].at = "done"
    BY DEF Waited
  <2>2. pc = "wait" /\ system_v' = system_v /\ i' = i /\ ~ (system_v /\ pressed)
        /\ ~ (system_v /\ s = SIGINT)
    BY <2>1 DEF Key
  <2>3. ~ eintr /\ \A c \in 1 .. i - 1 : children[c].at = "done"
    BY <2>2 DEF Waited
  <2>4. ~ eintr'
    BY <1>2, <2>2, <2>3 DEF Key
  <2>5. ASSUME NEW c \in 1 .. i - 1 PROVE children'[c].at = "done"
    <3>1. c \in DOMAIN children
      BY <2>2, LenProperties DEF WaitTyped, ChildrenTyped
    <3>2. children[c] \in Child
      BY <3>1, ElementOfSeq, LenProperties DEF ChildrenTyped
    <3>3. children'[c] = Signalled(children[c], s)
      BY <3>1 DEF Key
    <3> QED BY <2>3, <3>2, <3>3 DEF Signalled, Child
  <2> QED BY <2>2, <2>4, <2>5
<1> QED BY <1>3, <1>4, <1>5

\* every step keeps it,
LEMMA StepTold ==
    ASSUME IInv, Told, [Next]_vars PROVE Told'
<1>1. CASE Shell
  BY <1>1, BetweenLinesTold, LineTold, WaitTold DEF Shell
<1>2. ASSUME NEW c \in 1 .. MaxChildren, Kid(c) PROVE Told'
  BY <1>2, KidTold
<1>3. ASSUME NEW s \in Signal, Key(s) PROVE Told'
  BY <1>3, KeyTold
<1>4. CASE (\E l \in Lines \cup {NoLine} : readline(l)) \/ EndOfInput
  BY <1>4, BetweenLinesTold
<1>5. CASE read_heredoc
  BY <1>5, LineTold
<1>6. CASE UNCHANGED vars
  BY <1>6 DEF vars, shell, waiting, bounds, history, Told, Reported, Armed, Waited
<1> QED BY <1>1, <1>2, <1>3, <1>4, <1>5, <1>6 DEF Next

(***************************************************************************)
(* The theorems.                                                           *)
(***************************************************************************)
\* The invariant holds, for every set of lines and any number of keys.
LEMMA Inductive == Spec => []IInv
<1>1. Init => IInv
  BY InitInv
<1>2. IInv /\ [Next]_vars => IInv'
  BY StepInv
<1> QED BY <1>1, <1>2, PTL DEF Spec

\* For every set of lines, and any number of lines and keys: $? is one of the
\* statuses that a child, a builtin or a key leaves, Ctrl-\ never sets g_sig,
\* and the wait stays among the children.
THEOREM SignalsTyped == Spec => []TypeOK
<1>1. IInv => TypeOK
  BY DEF IInv
<1> QED BY <1>1, Inductive, PTL

\* Whatever the heredocs of a line are and whenever Ctrl-C comes: a line that
\* was cancelled in one runs only if its last heredoc is superseded.
THEOREM CancelledLineStops == Spec => []CancelledNotRun
<1>1. IInv => CancelledNotRun
  BY DEF IInv, Cut, Past, CancelledNotRun
<1> QED BY <1>1, Inductive, PTL
\* and so it always holds.
LEMMA AlwaysTold == Spec => [](IInv /\ Told)
<1>1. Init => IInv /\ Told
  BY InitInv, InitTold
<1>2. IInv /\ Told /\ [Next]_vars => IInv' /\ Told'
  BY StepInv, StepTold
<1> QED BY <1>1, <1>2, PTL DEF Spec

\* Wherever Ctrl-C comes, and however often: the next line that is taken finds
\* 130 in $?, and what the last line left there if there was none.
THEOREM CtrlCReported == Spec => InterruptReported
<1>1. ASSUME IInv, Told, [Next]_vars, pc = "read", pc' # "read", pc' # "killed"
      PROVE  last_status' = IF pressed THEN 130 ELSE last_status
  <2>1. read_command
    BY <1>1 DEF Next, Shell, main_loop, readline, EndOfInput, read_heredoc, call_heredoc,
       exec_handler, exec_builtin, exec_cmd_handler, wait_children_status, wait_turn,
       AtHeredocs, Kid, child_setup, child_exit, Key, vars, shell
  <2>2. g_sig \in {0, SIGINT}
    BY <1>1, Parts DEF AllParts, ShellTyped
  <2> QED BY <1>1, <2>1, <2>2 DEF read_command, Told, Reported, Between, SIGINT
<1>2. IInv /\ Told /\ [Next]_vars =>
        [pc = "read" /\ pc' # "read" /\ pc' # "killed" =>
           last_status' = IF pressed THEN 130 ELSE last_status]_vars
  BY <1>1
<1> QED BY <1>2, AlwaysTold, PTL DEF Spec, InterruptReported

\* Whatever was pressed before the line: only a Ctrl-C after read_command has
\* cleared g_sig cuts a heredoc.
THEOREM HeredocCutByItsOwn == Spec => CutByItsOwn
<1>1. ASSUME IInv, Told, [Next]_vars, heredoc_interrupted', ~ heredoc_interrupted
      PROVE  pressed
  <2>1. read_heredoc
    BY <1>1 DEF Next, Shell, main_loop, readline, EndOfInput, read_command, call_heredoc,
       exec_handler, exec_builtin, exec_cmd_handler, wait_children_status, wait_turn,
       Kid, child_setup, child_exit, Key, vars, shell
  <2> QED BY <1>1, <2>1 DEF read_heredoc, Told, Reported
<1>2. IInv /\ Told /\ [Next]_vars =>
        [heredoc_interrupted' /\ ~ heredoc_interrupted => pressed]_vars
  BY <1>1
<1> QED BY <1>2, AlwaysTold, PTL DEF Spec, CutByItsOwn

\* For every line and any number of keys: once main_loop has run, a key ends the
\* shell only if it is Ctrl-C, a handler of System V serves once, and an earlier
\* Ctrl-C used up the one that main_loop or the last fork had set.
THEOREM ShellOutlivesKeys == Spec => ShellSurvives
<1>1. ASSUME IInv, Told, [Next]_vars, pc \notin {"start", "killed"}, pc' = "killed"
      PROVE  system_v /\ spent > 0 /\ spent' = spent + 1
  <2>1. PICK s \in Signal : Key(s)
    BY <1>1 DEF Next, Shell, main_loop, readline, EndOfInput, read_command,
       call_heredoc, exec_handler, exec_builtin, exec_cmd_handler, wait_children_status,
       wait_turn, read_heredoc, AtHeredocs, Kid, child_setup, child_exit, shell, vars
  <2>2. handlers[s] = "SIG_DFL"
    BY <1>1, <2>1 DEF Key
  <2>3. s = SIGINT
    BY <1>1, <2>2 DEF Told, Armed, Signal
  <2> QED BY <1>1, <2>1, <2>2, <2>3 DEF Told, Armed, Key
<1>2. IInv /\ Told /\ [Next]_vars =>
        [pc \notin {"start", "killed"} /\ pc' = "killed" =>
           system_v /\ spent > 0 /\ spent' = spent + 1]_vars
  BY <1>1
<1> QED BY <1>2, AlwaysTold, PTL DEF Spec, ShellSurvives

\* For any number of children, ending in any order: the shell leaves the line
\* with all of them done and the status of the last, unless a Ctrl-C cut the
\* wait of a System V shell.
THEOREM AllWaitedFor == Spec => WaitsForAll
<1>1. ASSUME IInv, Told, [Next]_vars, pc = "wait", pc' = "loop", ~ (system_v /\ pressed)
      PROVE  /\ \A c \in DOMAIN children : children[c].at = "done"
             /\ last_status' = Last(children).status
  <2>1. wait_children_status
    BY <1>1 DEF Next, Shell, main_loop, readline, EndOfInput, read_command, read_heredoc,
       call_heredoc, exec_handler, exec_builtin, exec_cmd_handler,
       AtHeredocs, Kid, child_setup, child_exit, Key, vars, shell
  <2>2. ~ eintr /\ \A c \in 1 .. i - 1 : children[c].at = "done"
    BY <1>1 DEF Told, Waited
  <2>3. children[i].at = "done" /\ wait_turn(children[i].status)
    BY <2>1, <2>2 DEF wait_children_status
  <2>4. i = Len(children) /\ last_status' = children[i].status
    BY <1>1, <2>3 DEF wait_turn
  <2>5. Len(children) \in Nat /\ DOMAIN children = 1 .. Len(children)
    BY <1>1, Parts, LenProperties DEF AllParts, ChildrenTyped
  <2>6. \A c \in DOMAIN children : children[c].at = "done"
    BY <2>2, <2>3, <2>4, <2>5
  <2> QED BY <2>4, <2>6 DEF Last
<1>2. IInv /\ Told /\ [Next]_vars =>
        [pc = "wait" /\ pc' = "loop" =>
           \/ /\ \A c \in DOMAIN children : children[c].at = "done"
              /\ last_status' = Last(children).status
           \/ system_v /\ pressed]_vars
  BY <1>1
<1> QED BY <1>2, AlwaysTold, PTL DEF Spec, WaitsForAll
=============================================================================
