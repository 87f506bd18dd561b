------------------------------ MODULE Signals ------------------------------
(* Ctrl-C and Ctrl-\ at the prompt, in a heredoc and while a line runs         *)
(* (srcs/signal, main.c, srcs/heredoc): the main loop with its g_sig, and the  *)
(* children of one pipeline, which the terminal interrupts with the shell.     *)
(*                                                                            *)
(* The shell reads from a terminal.  A line is its heredocs and its children;  *)
(* what they do otherwise is the matter of Executor.                           *)
EXTENDS Integers, SequencesExt

CONSTANTS
    Lines,          \* lines that may be typed
    MaxLines,       \* bound: lines of a session
    MaxSignals      \* bound: signals of a session

\* What the program of a child does: "stays" runs until it is killed, "catches"
\* has a handler of its own for SIGINT.
Program == {"ends", "fails", "stays", "catches"}

\* The redirects of a command with a heredoc: how many bodies are read, and
\* whether its last input is a heredoc.
Heredocs == [bodies : Nat \ {0}, is_heredoc_end : BOOLEAN]

\* A line without children is a builtin that returns status.
Line == [heredocs : Seq(Heredocs), children : Seq(Program), status : {0, 1}]

ASSUME LinesAssumption == Lines \subseteq Line /\ MaxLines \in Nat /\ MaxSignals \in Nat

VARIABLES
    system_v,               \* what signal() is: see Delivered
    pc,                     \* where the shell is
    g_sig,
    handlers,               \* of the shell, by signal
    rl_done,                \* readline returns what it has
    heredoc_interrupted,
    last_status,
    line, node, body,       \* the line, the heredocs and the body being read
    children,
    i, c_status,            \* the loop of wait_children_status
    eintr,                  \* waitpid is interrupted
    lines, signals,         \* counters
    pressed,                \* history: Ctrl-C since a line was last taken
    hit,                    \* history: a Ctrl-C found all children interruptible
    spent                   \* history: Ctrl-C since the shell last set its handlers

waiting == <<i, c_status, eintr>>
shell == <<system_v, pc, g_sig, handlers, rl_done, heredoc_interrupted, last_status>>
input == <<line, node, body>>
bounds == <<lines, signals>>
history == <<pressed, hit, spent>>
vars == <<shell, input, children, waiting, bounds, history>>

SIGINT  == 2
SIGQUIT == 3
Signal  == {SIGINT, SIGQUIT}

NoLine == [heredocs |-> << >>, children |-> << >>, status |-> 0]

(***************************************************************************)
(* Dispositions.                                                           *)
(***************************************************************************)
Disposition == {"SIG_DFL", "SIG_IGN", "set_global_sig_variable", "set_exec_handler"}

SetHandlers(int, quit) == [s \in Signal |-> IF s = SIGINT THEN int ELSE quit]

no_handlers == SetHandlers("SIG_DFL", "SIG_DFL")
set_parent_sig_handlers == SetHandlers("set_exec_handler", "SIG_IGN")

\* Mutant of set_idle_sig_handlers: the handlers are set once, not at every prompt.
SetOnce == IF pc = "start" THEN SetHandlers("set_global_sig_variable", "SIG_IGN")
           ELSE handlers

set_idle_sig_handlers == SetHandlers("set_global_sig_variable", "SIG_IGN")

\* Mutant of set_child_sig_handlers: only SIGQUIT is set.
QuitOnly(h) == [h EXCEPT ![SIGQUIT] = "SIG_DFL"]

set_child_sig_handlers(h) == no_handlers

Handled(h, s) == h[s] \in {"set_global_sig_variable", "set_exec_handler"}

\* signals.h defines _POSIX_C_SOURCE, which makes signal() on glibc that of
\* System V: a handler runs once and leaves SIG_DFL, and waitpid is not
\* restarted after it.  On macOS the handler stays and waitpid is restarted.
Delivered(h, s) == IF system_v /\ Handled(h, s) THEN [h EXCEPT ![s] = "SIG_DFL"] ELSE h

(***************************************************************************)
(* Children.                                                               *)
(***************************************************************************)
\* at is "forked" (before set_child_sig_handlers), "program" or "done".
Child == [program : Program, at : {"forked", "program", "done"},
          handlers : [Signal -> Disposition], status : Nat]

Catches(c, s) == c.at = "program" /\ c.program = "catches" /\ s = SIGINT

Interruptible(c, s) == c.handlers[s] = "SIG_DFL" /\ ~ Catches(c, s)

\* Mutant of Signalled: the status is the signal.
RawSignal(c, s) == IF c.at # "done" /\ Interruptible(c, s)
                   THEN [c EXCEPT !.at = "done", !.status = s] ELSE c

Signalled(c, s) == IF c.at # "done" /\ Interruptible(c, s)
                   THEN [c EXCEPT !.at = "done", !.status = 128 + s]
                   ELSE [c EXCEPT !.handlers = Delivered(@, s)]

\* Every child that is still there has set its handlers, and does not catch s.
AllInterruptible(s) ==
    \A c \in DOMAIN children :
        \/ children[c].at = "done"
        \/ children[c].at = "program" /\ ~ Catches(children[c], s)

\* The terminal sends a signal to the shell and its children.
Key(s) ==
    /\ pc \notin {"ended", "killed"}
    /\ signals < MaxSignals
    /\ signals' = signals + 1
    /\ pc' = IF handlers[s] = "SIG_DFL" THEN "killed" ELSE pc
    /\ handlers' = Delivered(handlers, s)
    /\ g_sig' = IF Handled(handlers, s) THEN s ELSE g_sig
    /\ eintr' \in {eintr, eintr \/ (system_v /\ pc = "wait" /\ Handled(handlers, s))}
    /\ rl_done' = (rl_done \/ handlers[s] = "set_global_sig_variable")
    /\ children' = [c \in DOMAIN children |-> Signalled(children[c], s)]
    /\ pressed' = (pressed \/ s = SIGINT)
    /\ hit' = (hit \/ (s = SIGINT /\ pc = "wait" /\ AllInterruptible(s)))
    /\ spent' = IF s = SIGINT THEN spent + 1 ELSE spent
    /\ UNCHANGED <<system_v, heredoc_interrupted, last_status, input, i, c_status,
                   lines>>

child_setup(c) ==
    /\ children[c].at = "forked"
    /\ children' = [children EXCEPT ![c].at = "program",
                                    ![c].handlers = set_child_sig_handlers(@)]
    /\ UNCHANGED <<shell, input, waiting, bounds, history>>

child_exit(c) ==
    /\ children[c].at = "program" /\ children[c].program # "stays"
    /\ \E status \in IF children[c].program = "fails" THEN {1, 3} ELSE {0} :
         children' = [children EXCEPT ![c].at = "done", ![c].status = status]
    /\ UNCHANGED <<shell, input, waiting, bounds, history>>

(***************************************************************************)
(* The main loop.                                                          *)
(***************************************************************************)
\* main, up to the loop.
Init == /\ system_v \in BOOLEAN
        /\ pc = "start"
        /\ g_sig = 0 /\ rl_done = FALSE /\ heredoc_interrupted = FALSE
        /\ handlers = no_handlers
        /\ last_status = 0
        /\ line = NoLine /\ node = 1 /\ body = 1
        /\ children = << >> /\ i = 1 /\ c_status = 0 /\ eintr = FALSE
        /\ lines = 0 /\ signals = 0
        /\ pressed = FALSE /\ hit = FALSE /\ spent = 0

\* Mutant of AfterCancel: the status stays.
ForgetsCancel == last_status

AfterCancel == 130

\* One turn, up to the start of readline.
main_loop ==
    /\ pc \in {"start", "loop"}
    /\ handlers' = set_idle_sig_handlers
    /\ heredoc_interrupted' = FALSE
    /\ g_sig' = IF heredoc_interrupted THEN 0 ELSE g_sig
    /\ last_status' = IF heredoc_interrupted THEN AfterCancel ELSE last_status
    /\ pc' = IF heredoc_interrupted THEN "loop" ELSE "readline"
    /\ rl_done' = IF heredoc_interrupted THEN rl_done ELSE FALSE
    /\ hit' = FALSE /\ spent' = 0
    /\ UNCHANGED <<system_v, input, children, waiting, bounds, pressed>>

\* readline returns a line, an empty one after Ctrl-C, or NULL.
readline(l) ==
    /\ pc = "readline"
    /\ IF rl_done THEN l = NoLine ELSE l # NoLine /\ lines < MaxLines
    /\ pc' = "read" /\ line' = l
    /\ lines' = IF rl_done THEN lines ELSE lines + 1
    /\ UNCHANGED <<system_v, g_sig, handlers, rl_done, heredoc_interrupted, last_status,
                   node, body, children, waiting, signals, history>>

EndOfInput ==
    /\ pc = "readline" /\ ~ rl_done
    /\ pc' = "ended"
    /\ UNCHANGED <<system_v, g_sig, handlers, rl_done, heredoc_interrupted, last_status,
                   input, children, waiting, bounds, history>>

\* Mutant of Cleared: g_sig is kept.
KeepsSignal(g) == g

Cleared(g) == 0

\* read_command after readline; start_pipeline begins with clear_ctx.
read_command ==
    /\ pc = "read"
    /\ last_status' = IF g_sig # 0 THEN g_sig + 128 ELSE last_status
    /\ g_sig' = Cleared(g_sig)
    /\ pc' = IF line = NoLine THEN "loop" ELSE "heredoc"
    /\ heredoc_interrupted' = IF line = NoLine THEN heredoc_interrupted ELSE FALSE
    /\ node' = 1 /\ body' = 1
    /\ pressed' = FALSE
    /\ UNCHANGED <<system_v, handlers, rl_done, line, children, waiting, bounds, hit,
                   spent>>

(***************************************************************************)
(* Heredocs.                                                               *)
(***************************************************************************)
AtHeredocs == pc = "heredoc" /\ node <= Len(line.heredocs)
ReadAll(h) == body > h.bodies

\* read_heredoc: the body is typed, or the event hook ends readline.
read_heredoc ==
    LET h == line.heredocs[node]
        interrupted == g_sig = SIGINT
    IN  /\ AtHeredocs /\ ~ ReadAll(h)
        /\ heredoc_interrupted' = (heredoc_interrupted \/ interrupted)
        /\ body' = IF interrupted THEN h.bodies + 1 ELSE body + 1
        /\ rl_done' = FALSE
        /\ UNCHANGED <<system_v, pc, g_sig, handlers, last_status, line, node,
                       children, waiting, bounds, history>>

\* Mutant of fd_num: -1 for a body that was cut.
MissesCut(h, cut) == IF h.is_heredoc_end /\ ~ cut THEN "open" ELSE "none"

\* call_heredoc: what becomes of the last body, which may be SIGINT_DURING_HEREDOC.
fd_num(h, cut) ==
    CASE ~ h.is_heredoc_end -> "none"
      [] h.is_heredoc_end /\ cut -> "SIGINT_DURING_HEREDOC"
      [] OTHER -> "open"

\* The end of call_heredoc and of heredoc_handler for this node: the line is
\* given up, or the next node has its turn.
call_heredoc ==
    LET h == line.heredocs[node]
        is_sigint == fd_num(h, heredoc_interrupted) = "SIGINT_DURING_HEREDOC"
    IN  /\ AtHeredocs /\ ReadAll(h)
        /\ pc' = IF is_sigint THEN "loop" ELSE "heredoc"
        /\ node' = node + 1 /\ body' = 1
        /\ UNCHANGED <<system_v, g_sig, handlers, rl_done, heredoc_interrupted, last_status,
                       line, children, waiting, bounds, history>>

(***************************************************************************)
(* The line.                                                               *)
(***************************************************************************)
exec_handler ==
    /\ pc = "heredoc" /\ node > Len(line.heredocs)
    /\ pc' = "exec"
    /\ UNCHANGED <<system_v, g_sig, handlers, rl_done, heredoc_interrupted, last_status,
                   input, children, waiting, bounds, history>>

exec_builtin ==
    /\ pc = "exec" /\ line.children = << >>
    /\ last_status' = line.status
    /\ pc' = "loop"
    /\ UNCHANGED <<system_v, g_sig, handlers, rl_done, heredoc_interrupted, input, children,
                   waiting, bounds, history>>

\* Mutant of first_waited: only the last child is waited for.
LastOnly(kids) == Len(kids)

first_waited(kids) == 1

\* fork: the child has the handlers of the shell until it sets its own.
exec_cmd_handler ==
    /\ pc = "exec" /\ Len(children) < Len(line.children)
    /\ children' = Append(children, [program |-> line.children[Len(children) + 1],
                                     at |-> "forked", handlers |-> handlers,
                                     status |-> 0])
    /\ handlers' = set_parent_sig_handlers
    /\ pc' = IF Len(children') = Len(line.children) THEN "wait" ELSE "exec"
    /\ i' = first_waited(children') /\ c_status' = 0 /\ eintr' = FALSE
    /\ spent' = 0
    /\ UNCHANGED <<system_v, g_sig, rl_done, heredoc_interrupted, last_status, input, bounds,
                   pressed, hit>>

\* One turn of the loop: waitpid returns a status or, interrupted, leaves
\* c_status as it is.  A child that is not waited for is left behind.
wait_turn(status) ==
    LET last == i = Len(children)
    IN  /\ pc = "wait"
        /\ c_status' = status
        /\ eintr' = FALSE
        /\ i' = IF last THEN 1 ELSE i + 1
        /\ last_status' = IF last THEN status ELSE last_status
        /\ pc' = IF last THEN "loop" ELSE "wait"
        /\ children' = IF last THEN << >> ELSE children
        /\ UNCHANGED <<system_v, g_sig, handlers, rl_done, heredoc_interrupted, input,
                       bounds, history>>

wait_children_status ==
    \/ pc = "wait" /\ children[i].at = "done" /\ wait_turn(children[i].status)
    \/ eintr /\ wait_turn(c_status)

\* What the shell does without waiting for its user.
Shell == main_loop \/ read_command \/ call_heredoc \/ exec_handler
         \/ exec_builtin \/ exec_cmd_handler \/ wait_children_status

Kid(c) == c \in DOMAIN children /\ (child_setup(c) \/ child_exit(c))

MaxChildren == 3     \* bound: children of a line

Next == \/ Shell
        \/ \E c \in 1 .. MaxChildren : Kid(c)
        \/ \E s \in Signal : Key(s)
        \/ \E l \in Lines \cup {NoLine} : readline(l)
        \/ read_heredoc
        \/ EndOfInput

Spec == Init /\ [][Next]_vars

Fairness == WF_vars(Shell) /\ \A c \in 1 .. MaxChildren : WF_vars(Kid(c))

FairSpec == Spec /\ Fairness

(***************************************************************************)
(* Properties.                                                             *)
(***************************************************************************)
\* The type invariant.
TypeOK ==
    /\ pc \in {"start", "loop", "readline", "read", "heredoc", "exec", "wait",
               "ended", "killed"}
    /\ g_sig \in {0, SIGINT}
    /\ handlers \in [Signal -> Disposition]
    /\ {system_v, rl_done, heredoc_interrupted, eintr, pressed, hit} \subseteq BOOLEAN
    /\ last_status \in {0, 1, 3, 128 + SIGINT, 128 + SIGQUIT}
    /\ line \in Lines \cup {NoLine} /\ node \in Nat \ {0} /\ body \in Nat \ {0}
    /\ children \in Seq(Child) /\ i \in Nat \ {0} /\ c_status \in Nat
    /\ lines \in 0 .. MaxLines /\ signals \in 0 .. MaxSignals
    /\ spent \in 0 .. signals

\* When a line is taken, $? is 130 if there was a Ctrl-C since the last one,
\* wherever it came, and otherwise what the last line left: no Ctrl-C is lost,
\* and none is reported twice.
InterruptReported ==
    [][pc = "read" /\ pc' # "read" /\ pc' # "killed" =>
         last_status' = IF pressed THEN 130 ELSE last_status]_vars

\* A heredoc is cut only by a Ctrl-C that came after its line was read.
CutByItsOwn ==
    [][heredoc_interrupted' /\ ~ heredoc_interrupted => pressed]_vars

\* A line that was cancelled in a heredoc does not run, unless its last heredoc
\* is superseded by another input: then no descriptor tells of the Ctrl-C.  (The
\* last one decides, since g_sig stays and cuts every body after the first.)
CancelledNotRun ==
    pc \in {"exec", "wait"} /\ heredoc_interrupted => ~ Last(line.heredocs).is_heredoc_end

\* From the first prompt on, no key ends the shell, with one exception: where
\* signal() is that of System V, the second Ctrl-C since main_loop began its turn
\* or the line last forked a child.  Whatever was pressed before, the first one
\* finds a handler, and Ctrl-\ is never fatal.
ShellSurvives ==
    [][pc \notin {"start", "killed"} /\ pc' = "killed" =>
         system_v /\ spent > 0 /\ spent' = spent + 1]_vars

\* The shell leaves a line only when all its children are done, and with the
\* status of the last; where signal() is that of System V, a Ctrl-C may cut the
\* wait short, and no other key does.
WaitsForAll ==
    [][pc = "wait" /\ pc' = "loop" =>
         \/ /\ \A c \in DOMAIN children : children[c].at = "done"
            /\ last_status' = Last(children).status
         \/ system_v /\ pressed]_vars

\* A Ctrl-C that finds every child with its handlers set brings the prompt back.
CtrlCEndsLine == hit ~> pc \in {"readline", "killed"}
=============================================================================
