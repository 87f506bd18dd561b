---------------------------- MODULE CommandLine -----------------------------
(* What a user of the shell relies on, one line at a time and without         *)
(* processes, pipes or descriptors: the prompt takes a line, the line is      *)
(* carried out, and the prompt comes back with the promised status in $?.     *)
(* The shell ends at the end of its input or by an exit the line reaches.     *)
(* Executor implements this specification.                                    *)
EXTENDS ShellAst

CONSTANTS Lines,      \* the roots of the trees a typed line can parse to, 0 for
                      \* a line with a syntax error
          MaxLines    \* bound: lines typed in a session

VARIABLES mode,       \* "prompt", "running" or "ended"
          line,       \* the tree being carried out, 0 when there is none
          status,     \* $? at the prompt; 0 while a line runs and it is in flux
          typed       \* lines typed so far

vars == <<mode, line, status, typed>>

Init == /\ mode = "prompt"
        /\ line = 0
        /\ status = 0
        /\ typed = 0

\* EXIT_SYNTAX_ERROR
SyntaxError == 2

TypeLine(root) ==
    /\ mode = "prompt"
    /\ typed < MaxLines
    /\ typed' = typed + 1
    /\ IF root = 0
       THEN status' = SyntaxError /\ UNCHANGED <<mode, line>>
       ELSE /\ mode' = "running"
            /\ line' = root
            /\ status' = 0

Finish ==
    /\ mode = "running"
    /\ mode' = IF Promise[line].exit THEN "ended" ELSE "prompt"
    /\ status' = Promise[line].status
    /\ line' = 0
    /\ UNCHANGED typed

EndOfInput ==
    /\ mode = "prompt"
    /\ mode' = "ended"
    /\ UNCHANGED <<line, status, typed>>

Next == (\E root \in Lines : TypeLine(root)) \/ Finish \/ EndOfInput

Spec == Init /\ [][Next]_vars /\ WF_vars(Finish)
=============================================================================
