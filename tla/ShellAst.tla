------------------------------ MODULE ShellAst ------------------------------
(* The syntax trees the executor walks (t_node in includes/parser.h) and what *)
(* a command line promises to leave in $?.                                    *)
(*                                                                            *)
(* The nodes of every tree in use live in one arena, the sequence Ast, and a  *)
(* node is its index there; 0 is the NULL pointer.  The nodes of a tree are   *)
(* numbered in post-order, so children come before their parents and          *)
(* ascending order is the order in which heredoc_handler visits them.  A      *)
(* command carries what the program it names does, not its words.             *)
EXTENDS Integers, Sequences, FiniteSets

CONSTANT Ast

\* A builtin whose C function returns ctx->last_status instead of a status.
Stale == -1

Kind == {"ND_CMD", "ND_PIPE", "ND_AND_OP", "ND_OR_OP", "ND_RND_BRACKET",
         "ND_REDIRECTS"}

\* typed   - the word typed is a builtin's name (is_builtin before expansion)
\* word    - what the command is once its words are expanded
\* exits   - it is the builtin exit, with arguments that make it exit
\* reads   - the program reads its standard input to the end
\* copies  - it writes a chunk for every chunk it reads
\* emits   - the chunks it writes on its own
\* status  - what it exits with, or the builtin returns
Command == [typed  : BOOLEAN,
            word   : {"builtin", "external", "empty"},
            exits  : BOOLEAN,
            reads  : BOOLEAN,
            copies : BOOLEAN,
            emits  : Nat,
            status : 0 .. 255 \cup {Stale}]

\* One operator of a redirect list with its file: "bad" is a file that cannot
\* be opened or a pattern that matches several; body is a heredoc's size.
Redirect == [op   : {">", ">>", "<", "<<"},
             file : {"ok", "bad"},
             body : Nat]

AstNode == [kind      : Kind,
            left      : Nat,
            right     : Nat,
            redirects : Seq(Redirect),
            cmd       : Command]

Node == DOMAIN Ast
NodeOrNull == Node \cup {0}

RedirectNode == {n \in Node : Ast[n].kind = "ND_REDIRECTS"}

\* What the parser builds: children come first, a command's redirects are its
\* left child, a bracket has a left child only, an operator has both, and a
\* pipeline leans to the right and holds no && or || outside brackets.
WellFormed(n) ==
    LET node == Ast[n]
        l == node.left
        r == node.right
    IN  /\ l \in 0 .. n - 1
        /\ r \in 0 .. n - 1
        /\ CASE node.kind = "ND_CMD" -> r = 0 /\ (l # 0 => l \in RedirectNode)
             [] node.kind = "ND_REDIRECTS" -> l = 0 /\ r = 0 /\ node.redirects # << >>
             [] node.kind = "ND_RND_BRACKET" -> l # 0 /\ r = 0
             [] node.kind = "ND_PIPE" ->
                  /\ l # 0 /\ l < r
                  /\ Ast[l].kind \notin {"ND_PIPE", "ND_AND_OP", "ND_OR_OP"}
                  /\ Ast[r].kind \notin {"ND_AND_OP", "ND_OR_OP"}
             [] OTHER -> l # 0 /\ l < r
        /\ node.cmd.typed \/ node.cmd.exits => node.cmd.word = "builtin"
        /\ node.cmd.word # "builtin" => node.cmd.status # Stale

ASSUME AstAssumption ==
    /\ Ast \in Seq(AstNode)
    /\ \A n \in Node : WellFormed(n)

(***************************************************************************)
(* Where a node stands in its tree.                                        *)
(***************************************************************************)
IsChildOf(n, m) == Ast[m].left = n \/ Ast[m].right = n

\* The lowest number in the tree below a node.
First[n \in Node] == IF Ast[n].left = 0 THEN n ELSE First[Ast[n].left]

\* Trees share no nodes, and their numbers are in post-order.
ASSUME TreeAssumption ==
    /\ \A n, m1, m2 \in Node : IsChildOf(n, m1) /\ IsChildOf(n, m2) => m1 = m2
    /\ \A n \in Node :
         LET l == Ast[n].left
             r == Ast[n].right
         IN  /\ l # 0 /\ r = 0 => l = n - 1
             /\ r # 0 => r = n - 1 /\ First[r] = l + 1

\* The node whose C function calls exec_handler on n, 0 for the root.
Parent == [n \in Node |->
             IF \E m \in Node : IsChildOf(n, m)
             THEN CHOOSE m \in Node : IsChildOf(n, m)
             ELSE 0]

Root[n \in Node] == IF Parent[n] = 0 THEN n ELSE Root[Parent[n]]

\* Inside brackets or a pipeline, where nothing may change the shell itself.
InSubshell[n \in Node] ==
    /\ Parent[n] # 0
    /\ \/ Ast[Parent[n]].kind \in {"ND_PIPE", "ND_RND_BRACKET"}
       \/ InSubshell[Parent[n]]

\* The command n2 is fed by the pipe that the command n1 writes to.
Feeds(n1, n2) ==
    \E m \in Node : /\ Ast[m].kind = "ND_PIPE"
                    /\ Ast[m].left = n1
                    /\ LET r == Ast[m].right
                       IN  n2 = IF Ast[r].kind = "ND_PIPE" THEN Ast[r].left ELSE r

\* The redirects of a command or of a redirect-only node.
RedirectsOf(n) ==
    CASE Ast[n].kind = "ND_REDIRECTS" -> Ast[n].redirects
      [] Ast[n].kind = "ND_CMD" /\ Ast[n].left # 0 -> Ast[Ast[n].left].redirects
      [] OTHER -> << >>

Redirects(n, ops) == \E i \in DOMAIN RedirectsOf(n) : RedirectsOf(n)[i].op \in ops

(***************************************************************************)
(* The promise: the status a line leaves behind, and whether it ends the   *)
(* shell.  A pipeline has the status of its last command, && and || run    *)
(* their right side on the status of the left, brackets and pipelines are  *)
(* subshells that an exit inside them does not leave.                      *)
(***************************************************************************)
Outcome == [status : 0 .. 255, exit : BOOLEAN]

CommandOutcome(n) ==
    LET c == Ast[n].cmd
        opened == \A i \in DOMAIN RedirectsOf(n) : RedirectsOf(n)[i].file = "ok"
    IN  CASE c.word = "empty" -> [status |-> 127, exit |-> FALSE]
          [] c.word # "empty" /\ ~ opened -> [status |-> 1, exit |-> FALSE]
          [] OTHER -> [status |-> IF c.status = Stale THEN 0 ELSE c.status,
                       exit |-> c.exits /\ ~ InSubshell[n]]

Promise[n \in Node] ==
    LET node == Ast[n]
    IN  CASE node.kind = "ND_CMD" -> CommandOutcome(n)
          [] node.kind = "ND_REDIRECTS" ->
               [status |-> IF \A i \in DOMAIN node.redirects : node.redirects[i].file = "ok"
                           THEN 0 ELSE 1,
                exit |-> FALSE]
          [] node.kind = "ND_PIPE" -> Promise[node.right]
          [] node.kind = "ND_AND_OP" ->
               IF Promise[node.left].exit \/ Promise[node.left].status # 0
               THEN Promise[node.left] ELSE Promise[node.right]
          [] node.kind = "ND_OR_OP" ->
               IF Promise[node.left].exit \/ Promise[node.left].status = 0
               THEN Promise[node.left] ELSE Promise[node.right]
          [] node.kind = "ND_RND_BRACKET" -> Promise[node.left]
=============================================================================
