------------------------------- MODULE Parser -------------------------------
(* The parser (srcs/parser): from the tokens of a line to the tree that the   *)
(* executor walks.                                                            *)
(*                                                                            *)
(* A token is its kind, and a word is the place of its token in the line.     *)
(* The C functions share one cursor, a syntax error and the nodes they pass   *)
(* on; here each returns them as a record, and NULL is a node of that kind.   *)
(* (Every throw_unexpected_error of the parser is behind a test its callers   *)
(* have made; those branches have no counterpart.)                            *)
EXTENDS Grammar

CONSTANT MaxTokens     \* bound: tokens of a line, the ND_EOF not counted

ASSUME MaxTokensAssumption == MaxTokens \in Nat

VARIABLES
    tokens,     \* the token list without its ND_EOF
    phase,      \* "lexer" or "parsed"
    ast,        \* what parse_cmd_handler returns
    is_error    \* of its t_syntax_error

vars == <<tokens, phase, ast, is_error>>

NULL == [kind |-> "NULL"]

create_node(kind) == [kind |-> kind, left |-> NULL, right |-> NULL,
                      cmds |-> {}, redirects |-> {}]

(***************************************************************************)
(* The cursor.                                                             *)
(***************************************************************************)
Token(i) == CASE i \in DOMAIN tokens -> tokens[i]
              [] i = Len(tokens) + 1 -> "ND_EOF"
              [] OTHER -> "none"

is_cmd_parsable_tk(i) == Token(i) \in {"ND_CMD", "ND_REDIRECTS", "ND_L_PARE"}

is_cmd_tail_tk(i) == Token(i) \in Operator \cup {"ND_REDIRECTS", "ND_EOF", "ND_R_PARE"}

\* Mutant of is_rnd_bracket_closed: only the total counts.
BracketsEven == Depth(tokens, 1, Len(tokens)) = 0

is_rnd_bracket_closed ==
    /\ \A k \in DOMAIN tokens : Depth(tokens, 1, k) >= 0
    /\ Depth(tokens, 1, Len(tokens)) = 0

\* What a function of the parser leaves behind: the node, the token the cursor
\* is on, and is_error.
Result(node, at, err) == [node |-> node, at |-> at, err |-> err]

\* Mutant of parser_syntax_err: the node is freed and nothing noted.
FreesOnly(R) == Result(NULL, R.at, R.err)

\* The error is noted and the node freed.
parser_syntax_err(R) == Result(NULL, R.at, TRUE)

(***************************************************************************)
(* Simple commands.                                                        *)
(***************************************************************************)
\* Where the run of words and redirects that starts at i ends.
EndOfRun(i) == CHOOSE e \in i .. Len(tokens) + 1 :
    /\ Token(e) \notin {"ND_CMD", "ND_REDIRECTS"}
    /\ \A k \in i .. e - 1 : Token(k) \in {"ND_CMD", "ND_REDIRECTS"}

\* cnt_cmd_rd: the file name after each operator is a word.
FilesNamed(i) == \A k \in i .. EndOfRun(i) - 1 :
    Token(k) = "ND_REDIRECTS" => Token(k + 1) = "ND_CMD"

parse_redirects(R) ==
    [create_node("ND_REDIRECTS") EXCEPT !.redirects = R]

simple_cmd(i, err) ==
    LET e == EndOfRun(i)
        words == Words(tokens, i, e - 1)
        rds == Redirections(tokens, i, e - 1)
        cmd == [create_node("ND_CMD") EXCEPT !.cmds = words]
    IN  CASE ~ FilesNamed(i) -> parser_syntax_err(Result(NULL, i, err))
          [] FilesNamed(i) /\ rds = {} -> Result(cmd, e, err)
          [] FilesNamed(i) /\ rds # {} /\ words = {} ->
               Result(parse_redirects(rds), e, err)
          [] OTHER -> Result([cmd EXCEPT !.left = parse_redirects(rds)], e, err)

(***************************************************************************)
(* The recursive descent.                                                  *)
(***************************************************************************)
RECURSIVE parse_cmd(_, _)
RECURSIVE parse_cmd_tail(_)
RECURSIVE create_seq_pipe_node(_)

parse_subshell(i, err) ==
    LET L == parse_cmd(i + 1, err)
    IN  IF Token(i + 1) = "ND_R_PARE" THEN parser_syntax_err(Result(NULL, i + 1, err))
        ELSE IF L.node = NULL \/ Token(L.at) # "ND_R_PARE" THEN parser_syntax_err(L)
        ELSE Result([create_node("ND_RND_BRACKET") EXCEPT !.left = L.node],
                    L.at + 1, L.err)

\* What may not come after a command or brackets.
NotAfter(R) ==
    \/ R.node.kind = "ND_RND_BRACKET" /\ Token(R.at) \in {"ND_CMD", "ND_REDIRECTS"}
    \/ Token(R.at) = "ND_L_PARE"

parse_cmd_type(i, err) ==
    LET R == CASE Token(i) = "ND_L_PARE" -> parse_subshell(i, err)
               [] Token(i) \in {"ND_CMD", "ND_REDIRECTS"} -> simple_cmd(i, err)
               [] OTHER -> Result(NULL, i, err)
    IN  IF R.node = NULL \/ NotAfter(R) THEN parser_syntax_err(R) ELSE R

parse_cmd(i, err) ==
    LET R == parse_cmd_type(i, err)
    IN  CASE R.node = NULL /\ R.err -> R
          [] R.node # NULL /\ ~ is_cmd_tail_tk(R.at) -> parser_syntax_err(R)
          [] OTHER -> parse_cmd_tail(R)

\* Mutant of create_seq_pipe_node: the new pipe takes the whole tree as its left.
LeftPipes(P) ==
    IF Token(P.at) # "ND_PIPE" THEN P
    ELSE LET R == parse_cmd_type(P.at + 1, P.err)
         IN  IF R.node = NULL THEN parser_syntax_err(R)
             ELSE create_seq_pipe_node(
                    Result([create_node("ND_PIPE") EXCEPT !.left = P.node, !.right = R.node],
                           R.at, R.err))

\* P.node is a pipe: as long as another follows, it becomes the right side.
create_seq_pipe_node(P) ==
    IF Token(P.at) # "ND_PIPE" THEN P
    ELSE LET R == parse_cmd_type(P.at + 1, P.err)
             child == [create_node("ND_PIPE") EXCEPT
                         !.left = P.node.right, !.right = R.node]
             C == create_seq_pipe_node(Result(child, R.at, R.err))
         IN  IF ~ is_cmd_parsable_tk(P.at + 1) \/ R.node = NULL
             THEN parser_syntax_err(R)
             ELSE [C EXCEPT !.node =
                     IF @ = NULL THEN NULL ELSE [P.node EXCEPT !.right = C.node]]

\* L.node is the left side, the cursor is after the |.
handle_pipe(L) ==
    LET R == parse_cmd_type(L.at, L.err)
        node == [create_node("ND_PIPE") EXCEPT !.left = L.node, !.right = R.node]
    IN  IF ~ is_cmd_parsable_tk(L.at) \/ R.node = NULL THEN parser_syntax_err(R)
        ELSE create_seq_pipe_node(Result(node, R.at, R.err))

\* Mutant of RightSide: a pipe after the right side is left to the caller.
RightSideAlone(R) == R

\* A pipe, and everything after it, belongs to the right side.
RightSide(R) == IF Token(R.at) = "ND_PIPE" THEN parse_cmd_tail(R) ELSE R

\* The cursor is on the operator.
handle_logical_op(L) ==
    LET R == parse_cmd_type(L.at + 1, L.err)
        Q == RightSide(R)
        node == [create_node(Token(L.at)) EXCEPT !.left = L.node, !.right = Q.node]
    IN  IF ~ is_cmd_parsable_tk(L.at + 1) \/ R.node = NULL \/ Q.node = NULL
        THEN parser_syntax_err(R)
        ELSE Result(node, Q.at, Q.err)

\* (The branch for ND_REDIRECTS is dead code: no redirect is left after a simple
\* command, and one after brackets is an error in parse_cmd_type.)
parse_cmd_tail(L) ==
    CASE L.node = NULL -> L
      [] L.node # NULL /\ Token(L.at) = "ND_PIPE" ->
           parse_cmd_tail(handle_pipe([L EXCEPT !.at = @ + 1]))
      [] L.node # NULL /\ Token(L.at) \in Logical ->
           parse_cmd_tail(handle_logical_op(L))
      [] OTHER -> L

(***************************************************************************)
(* From the lexer to the tree and on to the next line.                     *)
(***************************************************************************)
Init == tokens = << >> /\ phase = "lexer" /\ ast = NULL /\ is_error = FALSE

\* lexer appends the next token of the line.
lexer(kind) ==
    /\ phase = "lexer"
    /\ Len(tokens) < MaxTokens
    /\ tokens' = Append(tokens, kind)
    /\ UNCHANGED <<phase, ast, is_error>>

\* (A blank line does not get here.)
parse_cmd_handler ==
    /\ phase = "lexer"
    /\ tokens # << >>
    /\ phase' = "parsed"
    /\ LET R == IF is_rnd_bracket_closed THEN parse_cmd(1, FALSE)
                ELSE parser_syntax_err(Result(NULL, 1, FALSE))
       IN  ast' = R.node /\ is_error' = R.err
    /\ UNCHANGED tokens

\* start_pipeline frees the tree; the next line starts afresh.
free_ast ==
    /\ phase = "parsed"
    /\ tokens' = << >> /\ phase' = "lexer" /\ ast' = NULL /\ is_error' = FALSE

Next == (\E kind \in TokenKind : lexer(kind)) \/ parse_cmd_handler \/ free_ast

Spec == Init /\ [][Next]_vars

(***************************************************************************)
(* Properties.                                                             *)
(***************************************************************************)
Parsed == phase = "parsed"

\* The parser accepts the lines of the grammar, no others, and to the last token,
\* but for one production: parse_cmd_type refuses the redirections that the
\* grammar of parser.c:20-25 allows after brackets.  check_shell_behavior.sh:47 has
\* "(unset PATH && cat Makefile) 2>b || echo hello" run.
AcceptsLines ==
    Parsed => (ast # NULL <=> IsLine(tokens) /\ ~ RedirectsBrackets(tokens))

\* A line without a tree has a message, and a line with a tree has none: nothing
\* is dropped in silence or run after an error was found.
ErrorReported == Parsed => (ast = NULL <=> is_error)

\* The trees have the shape exec_handler relies on: pipelines lean to the right
\* and hold no && or || outside brackets, so that pipe ends and pids belong to
\* one pipeline at a time.
RECURSIVE Shaped(_)
Shaped(n) ==
    CASE n.kind = "ND_CMD" ->
           /\ n.cmds # {} /\ n.right = NULL
           /\ n.left # NULL => n.left.kind = "ND_REDIRECTS" /\ Shaped(n.left)
      [] n.kind = "ND_REDIRECTS" -> n.redirects # {} /\ n.left = NULL /\ n.right = NULL
      [] n.kind = "ND_RND_BRACKET" -> n.right = NULL /\ Shaped(n.left)
      [] n.kind = "ND_PIPE" ->
           /\ n.left.kind \notin Operator /\ n.right.kind \notin Logical
           /\ Shaped(n.left) /\ Shaped(n.right)
      [] n.kind \in Logical -> Shaped(n.left) /\ Shaped(n.right)
      [] OTHER -> FALSE

TreeShape == Parsed /\ ast # NULL => Shaped(ast)

\* What exec_handler makes of a tree when ok[k] says whether the command that
\* starts at token k succeeds.
RECURSIVE Runs(_, _)
Runs(n, ok) ==
    LET l == Runs(n.left, ok)
        r == Runs(n.right, ok)
        rds == IF n.kind = "ND_CMD" /\ n.left # NULL THEN n.left.redirects ELSE n.redirects
    IN  CASE n.kind = "ND_RND_BRACKET" -> l
          [] n.kind = "ND_PIPE" -> [ran |-> l.ran \cup r.ran, ok |-> r.ok]
          [] n.kind \in Logical ->
               IF l.ok = (n.kind = "ND_AND_OP")
               THEN [ran |-> l.ran \cup r.ran, ok |-> r.ok] ELSE l
          [] OTHER -> [ran |-> {<<n.cmds, rds>>}, ok |-> ok[FirstOf(n.cmds \cup rds)]]

\* A pipeline to the right of && or ||, and later the other one: the parser makes
\* all that follows the pipeline part of that right side.
Regrouped == \E k, l, m \in DOMAIN tokens :
    /\ k < l /\ l < m
    /\ {tokens[k], tokens[m]} = Logical
    /\ tokens[l] = "ND_PIPE"
    /\ Depth(tokens, k, l) = 0 /\ Depth(tokens, k, m) = 0
    /\ \A j \in k + 1 .. m : Depth(tokens, k, j) >= 0
    /\ Outer(tokens, k + 1, l, Logical) = {}

\* The tree runs the commands that the line says, whichever of them succeed,
\* and succeeds when the line does.
MeansTheLine ==
    Parsed /\ ast # NULL /\ ~ Regrouped =>
        \A ok \in [DOMAIN tokens -> BOOLEAN] :
            Runs(ast, ok) = Meaning(tokens, 1, Len(tokens), ok)
=============================================================================
